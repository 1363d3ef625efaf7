--------------------------- MODULE Ina229_proofs ---------------------------
(***************************************************************************)
(* Theorems about Ina229, for every size of data_buffer and every length   *)
(* of a block the assumptions of Ina229 allow.                             *)
(***************************************************************************)
EXTENDS Ina229, TLAPS

\* While the timer runs, the fifo of the SPI holds one answer: that to the
\* question asked last, about the channel that belongs to the place where it
\* will be stored.
Question ==
  timer1 = "running" =>
    /\ asked > 0
    /\ \E ch \in {"bus", "shunt"} :
         /\ rx = <<Asked(cfg_ina.chnls, ch, meas, asked)>>
         /\ cfg_ina.chnls = 3 => (ch = "bus" <=> data_buffer_wr_ptr % 2 = 0)

\* The place of a word agrees with its channel.
Right(w, i) == w.both => (w.ch = "bus" <=> i % 2 = 0)

Phases ==
  /\ \A s \in Slot : Right(data_buffer[s], s)
  /\ data_buffer_rd_ptr % 2 = 0 /\ task.prd % 2 = 0
  /\ \A k \in 1 .. Len(task.blk) : Right(task.blk[k], k - 1)

\* How much of the block is there.
Filled ==
  /\ pc = "pick" => Len(task.blk) = 0
  /\ pc = "copy" => Len(task.blk) < BlkCnt
  /\ pc = "index" => Len(task.blk) = BlkCnt

\* Where the block in hand stands in the sum of CMD_DEV_STA.
Tally ==
  ~restarted =>
    /\ pc \notin {"write", "count"} => count.read + count.overflow = blocks
    /\ pc \in {"write", "count"} => count.read + count.overflow + 1 = blocks
    /\ pc = "count" => task.cnt = IF task.ok THEN count.read ELSE count.overflow

\* Words of this measurement that were stored: places below that number hold
\* them, and before the buffer came round task_data_out keeps below it.
Stored == IF asked = 0 THEN 0 ELSE asked - 1

Fresh ==
  /\ \A s \in Slot : s < Stored => data_buffer[s].meas = meas
  /\ Stored < Slots => data_buffer_wr_ptr = Stored
  /\ ~restarted =>
       /\ stale = 0
       /\ Stored < Slots =>
            /\ data_buffer_rd_ptr <= Stored
            /\ pc # "task" => task.prd <= Stored
            /\ pc \in {"copy", "index"} => task.prd + BlkCnt <= Stored

IInv == TypeOK /\ SamplingNeedsSensor /\ Question /\ Phases /\ Filled /\ Tally /\ Fresh

LEMMA Sizes ==
  /\ Slots \in Nat /\ BlkCnt \in Nat /\ 0 < BlkCnt /\ BlkCnt < Slots
  /\ Slots % 2 = 0 /\ BlkCnt % 2 = 0
  /\ MaxSamples \in Nat /\ MaxCommands \in Nat
BY SlotsAssumption, BoundAssumption

\* Going round a buffer of even size keeps the parity of a sum.
LEMMA Round ==
  ASSUME NEW a \in Slot, NEW b \in 0 .. Slots
  PROVE  /\ (a + b) % Slots = IF a + b < Slots THEN a + b ELSE a + b - Slots
         /\ (a + b) % Slots \in Slot
         /\ ((a + b) % Slots) % 2 = (a + b) % 2
<1>1. Slots \in Nat /\ Slots > 0 /\ a \in Nat /\ b \in Nat /\ a < Slots
  BY Sizes DEF Slot
<1>2. CASE a + b < Slots
  <2>1. (a + b) % Slots = a + b
    BY <1>1, <1>2
  <2> QED
    BY <1>1, <1>2, <2>1 DEF Slot
<1>3. CASE ~(a + b < Slots)
  <2> DEFINE c == a + b - Slots
  <2>1. c \in Nat /\ c < Slots /\ a + b = c + Slots
    BY <1>1, <1>3
  <2>2. (c + Slots) % Slots = c
    BY <1>1, <2>1
  <2>3. (c + Slots) % 2 = c % 2
    BY <2>1, Sizes
  <2> HIDE DEF c
  <2>4. (a + b) % Slots = c /\ (a + b) % 2 = c % 2 /\ c \in Slot
    BY <1>1, <2>1, <2>2, <2>3 DEF Slot
  <2>5. c = a + b - Slots
    BY DEF c
  <2> QED
    BY <1>3, <2>4, <2>5
<1> QED
  BY <1>2, <1>3

-----------------------------------------------------------------------------
LEMMA InitIInv == Init => IInv
<1> SUFFICES ASSUME Init PROVE IInv
  OBVIOUS
<1>1. Other \in Word /\ Other.both = FALSE /\ Other.meas = 0
  BY DEF Other, Word
<1>2. TypeOK
  <2>1. 0 \in Slot /\ Len(<<>>) <= BlkCnt
    BY Sizes DEF Slot
  <2>2. /\ data_buffer \in [Slot -> Word] /\ task \in [prd : Slot, blk : Seq(Word), cnt : Nat, ok : BOOLEAN]
        /\ Len(task.blk) <= BlkCnt /\ rx \in Seq(Word)
    BY <1>1, <2>1 DEF Init
  <2>3. used \in [samples : 0 .. MaxSamples, commands : 0 .. MaxCommands]
    BY Sizes DEF Init
  <2>4. /\ cfg_ina \in [inited : BOOLEAN, buf_enable : BOOLEAN, chnls : 0 .. 3]
        /\ cfg_adc \in [enable : BOOLEAN, chnl : 0 .. 3]
        /\ count \in [read : Nat, overflow : Nat]
    BY DEF Init
  <2> QED
    BY <2>1, <2>2, <2>3, <2>4 DEF Init, TypeOK, Where
<1>3. SamplingNeedsSensor /\ Question
  BY DEF Init, SamplingNeedsSensor, Question
<1>4. Phases
  BY <1>1, Sizes DEF Init, Phases, Right, Slot
<1>5. Filled /\ Tally
  BY DEF Init, Filled, Tally
<1>6. Fresh
  BY Sizes DEF Init, Fresh, Stored, Slot
<1> QED
  BY <1>2, <1>3, <1>4, <1>5, <1>6 DEF IInv

-----------------------------------------------------------------------------
(***************************************************************************)
(* The interrupt of the timer.                                             *)
(***************************************************************************)
LEMMA IsrStep == ASSUME IInv, timer1_isr PROVE IInv'
<1> DEFINE wr == NextPlace(data_buffer_wr_ptr)
           c == Channel(cfg_ina.chnls, data_buffer_wr_ptr)
<1>1. /\ timer1 = "running" /\ cfg_ina.buf_enable /\ asked > 0
      /\ data_buffer_wr_ptr \in Slot /\ asked \in Nat /\ meas \in Nat
      /\ cfg_ina.chnls \in 0 .. 3 /\ data_buffer \in [Slot -> Word]
  BY DEF timer1_isr, IInv, SamplingNeedsSensor, TypeOK, Question
<1>2. PICK ch \in {"bus", "shunt"} :
        /\ rx = <<Asked(cfg_ina.chnls, ch, meas, asked)>>
        /\ cfg_ina.chnls = 3 => (ch = "bus" <=> data_buffer_wr_ptr % 2 = 0)
  BY <1>1 DEF IInv, Question
<1> DEFINE w == Asked(cfg_ina.chnls, ch, meas, asked)
           next == Asked(cfg_ina.chnls, c, meas, asked + 1)
<1>3. Received = w /\ Behind = <<>>
  BY <1>2 DEF Received, Behind
<1>4. c \in {"bus", "shunt"} /\ (cfg_ina.chnls = 3 => (c = "bus" <=> data_buffer_wr_ptr % 2 = 1))
  BY DEF Channel
<1>5. w \in Word /\ next \in Word
  BY <1>1, <1>4 DEF Asked, Word
<1>6. /\ wr \in Slot
      /\ wr = IF data_buffer_wr_ptr + 1 < Slots THEN data_buffer_wr_ptr + 1 ELSE 0
      /\ wr % 2 = (data_buffer_wr_ptr + 1) % 2
  <2>1. 1 \in 0 .. Slots /\ data_buffer_wr_ptr \in Nat /\ data_buffer_wr_ptr <= Slots - 1
    BY <1>1, Sizes DEF Slot
  <2> QED
    BY <1>1, <2>1, Round, Sizes DEF NextPlace
<1>7. /\ asked' = asked + 1
      /\ rx' = <<next>>
      /\ data_buffer' = [data_buffer EXCEPT ![data_buffer_wr_ptr] = w]
      /\ data_buffer_wr_ptr' = wr
      /\ UNCHANGED <<cfg_ina, cfg_adc, timer1, dtr_enable, meas, data_buffer_rd_ptr,
                     pc, task, count, last, restarted, stale, blocks>>
  <2>1. Append(<<>>, next) = <<next>>
    OBVIOUS
  <2> QED
    BY <1>1, <1>3, <2>1 DEF timer1_isr
<1>8. TypeOK'
  <2>1. lapped' \in BOOLEAN /\ torn' \in BOOLEAN
    BY DEF timer1_isr, IInv, TypeOK
  <2>2. used' \in [samples : 0 .. MaxSamples, commands : 0 .. MaxCommands]
    <3>1. used \in [samples : 0 .. MaxSamples, commands : 0 .. MaxCommands]
      BY DEF IInv, TypeOK
    <3>2. used.samples + 1 \in 0 .. MaxSamples
      BY <3>1, Sizes DEF timer1_isr
    <3> QED
      BY <3>1, <3>2 DEF timer1_isr
  <2>3. rx' \in Seq(Word)
    BY <1>5, <1>7
  <2> HIDE DEF wr, w, next
  <2> QED
    BY <1>1, <1>5, <1>6, <1>7, <2>1, <2>2, <2>3 DEF IInv, TypeOK
<1>9. SamplingNeedsSensor'
  BY <1>7 DEF IInv, SamplingNeedsSensor
<1>10. Question'
  <2>1. cfg_ina.chnls = 3 => (c = "bus" <=> wr % 2 = 0)
    <3>1. wr % 2 = 0 <=> data_buffer_wr_ptr % 2 = 1
      BY <1>1, <1>6, Sizes DEF Slot
    <3> QED
      BY <1>4, <3>1
  <2>2. asked' > 0
    BY <1>1, <1>7
  <2> HIDE DEF wr, c
  <2> QED
    BY <1>4, <1>7, <2>1, <2>2 DEF Question
<1>11. Phases'
  <2>1. Right(w, data_buffer_wr_ptr)
    BY <1>2 DEF Right, Asked
  <2>2. \A s \in Slot : Right(data_buffer'[s], s)
    BY <1>1, <1>7, <2>1 DEF IInv, Phases
  <2> HIDE DEF w
  <2> QED
    BY <1>7, <2>2 DEF IInv, Phases
<1>12. Filled' /\ Tally'
  BY <1>7 DEF IInv, Filled, Tally
<1>13. Fresh'
  <2>1. w.meas = meas
    BY DEF Asked
  <2>2. Stored' = Stored + 1 /\ Stored \in Nat
    BY <1>1, <1>7 DEF Stored
  <2> HIDE DEF w, wr
  <2>3. ASSUME NEW s \in Slot, s < Stored' PROVE data_buffer'[s].meas = meas'
    <3>1. CASE s = data_buffer_wr_ptr
      BY <1>1, <1>7, <2>1, <3>1
    <3>2. CASE s # data_buffer_wr_ptr
      <4>1. s < Stored
        BY <2>2, <2>3, <3>2, Sizes DEF IInv, Fresh, Slot
      <4> QED
        BY <1>1, <1>7, <3>2, <4>1 DEF IInv, Fresh
    <3> QED
      BY <3>1, <3>2
  <2>4. Stored' < Slots => data_buffer_wr_ptr' = Stored'
    BY <1>6, <1>7, <2>2, Sizes DEF IInv, Fresh
  <2>5. /\ data_buffer_rd_ptr \in Nat /\ task.prd \in Nat
    BY DEF IInv, TypeOK, Slot
  <2> QED
    BY <1>7, <2>2, <2>3, <2>4, <2>5, Sizes DEF IInv, Fresh
<1> QED
  BY <1>8, <1>9, <1>10, <1>11, <1>12, <1>13 DEF IInv

-----------------------------------------------------------------------------
(***************************************************************************)
(* Commands and line states: a measurement begins, or nothing but the      *)
(* device changes.                                                         *)
(***************************************************************************)
DeviceTypes ==
  /\ cfg_ina \in [inited : BOOLEAN, buf_enable : BOOLEAN, chnls : 0 .. 3]
  /\ cfg_adc \in [enable : BOOLEAN, chnl : 0 .. 3]
  /\ timer1 \in {"null", "stopped", "running"} /\ dtr_enable \in BOOLEAN
  /\ rx \in Seq(Word)
  /\ used \in [samples : 0 .. MaxSamples, commands : 0 .. MaxCommands]

Begins ==
  /\ timer1' = "running" /\ cfg_ina'.inited /\ cfg_ina'.buf_enable /\ cfg_adc'.enable
  /\ rx' = <<Asked(cfg_ina'.chnls, FirstAsked(cfg_ina'.chnls), meas + 1, 1)>>
  /\ ResetPointers /\ NewMeasurement
  /\ count' = [read |-> 0, overflow |-> 0]

Keeps ==
  /\ UNCHANGED <<data_buffer_wr_ptr, data_buffer_rd_ptr, count, meas, asked, history>>
  /\ timer1' = "running" =>
       timer1 = "running" /\ cfg_adc'.enable /\ UNCHANGED <<cfg_ina, rx>>

Effect ==
  /\ UNCHANGED <<pc, task, data_buffer>>
  /\ DeviceTypes'
  /\ Begins \/ Keeps

LEMMA PollSend ==
  ASSUME NEW fifo \in Seq(Word) PROVE bflb_spi_poll_send(fifo) \in Seq(Word)
<1>1. Other \in Word
  BY DEF Other, Word
<1>2. Append(fifo, Other) \in Seq(Word) /\ Len(Append(fifo, Other)) = Len(fifo) + 1
  BY <1>1
<1>3. Append(fifo, Other) # <<>>
  <2>1. Len(fifo) \in Nat
    OBVIOUS
  <2>2. Len(<<>>) = 0
    OBVIOUS
  <2> QED
    BY <1>2, <2>1, <2>2
<1> QED
  BY <1>2, <1>3 DEF bflb_spi_poll_send

LEMMA StartEffect ==
  ASSUME IInv, NEW chnl \in 0 .. 3, ina229_start(chnl), cfg_adc'.enable
  PROVE  /\ data_buffer' = data_buffer
         /\ cfg_ina' \in [inited : BOOLEAN, buf_enable : BOOLEAN, chnls : 0 .. 3]
         /\ timer1' \in {"null", "stopped", "running"}
         /\ rx' \in Seq(Word)
         /\ Begins \/ Keeps
<1>1. /\ cfg_ina \in [inited : BOOLEAN, buf_enable : BOOLEAN, chnls : 0 .. 3]
      /\ timer1 \in {"null", "stopped", "running"} /\ rx \in Seq(Word) /\ meas \in Nat
  BY DEF IInv, TypeOK
<1>2. CASE ~cfg_ina.inited
  <2>1. timer1 # "running"
    BY <1>2 DEF IInv, SamplingNeedsSensor
  <2> QED
    BY <1>1, <1>2, <2>1 DEF ina229_start, Keeps, buffer
<1>3. CASE cfg_ina.inited
  <2> DEFINE c == Chnls(chnl)
             q == Asked(c, FirstAsked(c), meas + 1, 1)
  <2>1. c \in 0 .. 3
    BY DEF Chnls
  <2>2. q \in Word
    BY <1>1 DEF Asked, FirstAsked, Word
  <2>3. StartFifo(c) = <<q>>
    <3>1. Append(<<>>, q) = <<q>>
      OBVIOUS
    <3> QED
      BY <3>1 DEF StartFifo, SetDataWidth
  <2>4. /\ cfg_ina' = [cfg_ina EXCEPT !.buf_enable = TRUE, !.chnls = c]
        /\ rx' = <<q>>
        /\ count' = [read |-> 0, overflow |-> 0] /\ ResetPointers
        /\ timer1' = "running" /\ NewMeasurement /\ data_buffer' = data_buffer
    BY <1>3, <2>3 DEF ina229_start
  <2> HIDE DEF c
  <2>5. cfg_ina'.inited /\ cfg_ina'.buf_enable /\ cfg_ina'.chnls = c
    BY <1>1, <1>3, <2>4
  <2>6. Begins
    BY <2>4, <2>5 DEF Begins
  <2>7. <<q>> \in Seq(Word)
    BY <2>2
  <2> HIDE DEF q
  <2> QED
    BY <1>1, <2>1, <2>4, <2>6, <2>7
<1> QED
  BY <1>2, <1>3

LEMMA StopEffect ==
  ASSUME IInv, ina229_stop \/ ina229_sleep \/ \E found \in BOOLEAN : ina229_wakeup(found)
  PROVE  /\ cfg_ina' \in [inited : BOOLEAN, buf_enable : BOOLEAN, chnls : 0 .. 3]
         /\ timer1' \in {"null", "stopped", "running"}
         /\ rx' \in Seq(Word)
         /\ timer1' = "running" => timer1 = "running" /\ UNCHANGED <<cfg_ina, rx>>
         /\ ina229_stop => timer1' # "running"
<1>1. /\ cfg_ina \in [inited : BOOLEAN, buf_enable : BOOLEAN, chnls : 0 .. 3]
      /\ timer1 \in {"null", "stopped", "running"} /\ rx \in Seq(Word)
  BY DEF IInv, TypeOK
<1>2. ~cfg_ina.inited => timer1 # "running"
  BY DEF IInv, SamplingNeedsSensor
<1>3. bflb_spi_poll_send(<<>>) \in Seq(Word)
  <2>1. <<>> \in Seq(Word)
    OBVIOUS
  <2> QED
    BY <2>1, PollSend
<1>4. bflb_spi_poll_send(bflb_spi_poll_send(<<>>)) \in Seq(Word)
  BY <1>3, PollSend
<1>5. CASE ina229_stop
  BY <1>1, <1>2, <1>3, <1>5 DEF ina229_stop, StopTimer, SetDataWidth
<1>6. CASE ina229_sleep
  <2>1. timer1' = "stopped" /\ rx' \in Seq(Word)
    BY <1>1, <1>3, <1>6 DEF ina229_sleep, SetDataWidth
  <2> QED
    BY <1>1, <1>6, <2>1 DEF ina229_sleep
<1>7. ASSUME NEW found \in BOOLEAN, ina229_wakeup(found)
      PROVE  /\ cfg_ina' \in [inited : BOOLEAN, buf_enable : BOOLEAN, chnls : 0 .. 3]
             /\ timer1' \in {"null", "stopped", "running"}
             /\ rx' \in Seq(Word)
             /\ timer1' = "running" => timer1 = "running" /\ UNCHANGED <<cfg_ina, rx>>
  BY <1>1, <1>4, <1>7 DEF ina229_wakeup
<1>8. ina229_stop => timer1' # "running"
  BY <1>2 DEF ina229_stop, StopTimer
<1> QED
  BY <1>5, <1>6, <1>7, <1>8

LEMMA CommandEffect ==
  ASSUME IInv, usbd_cdc_acm_bulk_out \/ usbd_cdc_acm_set_dtr
  PROVE  Effect
<1>1. /\ cfg_adc \in [enable : BOOLEAN, chnl : 0 .. 3] /\ dtr_enable \in BOOLEAN
      /\ used \in [samples : 0 .. MaxSamples, commands : 0 .. MaxCommands]
  BY DEF IInv, TypeOK
<1>2. timer1 = "running" => cfg_adc.enable
  BY DEF IInv, SamplingNeedsSensor
<1>3. UNCHANGED <<pc, task>> /\ dtr_enable' \in BOOLEAN
  BY <1>1 DEF usbd_cdc_acm_bulk_out, usbd_cdc_acm_set_dtr, Command
<1>4. used' \in [samples : 0 .. MaxSamples, commands : 0 .. MaxCommands]
  <2>1. used.commands < MaxCommands /\ used' = [used EXCEPT !.commands = @ + 1]
    BY DEF usbd_cdc_acm_bulk_out, usbd_cdc_acm_set_dtr, Command
  <2>2. used.commands + 1 \in 0 .. MaxCommands
    BY <1>1, <2>1, Sizes
  <2> QED
    BY <1>1, <2>1, <2>2
<1>5. ASSUME NEW chnl \in 0 .. 3, CmdEcadStart(chnl) PROVE Effect
  <2>1. ina229_start(chnl) /\ cfg_adc' = [enable |-> TRUE, chnl |-> cfg_ina'.chnls]
    BY <1>5 DEF CmdEcadStart
  <2>2. cfg_adc'.enable
    BY <2>1
  <2>3. /\ data_buffer' = data_buffer
        /\ cfg_ina' \in [inited : BOOLEAN, buf_enable : BOOLEAN, chnls : 0 .. 3]
        /\ timer1' \in {"null", "stopped", "running"} /\ rx' \in Seq(Word)
        /\ Begins \/ Keeps
    BY <2>1, <2>2, StartEffect
  <2>4. cfg_adc' \in [enable : BOOLEAN, chnl : 0 .. 3]
    BY <2>1, <2>3
  <2> QED
    BY <1>3, <1>4, <2>3, <2>4 DEF Effect, DeviceTypes
<1>6. CASE CmdInaStr
  <2>1. ina229_start(cfg_adc.chnl) /\ cfg_adc' = [cfg_adc EXCEPT !.enable = TRUE]
    BY <1>6 DEF CmdInaStr
  <2>2. cfg_adc'.enable /\ cfg_adc.chnl \in 0 .. 3
        /\ cfg_adc' \in [enable : BOOLEAN, chnl : 0 .. 3]
    BY <1>1, <2>1
  <2>3. /\ data_buffer' = data_buffer
        /\ cfg_ina' \in [inited : BOOLEAN, buf_enable : BOOLEAN, chnls : 0 .. 3]
        /\ timer1' \in {"null", "stopped", "running"} /\ rx' \in Seq(Word)
        /\ Begins \/ Keeps
    BY <2>1, <2>2, StartEffect
  <2> QED
    BY <1>3, <1>4, <2>2, <2>3 DEF Effect, DeviceTypes
<1>7. ASSUME ina229_stop \/ ina229_sleep \/ \E found \in BOOLEAN : ina229_wakeup(found),
             Keep, cfg_adc' \in [enable : BOOLEAN, chnl : 0 .. 3],
             ina229_stop \/ UNCHANGED cfg_adc
      PROVE  Effect
  <2>1. /\ cfg_ina' \in [inited : BOOLEAN, buf_enable : BOOLEAN, chnls : 0 .. 3]
        /\ timer1' \in {"null", "stopped", "running"} /\ rx' \in Seq(Word)
        /\ timer1' = "running" => timer1 = "running" /\ UNCHANGED <<cfg_ina, rx>>
        /\ ina229_stop => timer1' # "running"
    BY <1>7, StopEffect
  <2>2. timer1' = "running" => UNCHANGED cfg_adc
    BY <1>7, <2>1
  <2>3. Keeps /\ data_buffer' = data_buffer
    BY <1>2, <1>7, <2>1, <2>2 DEF Keep, Keeps, buffer
  <2> QED
    BY <1>3, <1>4, <1>7, <2>1, <2>3 DEF Effect, DeviceTypes
<1>8. ASSUME NEW chnl \in 0 .. 3, CmdEcadStop(chnl) PROVE Effect
  <2>1. cfg_adc' \in [enable : BOOLEAN, chnl : 0 .. 3]
    BY <1>8 DEF CmdEcadStop
  <2> QED
    BY <1>7, <1>8, <2>1 DEF CmdEcadStop
<1>9. CASE CmdInaStp
  <2>1. cfg_adc' \in [enable : BOOLEAN, chnl : 0 .. 3]
    BY <1>1, <1>9 DEF CmdInaStp
  <2> QED
    BY <1>7, <1>9, <2>1 DEF CmdInaStp
<1>10. CASE CmdPwr
  BY <1>1, <1>7, <1>10 DEF CmdPwr
<1>11. CASE usbd_cdc_acm_bulk_out
  BY <1>5, <1>6, <1>8, <1>9, <1>10, <1>11 DEF usbd_cdc_acm_bulk_out, Command
<1>12. CASE usbd_cdc_acm_set_dtr
  <2>1. /\ Keep /\ UNCHANGED cfg_adc
        /\ ina229_sleep \/ \E found \in BOOLEAN : ina229_wakeup(found)
    BY <1>12 DEF usbd_cdc_acm_set_dtr, Command
  <2> QED
    BY <1>1, <1>7, <2>1
<1> QED
  BY <1>11, <1>12

LEMMA CommandStep == ASSUME IInv, Effect PROVE IInv'
<1>1. UNCHANGED <<pc, task, data_buffer>> /\ DeviceTypes'
  BY DEF Effect
<1>2. CASE Begins
  <2>1. /\ data_buffer_wr_ptr' = 0 /\ data_buffer_rd_ptr' = 0
        /\ meas' = meas + 1 /\ asked' = 1 /\ last' = 0 /\ stale' = 0 /\ blocks' = 0
        /\ lapped' = FALSE /\ torn' = FALSE
        /\ count' = [read |-> 0, overflow |-> 0]
        /\ restarted' \in BOOLEAN /\ (~restarted' => pc = "task")
    <3>1. restarted' = (pc # "task")
      BY <1>2 DEF Begins, NewMeasurement
    <3>2. restarted' \in BOOLEAN /\ (~restarted' => pc = "task")
      BY <3>1, Zenon
    <3> QED
      BY <1>2, <3>2 DEF Begins, ResetPointers, NewMeasurement
  <2>2. 0 \in Slot /\ meas \in Nat /\ 0 % 2 = 0
    BY Sizes DEF Slot, IInv, TypeOK
  <2>3. TypeOK'
    <3>1. count' \in [read : Nat, overflow : Nat] /\ meas' \in Nat
      BY <2>1, <2>2
    <3>2. /\ data_buffer' \in [Slot -> Word] /\ pc' \in Where
          /\ task' \in [prd : Slot, blk : Seq(Word), cnt : Nat, ok : BOOLEAN]
          /\ Len(task'.blk) <= BlkCnt
      BY <1>1 DEF IInv, TypeOK
    <3> QED
      BY <1>1, <2>1, <2>2, <3>1, <3>2 DEF DeviceTypes, TypeOK
  <2>4. SamplingNeedsSensor'
    BY <1>2 DEF Begins, SamplingNeedsSensor
  <2>5. Question'
    <3>1. /\ FirstAsked(cfg_ina'.chnls) \in {"bus", "shunt"}
          /\ cfg_ina'.chnls = 3 => FirstAsked(cfg_ina'.chnls) = "bus"
      BY DEF FirstAsked
    <3>2. rx' = <<Asked(cfg_ina'.chnls, FirstAsked(cfg_ina'.chnls), meas', asked')>>
      BY <1>2, <2>1 DEF Begins
    <3> QED
      BY <2>1, <2>2, <3>1, <3>2 DEF Question
  <2>6. Phases'
    BY <1>1, <2>1, <2>2 DEF IInv, Phases
  <2>7. Filled' /\ Tally'
    BY <1>1, <2>1 DEF IInv, Filled, Tally
  <2>8. Fresh'
    <3>1. Stored' = 0
      BY <2>1 DEF Stored
    <3>2. \A s \in Slot : ~(s < 0)
      BY Sizes DEF Slot
    <3> QED
      BY <1>1, <2>1, <3>1, <3>2 DEF Fresh
  <2> QED
    BY <2>3, <2>4, <2>5, <2>6, <2>7, <2>8 DEF IInv
<1>3. CASE Keeps
  <2>1. /\ UNCHANGED <<data_buffer_wr_ptr, data_buffer_rd_ptr, count, meas, asked, last,
                       lapped, torn, restarted, stale, blocks>>
        /\ timer1' = "running" =>
             timer1 = "running" /\ cfg_adc'.enable /\ UNCHANGED <<cfg_ina, rx>>
    BY <1>3 DEF Keeps, history
  <2>2. TypeOK'
    BY <1>1, <2>1 DEF DeviceTypes, IInv, TypeOK
  <2>3. SamplingNeedsSensor' /\ Question'
    BY <2>1 DEF IInv, SamplingNeedsSensor, Question
  <2>4. Phases' /\ Filled' /\ Tally'
    BY <1>1, <2>1 DEF IInv, Phases, Filled, Tally
  <2>5. Fresh'
    BY <1>1, <2>1 DEF IInv, Fresh, Stored
  <2> QED
    BY <2>2, <2>3, <2>4, <2>5 DEF IInv
<1> QED
  BY <1>2, <1>3 DEF Effect

-----------------------------------------------------------------------------
(***************************************************************************)
(* task_data_out.                                                          *)
(***************************************************************************)
LEMMA DeviceKept ==
  ASSUME IInv, UNCHANGED <<device, data_buffer_wr_ptr>>
  PROVE  SamplingNeedsSensor' /\ Question' /\ Stored' = Stored
<1>1. UNCHANGED <<cfg_ina, cfg_adc, timer1, rx, meas, asked, data_buffer_wr_ptr>>
  BY DEF device
<1> QED
  BY <1>1 DEF IInv, SamplingNeedsSensor, Question, Stored

LEMMA ReadStep == ASSUME IInv, TaskRead PROVE IInv'
<1>1. /\ pc = "task" /\ pc' = "pick" /\ torn' = FALSE
      /\ UNCHANGED <<device, buffer, count, last, lapped, restarted, stale, blocks, used>>
      /\ task' = [task EXCEPT !.prd = data_buffer_rd_ptr, !.blk = <<>>]
  BY DEF TaskRead
<1>2. UNCHANGED <<cfg_ina, cfg_adc, timer1, dtr_enable, rx, meas, asked,
                  data_buffer, data_buffer_wr_ptr, data_buffer_rd_ptr>>
  BY <1>1 DEF device, buffer
<1>3. /\ task \in [prd : Slot, blk : Seq(Word), cnt : Nat, ok : BOOLEAN]
      /\ data_buffer_rd_ptr \in Slot
  BY DEF IInv, TypeOK
<1>4. <<>> \in Seq(Word) /\ Len(<<>>) = 0
  OBVIOUS
<1>5. /\ task'.prd = data_buffer_rd_ptr /\ task'.blk = <<>>
      /\ task' \in [prd : Slot, blk : Seq(Word), cnt : Nat, ok : BOOLEAN]
  BY <1>1, <1>3, <1>4
<1>6. TypeOK'
  <2>1. Len(task'.blk) <= BlkCnt
    BY <1>4, <1>5, Sizes
  <2> QED
    BY <1>1, <1>2, <1>5, <2>1 DEF IInv, TypeOK, Where
<1>7. SamplingNeedsSensor' /\ Question' /\ Stored' = Stored
  BY <1>1, <1>2, DeviceKept
<1>8. Phases'
  BY <1>2, <1>4, <1>5 DEF IInv, Phases
<1>9. Filled' /\ Tally'
  BY <1>1, <1>4, <1>5 DEF IInv, Filled, Tally
<1>10. Fresh'
  BY <1>1, <1>2, <1>5, <1>7 DEF IInv, Fresh
<1> QED
  BY <1>6, <1>7, <1>8, <1>9, <1>10 DEF IInv

LEMMA PickStep == ASSUME IInv, TaskPick PROVE IInv'
<1>1. /\ pc = "pick" /\ UNCHANGED <<device, buffer, task, count, history, used>>
      /\ pc' = IF BlockPending(task.prd, data_buffer_wr_ptr) THEN "copy" ELSE "task"
  BY DEF TaskPick
<1>2. UNCHANGED <<cfg_ina, cfg_adc, timer1, dtr_enable, rx, meas, asked,
                  data_buffer, data_buffer_wr_ptr, data_buffer_rd_ptr,
                  task, count, last, lapped, torn, restarted, stale, blocks, used>>
  BY <1>1 DEF device, buffer, history
<1>3. TypeOK'
  BY <1>1, <1>2 DEF IInv, TypeOK, Where
<1>4. SamplingNeedsSensor' /\ Question' /\ Stored' = Stored
  BY <1>2, DeviceKept DEF device
<1>5. Phases' /\ Filled' /\ Tally'
  BY <1>1, <1>2, Sizes DEF IInv, Phases, Filled, Tally
<1>6. Fresh'
  <2>1. ASSUME BlockPending(task.prd, data_buffer_wr_ptr), Stored < Slots, ~restarted
        PROVE  task.prd + BlkCnt <= Stored
    <3>1. data_buffer_wr_ptr = Stored /\ task.prd <= Stored /\ task.prd \in Nat /\ Stored \in Nat
      BY <1>1, <2>1 DEF IInv, Fresh, TypeOK, Slot, Stored
    <3> DEFINE d == Stored - task.prd
    <3>2. d \in Nat /\ d < Slots /\ Stored + Slots - task.prd = d + Slots
      BY <2>1, <3>1, Sizes
    <3>3. (d + Slots) % Slots = d
      BY <3>2, Sizes
    <3>4. d >= BlkCnt
      <4>1. (Stored + Slots - task.prd) % Slots >= BlkCnt
        BY <2>1, <3>1 DEF BlockPending
      <4> HIDE DEF d
      <4> QED
        BY <3>2, <3>3, <4>1
    <3> QED
      BY <3>1, <3>4, Sizes
  <2> QED
    BY <1>1, <1>2, <1>4, <2>1 DEF IInv, Fresh
<1> QED
  BY <1>3, <1>4, <1>5, <1>6 DEF IInv

LEMMA CopyStep == ASSUME IInv, TaskCopy PROVE IInv'
<1> DEFINE k == Len(task.blk)
           i == PlaceOf(task.prd, k)
           s == data_buffer[i]
<1>1. /\ pc = "copy" /\ task' = [task EXCEPT !.blk = Append(@, s)]
      /\ stale' = IF s.meas = meas THEN stale ELSE stale + 1
      /\ pc' = IF k + 1 = BlkCnt THEN "index" ELSE "copy"
      /\ UNCHANGED <<device, buffer, count, last, lapped, torn, restarted, blocks, used>>
  BY DEF TaskCopy
<1>2. UNCHANGED <<cfg_ina, cfg_adc, timer1, dtr_enable, rx, meas, asked,
                  data_buffer, data_buffer_wr_ptr, data_buffer_rd_ptr>>
  BY <1>1 DEF device, buffer
<1>3. /\ task \in [prd : Slot, blk : Seq(Word), cnt : Nat, ok : BOOLEAN]
      /\ k \in Nat /\ k < BlkCnt /\ stale \in Nat /\ data_buffer \in [Slot -> Word]
  BY <1>1 DEF IInv, TypeOK, Filled
<1>4. /\ i \in Slot /\ i % 2 = (task.prd + k) % 2
      /\ i = IF task.prd + k < Slots THEN task.prd + k ELSE task.prd + k - Slots
  <2>1. task.prd \in Slot /\ k \in 0 .. Slots
    BY <1>3, Sizes
  <2> HIDE DEF k
  <2> QED
    BY <2>1, Round DEF PlaceOf
<1>5. s \in Word
  BY <1>3, <1>4
<1> HIDE DEF i, s
<1>6. /\ task'.blk = Append(task.blk, s) /\ task'.prd = task.prd
      /\ Len(task'.blk) = k + 1
      /\ task' \in [prd : Slot, blk : Seq(Word), cnt : Nat, ok : BOOLEAN]
      /\ task'.cnt = task.cnt /\ task'.ok = task.ok
  <2>1. task.blk \in Seq(Word)
    BY <1>3
  <2>2. Append(task.blk, s) \in Seq(Word) /\ Len(Append(task.blk, s)) = k + 1
    BY <1>5, <2>1
  <2> HIDE DEF k
  <2> QED
    BY <1>1, <1>3, <2>2
<1>7. TypeOK'
  <2>1. stale' \in Nat
    BY <1>1, <1>3
  <2>2. Len(task'.blk) <= BlkCnt
    BY <1>3, <1>6, Sizes
  <2> HIDE DEF k
  <2> QED
    BY <1>1, <1>2, <1>6, <2>1, <2>2 DEF IInv, TypeOK, Where
<1>8. SamplingNeedsSensor' /\ Question' /\ Stored' = Stored
  BY <1>1, <1>2, DeviceKept
<1>9. Phases'
  <2>1. Right(s, k)
    <3>1. Right(s, i)
      BY <1>4 DEF IInv, Phases, s
    <3>2. task.prd \in Nat /\ task.prd % 2 = 0
      BY <1>3, Sizes DEF Slot, IInv, Phases
    <3>3. (task.prd + k) % 2 = k % 2
      BY <1>3, <3>2
    <3> QED
      BY <1>4, <3>1, <3>3 DEF Right
  <2>2. ASSUME NEW j \in 1 .. k + 1 PROVE Right(task'.blk[j], j - 1)
    <3>1. CASE j = k + 1
      <4>1. task'.blk[j] = s /\ j - 1 = k
        BY <1>3, <1>5, <1>6, <3>1
      <4> QED
        BY <2>1, <4>1
    <3>2. CASE j # k + 1
      <4>1. j \in 1 .. k
        BY <1>3, <3>2
      <4>2. task'.blk[j] = task.blk[j]
        BY <1>3, <1>5, <1>6, <4>1
      <4> QED
        BY <4>1, <4>2 DEF IInv, Phases
    <3> QED
      BY <3>1, <3>2
  <2> HIDE DEF k
  <2> QED
    BY <1>2, <1>6, <2>2 DEF IInv, Phases
<1>10. Filled' /\ Tally'
  <2>1. Filled'
    BY <1>1, <1>3, <1>6, Sizes DEF Filled
  <2>2. Tally'
    BY <1>1, <1>6 DEF IInv, Tally
  <2> QED
    BY <2>1, <2>2
<1>11. Fresh'
  <2>1. ASSUME ~restarted PROVE s.meas = meas
    <3>1. i < Stored
      <4>1. Stored \in Nat /\ task.prd \in Nat
        BY <1>3 DEF Stored, IInv, TypeOK, Slot
      <4>2. Stored < Slots => task.prd + BlkCnt <= Stored
        BY <1>1, <2>1 DEF IInv, Fresh
      <4>3. i \in Nat /\ i < Slots
        BY <1>4, Sizes DEF Slot
      <4>4. /\ i = IF task.prd + k < Slots THEN task.prd + k ELSE task.prd + k - Slots
            /\ k \in Nat /\ k < BlkCnt /\ BlkCnt \in Nat /\ Slots \in Nat
        BY <1>3, <1>4, Sizes
      <4> HIDE DEF k
      <4>5. CASE Stored < Slots
        BY <4>1, <4>2, <4>4, <4>5
      <4>6. CASE ~(Stored < Slots)
        BY <4>1, <4>3, <4>4, <4>6
      <4> QED
        BY <4>5, <4>6
    <3> QED
      BY <1>4, <3>1 DEF IInv, Fresh, s
  <2> QED
    BY <1>1, <1>2, <1>6, <1>8, <2>1 DEF IInv, Fresh
<1> QED
  BY <1>7, <1>8, <1>9, <1>10, <1>11 DEF IInv

LEMMA IndexStep == ASSUME IInv, TaskIndex PROVE IInv'
<1>1. /\ pc = "index" /\ data_buffer_rd_ptr' = NewRd(task.prd)
      /\ last' = IF task.blk[BlkCnt].meas = meas THEN task.blk[BlkCnt].n ELSE last
      /\ blocks' = blocks + 1 /\ pc' = "write"
      /\ UNCHANGED <<device, data_buffer, data_buffer_wr_ptr, task, count, lapped, torn,
                     restarted, stale, used>>
  BY DEF TaskIndex
<1>2. UNCHANGED <<cfg_ina, cfg_adc, timer1, dtr_enable, rx, meas, asked>>
  BY <1>1 DEF device
<1>3. /\ task.prd \in Slot /\ task.blk \in Seq(Word) /\ Len(task.blk) = BlkCnt
      /\ last \in Nat /\ blocks \in Nat
  BY <1>1 DEF IInv, TypeOK, Filled
<1>4. /\ data_buffer_rd_ptr' \in Slot
      /\ data_buffer_rd_ptr' % 2 = (task.prd + BlkCnt) % 2
      /\ task.prd + BlkCnt < Slots => data_buffer_rd_ptr' = task.prd + BlkCnt
  <2>1. BlkCnt \in 0 .. Slots
    BY Sizes
  <2> QED
    BY <1>1, <1>3, <2>1, Round DEF NewRd
<1>5. TypeOK'
  <2>1. task.blk[BlkCnt] \in Word
    <3>1. BlkCnt \in 1 .. Len(task.blk)
      BY <1>3, Sizes
    <3> QED
      BY <1>3, <3>1
  <2>2. last' \in Nat /\ blocks' \in Nat
    BY <1>1, <1>3, <2>1 DEF Word
  <2> QED
    BY <1>1, <1>2, <1>4, <2>2 DEF IInv, TypeOK, Where
<1>6. SamplingNeedsSensor' /\ Question' /\ Stored' = Stored
  BY <1>1, DeviceKept
<1>7. Phases'
  <2>1. task.prd \in Nat /\ task.prd % 2 = 0
    BY <1>3, Sizes DEF Slot, IInv, Phases
  <2>2. (task.prd + BlkCnt) % 2 = 0
    BY <2>1, Sizes
  <2> QED
    BY <1>1, <1>4, <2>2 DEF IInv, Phases
<1>8. Filled' /\ Tally'
  BY <1>1, <1>3 DEF IInv, TypeOK, Filled, Tally
<1>9. Fresh'
  <2>1. Stored \in Nat /\ task.prd \in Nat
    BY <1>3 DEF Stored, IInv, TypeOK, Slot
  <2> QED
    BY <1>1, <1>2, <1>4, <1>6, <2>1, Sizes DEF IInv, Fresh
<1> QED
  BY <1>5, <1>6, <1>7, <1>8, <1>9 DEF IInv

LEMMA WriteStep == ASSUME IInv, TaskWrite PROVE IInv'
<1>1. PICK ok \in BOOLEAN :
        /\ pc = "write" /\ pc' = "count"
        /\ task' = [task EXCEPT !.ok = ok, !.cnt = IF ok THEN count.read ELSE count.overflow]
        /\ UNCHANGED <<device, buffer, count, history, used>>
  BY DEF TaskWrite
<1>2. UNCHANGED <<cfg_ina, cfg_adc, timer1, dtr_enable, rx, meas, asked,
                  data_buffer, data_buffer_wr_ptr, data_buffer_rd_ptr,
                  count, last, lapped, torn, restarted, stale, blocks, used>>
  BY <1>1 DEF device, buffer, history
<1>3. /\ task \in [prd : Slot, blk : Seq(Word), cnt : Nat, ok : BOOLEAN]
      /\ count \in [read : Nat, overflow : Nat]
  BY DEF IInv, TypeOK
<1>4. /\ task' \in [prd : Slot, blk : Seq(Word), cnt : Nat, ok : BOOLEAN]
      /\ task'.prd = task.prd /\ task'.blk = task.blk /\ task'.ok = ok
      /\ task'.cnt = IF ok THEN count.read ELSE count.overflow
  BY <1>1, <1>3
<1>5. TypeOK'
  BY <1>1, <1>2, <1>4 DEF IInv, TypeOK, Where
<1>6. SamplingNeedsSensor' /\ Question' /\ Stored' = Stored
  BY <1>1, <1>2, DeviceKept
<1>7. Phases' /\ Filled'
  BY <1>1, <1>2, <1>4 DEF IInv, Phases, Filled
<1>8. Tally'
  BY <1>1, <1>2, <1>4 DEF IInv, Tally
<1>9. Fresh'
  BY <1>1, <1>2, <1>4, <1>6 DEF IInv, Fresh
<1> QED
  BY <1>5, <1>6, <1>7, <1>8, <1>9 DEF IInv

LEMMA CountStep == ASSUME IInv, TaskCount PROVE IInv'
<1>1. /\ pc = "count" /\ pc' = "task" /\ count' = Counted
      /\ UNCHANGED <<device, buffer, task, history, used>>
  BY DEF TaskCount
<1>2. UNCHANGED <<cfg_ina, cfg_adc, timer1, dtr_enable, rx, meas, asked,
                  data_buffer, data_buffer_wr_ptr, data_buffer_rd_ptr,
                  last, lapped, torn, restarted, stale, blocks, used>>
  BY <1>1 DEF device, buffer, history
<1>3. count \in [read : Nat, overflow : Nat] /\ task.cnt \in Nat /\ blocks \in Nat
  BY DEF IInv, TypeOK
<1>4. /\ count' \in [read : Nat, overflow : Nat]
      /\ task.ok => count'.read = task.cnt + 1 /\ count'.overflow = count.overflow
      /\ ~task.ok => count'.read = count.read /\ count'.overflow = task.cnt + 1
  BY <1>1, <1>3 DEF Counted
<1>5. TypeOK'
  BY <1>1, <1>2, <1>4 DEF IInv, TypeOK, Where
<1>6. SamplingNeedsSensor' /\ Question' /\ Stored' = Stored
  BY <1>1, <1>2, DeviceKept
<1>7. Phases' /\ Filled'
  BY <1>1, <1>2 DEF IInv, Phases, Filled
<1>8. Tally'
  BY <1>1, <1>2, <1>3, <1>4 DEF IInv, Tally
<1>9. Fresh'
  BY <1>1, <1>2, <1>6 DEF IInv, Fresh
<1> QED
  BY <1>5, <1>6, <1>7, <1>8, <1>9 DEF IInv

LEMMA StepIInv == IInv /\ [Next]_vars => IInv'
<1> SUFFICES ASSUME IInv, [Next]_vars PROVE IInv'
  OBVIOUS
<1>1. CASE UNCHANGED vars
  <2>1. UNCHANGED <<cfg_ina, cfg_adc, timer1, dtr_enable, rx, meas, asked,
                    data_buffer, data_buffer_wr_ptr, data_buffer_rd_ptr, pc, task,
                    count, last, lapped, torn, restarted, stale, blocks, used>>
    BY <1>1 DEF vars, device, buffer, history
  <2>2. TypeOK' /\ SamplingNeedsSensor' /\ Question'
    BY <2>1 DEF IInv, TypeOK, SamplingNeedsSensor, Question
  <2>3. Phases' /\ Filled' /\ Tally' /\ Fresh'
    BY <2>1 DEF IInv, Phases, Filled, Tally, Fresh, Stored
  <2> QED
    BY <2>2, <2>3 DEF IInv
<1>2. CASE task_data_out
  BY <1>2, ReadStep, PickStep, CopyStep, IndexStep, WriteStep, CountStep DEF task_data_out
<1> QED
  BY <1>1, <1>2, IsrStep, CommandEffect, CommandStep DEF Next

LEMMA IInvHolds == Spec => []IInv
BY InitIInv, StepIInv, PTL DEF Spec

-----------------------------------------------------------------------------
\* The types hold for every size of the buffer and of the block.
THEOREM TypesHold == Spec => []TypeOK
<1>1. IInv => TypeOK
  BY DEF IInv
<1> QED
  BY <1>1, IInvHolds, PTL

\* The timer never runs with the sensor asleep, unbuffered, or answered for
\* as stopped, whatever sequence of power, line states and commands is sent.
THEOREM SensorNeeded == Spec => []SamplingNeedsSensor
<1>1. IInv => SamplingNeedsSensor
  BY DEF IInv
<1> QED
  BY <1>1, IInvHolds, PTL

\* The bus voltage comes first in every block of both channels: the parity of
\* a place survives going round, lapping and restarting.
THEOREM ChannelsInPlace == Spec => []ChannelPhase
<1>1. IInv => ChannelPhase
  <2> SUFFICES ASSUME IInv, pc = "index", NEW k \in 1 .. BlkCnt, task.blk[k].both
               PROVE  task.blk[k].ch = "bus" <=> k % 2 = 1
    BY DEF ChannelPhase
  <2>1. Len(task.blk) = BlkCnt
    BY DEF IInv, Filled
  <2>2. Right(task.blk[k], k - 1)
    BY <2>1 DEF IInv, Phases
  <2>3. (k - 1) % 2 = 0 <=> k % 2 = 1
    BY Sizes
  <2> QED
    BY <2>2, <2>3 DEF Right
<1> QED
  BY <1>1, IInvHolds, PTL

\* A block holds no sample of an earlier measurement unless ina229_start ran
\* in the middle of task_data_out.
THEOREM BlocksFresh == Spec => []FreshBlock
<1>1. IInv => FreshBlock
  BY DEF IInv, Fresh, FreshBlock
<1> QED
  BY <1>1, IInvHolds, PTL

\* Between blocks, the two counters of CMD_DEV_STA add up to the blocks of the
\* measurement.
THEOREM CountsAddUp == Spec => []StatusCounts
<1>1. IInv => StatusCounts
  BY DEF IInv, Tally, StatusCounts
<1> QED
  BY <1>1, IInvHolds, PTL
-----------------------------------------------------------------------------
(***************************************************************************)
(* Which sample a word is: the places of data_buffer are numbered by how   *)
(* long ago they were written, and the indices by how far they are behind. *)
(***************************************************************************)
\* Words from place a to the one the timer writes next.
Ahead(a) ==
  IF a <= data_buffer_wr_ptr THEN data_buffer_wr_ptr - a ELSE data_buffer_wr_ptr + Slots - a

\* How many words ago place s was written.
Age(s) == IF s = data_buffer_wr_ptr THEN Slots ELSE Ahead(s)

\* A place that was written in this measurement holds the sample of that tick.
Numbered ==
  \A s \in Slot : Age(s) <= Stored =>
    data_buffer[s].meas = meas /\ data_buffer[s].n = Stored + 1 - Age(s)

\* As long as the buffer was never full, the read index stands behind the last
\* sample handed over.
ReaderAt == ~lapped /\ ~restarted => last + Ahead(data_buffer_rd_ptr) = Stored

\* The block in hand is the run of samples behind f, which is the last one handed
\* over if nothing was lost; those that are still to be copied are not overwritten.
RunFrom(f) ==
  /\ pc = "copy" => f + Ahead(task.prd) = Stored
  /\ ~lapped => f = last
  /\ \A k \in 1 .. Len(task.blk) : task.blk[k].n = f + k /\ task.blk[k].meas = meas

BlockRun ==
  /\ torn => lapped
  /\ ~restarted /\ pc \in {"pick", "copy", "index"} =>
       /\ task.prd = data_buffer_rd_ptr
       /\ (pc = "copy" /\ ~torn) \/ (pc = "index" /\ ~lapped) => Ahead(task.prd) >= BlkCnt
       /\ pc \in {"copy", "index"} /\ ~torn => \E f \in Nat : RunFrom(f)

NumberInv == Numbered /\ ReaderAt /\ BlockRun

\* What the places from x to the end of the buffer may still hold of earlier
\* measurements.
Rest(x) == IF x < Slots THEN Slots - x ELSE 0

StaleMax == Slots + BlkCnt

\* Before the buffer came round: the index is below the words of this measurement,
\* or what it has in front of it can be handed over without going beyond the bound.
ReaderSafe(rd) == rd <= Stored \/ stale + Rest(rd) < StaleMax

\* The block in hand is one taken up before the measurement began, or all of this
\* measurement, or counts place by place.
CopySafe ==
  \/ stale <= Len(task.blk)
  \/ task.prd + BlkCnt <= Stored
  \/ /\ task.prd + BlkCnt <= Stored + Slots
     /\ stale + Rest(task.prd + Len(task.blk)) < StaleMax

StaleInv ==
  /\ stale < StaleMax
  /\ Stored < Slots =>
       /\ pc \in {"task", "write", "count"} => ReaderSafe(data_buffer_rd_ptr)
       /\ pc = "pick" => \/ stale = 0
                         \/ task.prd = data_buffer_rd_ptr /\ ReaderSafe(task.prd)
       /\ pc \in {"copy", "index"} => CopySafe

\* Ahead is what task_data_out computes from two indices.
LEMMA AheadIs ==
  ASSUME IInv, NEW a \in Slot
  PROVE  /\ Ahead(a) \in 0 .. Slots - 1
         /\ BlockPending(a, data_buffer_wr_ptr) <=> Ahead(a) >= BlkCnt
<1>1. /\ a \in Nat /\ a < Slots /\ data_buffer_wr_ptr \in Nat /\ data_buffer_wr_ptr < Slots
      /\ Slots \in Nat
  BY Sizes DEF IInv, TypeOK, Slot
<1> DEFINE d == Ahead(a)
<1>2. d \in 0 .. Slots - 1
  BY <1>1 DEF Ahead
<1>3. data_buffer_wr_ptr + Slots - a = d \/ data_buffer_wr_ptr + Slots - a = d + Slots
  BY <1>1 DEF Ahead
<1> HIDE DEF d
<1>4. d % Slots = d /\ (d + Slots) % Slots = d
  BY <1>1, <1>2
<1>5. (data_buffer_wr_ptr + Slots - a) % Slots = d
  BY <1>3, <1>4
<1> QED
  BY <1>2, <1>5 DEF BlockPending, d

LEMMA NewRdIs ==
  \A a \in Slot : NewRd(a) = IF a + BlkCnt < Slots THEN a + BlkCnt ELSE a + BlkCnt - Slots
<1>1. BlkCnt \in 0 .. Slots
  BY Sizes
<1> QED
  BY <1>1, Round DEF NewRd

LEMMA Counters ==
  ASSUME IInv
  PROVE  /\ Stored \in Nat /\ last \in Nat /\ stale \in Nat
         /\ data_buffer_wr_ptr \in Slot /\ data_buffer_rd_ptr \in Slot /\ task.prd \in Slot
         /\ Slot \subseteq Nat /\ \A s \in Slot : s < Slots
         /\ task.blk \in Seq(Word) /\ Len(task.blk) \in Nat /\ Len(task.blk) <= BlkCnt
         /\ pc = "copy" => Len(task.blk) < BlkCnt
         /\ pc = "index" => Len(task.blk) = BlkCnt
         /\ pc = "pick" => Len(task.blk) = 0
BY Sizes DEF IInv, TypeOK, Slot, Stored, Filled

\* What timer1_isr does to the buffer while it runs.
LEMMA IsrStores ==
  ASSUME IInv, timer1_isr
  PROVE  /\ Stored' = Stored + 1 /\ meas' = meas
         /\ data_buffer_wr_ptr' =
              IF data_buffer_wr_ptr + 1 < Slots THEN data_buffer_wr_ptr + 1 ELSE 0
         /\ \A s \in Slot : s # data_buffer_wr_ptr => data_buffer'[s] = data_buffer[s]
         /\ data_buffer'[data_buffer_wr_ptr].n = Stored + 1
         /\ data_buffer'[data_buffer_wr_ptr].meas = meas
         /\ lapped' <=> lapped \/ data_buffer_wr_ptr' = data_buffer_rd_ptr
         /\ torn' <=> torn \/ (data_buffer_wr_ptr' = data_buffer_rd_ptr
                                  /\ pc \in {"pick", "copy"})
         /\ restarted' <=> restarted
         /\ UNCHANGED <<data_buffer_rd_ptr, pc, task, last, stale>>
<1>1. /\ timer1 = "running" /\ cfg_ina.buf_enable /\ asked > 0
      /\ data_buffer_wr_ptr \in Slot /\ asked \in Nat /\ data_buffer \in [Slot -> Word]
  BY DEF timer1_isr, IInv, SamplingNeedsSensor, TypeOK, Question
<1>2. PICK ch \in {"bus", "shunt"} : rx = <<Asked(cfg_ina.chnls, ch, meas, asked)>>
  BY <1>1 DEF IInv, Question
<1>3. Received.n = asked /\ Received.meas = meas
  BY <1>2 DEF Received, Asked
<1>4. NextPlace(data_buffer_wr_ptr) =
        IF data_buffer_wr_ptr + 1 < Slots THEN data_buffer_wr_ptr + 1 ELSE 0
  <2>1. 1 \in 0 .. Slots /\ data_buffer_wr_ptr \in Nat /\ data_buffer_wr_ptr <= Slots - 1
    BY <1>1, Sizes DEF Slot
  <2> QED
    BY <1>1, <2>1, Round, Sizes DEF NextPlace
<1>5. Stored = asked - 1 /\ asked' = asked + 1 /\ Stored' = Stored + 1
  BY <1>1 DEF timer1_isr, Stored
<1>6. /\ data_buffer' = [data_buffer EXCEPT ![data_buffer_wr_ptr] = Received]
      /\ data_buffer_wr_ptr' = NextPlace(data_buffer_wr_ptr)
      /\ UNCHANGED <<meas, data_buffer_rd_ptr, pc, task, last, restarted, stale>>
  BY <1>1 DEF timer1_isr
<1>7. /\ lapped' <=> lapped \/ data_buffer_wr_ptr' = data_buffer_rd_ptr
      /\ torn' <=> torn \/ (data_buffer_wr_ptr' = data_buffer_rd_ptr
                               /\ pc \in {"pick", "copy"})
  <2>1. /\ lapped' = (lapped \/ NextPlace(data_buffer_wr_ptr) = data_buffer_rd_ptr)
        /\ torn' = (torn \/ (NextPlace(data_buffer_wr_ptr) = data_buffer_rd_ptr
                                /\ pc \in {"pick", "copy"}))
        /\ data_buffer_wr_ptr' = NextPlace(data_buffer_wr_ptr)
    BY <1>1, Zenon DEF timer1_isr
  <2>2. lapped \in BOOLEAN /\ torn \in BOOLEAN
    BY DEF IInv, TypeOK
  <2> QED
    BY <2>1, <2>2, Zenon
<1> QED
  BY <1>1, <1>3, <1>4, <1>5, <1>6, <1>7

\* Every other place is one word further behind, and the reader as well unless the
\* timer reaches it.
LEMMA IsrAhead ==
  ASSUME IInv, timer1_isr, NEW a \in Slot
  PROVE  /\ data_buffer_wr_ptr' # a => Ahead(a)' = Ahead(a) + 1
         /\ a # data_buffer_wr_ptr => Age(a)' = Age(a) + 1
         /\ a = data_buffer_wr_ptr => Age(a)' = 1
<1>1. /\ a \in Nat /\ a < Slots /\ data_buffer_wr_ptr \in Nat /\ data_buffer_wr_ptr < Slots
      /\ Slots \in Nat /\ Slots > 1
  BY Sizes DEF IInv, TypeOK, Slot
<1>2. data_buffer_wr_ptr' = IF data_buffer_wr_ptr + 1 < Slots THEN data_buffer_wr_ptr + 1 ELSE 0
  BY IsrStores
<1>3. data_buffer_wr_ptr' # a => Ahead(a)' = Ahead(a) + 1
  BY <1>1, <1>2 DEF Ahead
<1>4. a # data_buffer_wr_ptr => Age(a)' = Age(a) + 1
  BY <1>1, <1>2 DEF Age, Ahead
<1>5. a = data_buffer_wr_ptr => Age(a)' = 1
  BY <1>1, <1>2 DEF Age, Ahead
<1> QED
  BY <1>3, <1>4, <1>5

LEMMA NumberIsr == ASSUME IInv, NumberInv, timer1_isr PROVE NumberInv'
<1>1. Numbered'
  <2> SUFFICES ASSUME NEW s \in Slot, Age(s)' <= Stored'
               PROVE  /\ data_buffer'[s].meas = meas'
                      /\ data_buffer'[s].n = Stored' + 1 - Age(s)'
    BY DEF Numbered
  <2>1. CASE s = data_buffer_wr_ptr
    <3>1. Age(s)' = 1 /\ Stored' = Stored + 1 /\ Stored \in Nat
      BY <2>1, IsrAhead, IsrStores, Counters
    <3>2. Stored' + 1 - Age(s)' = Stored + 1
      BY <3>1
    <3> QED
      BY <2>1, <3>2, IsrStores
  <2>2. CASE s # data_buffer_wr_ptr
    <3>1. Age(s)' = Age(s) + 1 /\ Stored' = Stored + 1 /\ Stored \in Nat /\ Age(s) \in Nat
      <4>1. Ahead(s) \in Nat
        BY AheadIs
      <4>2. Age(s) = Ahead(s)
        BY <2>2 DEF Age
      <4> QED
        BY <2>2, <4>1, <4>2, IsrAhead, IsrStores, Counters
    <3>2. Age(s) <= Stored /\ Stored' + 1 - Age(s)' = Stored + 1 - Age(s)
      BY <3>1
    <3>3. data_buffer'[s] = data_buffer[s] /\ meas' = meas
      BY <2>2, IsrStores
    <3> QED
      BY <3>2, <3>3 DEF NumberInv, Numbered
  <2> QED
    BY <2>1, <2>2
<1>2. ReaderAt'
  <2> SUFFICES ASSUME ~lapped', ~restarted'
               PROVE  last' + Ahead(data_buffer_rd_ptr)' = Stored'
    BY DEF ReaderAt
  <2>1. /\ ~lapped /\ ~restarted /\ data_buffer_wr_ptr' # data_buffer_rd_ptr
        /\ last' = last /\ Stored' = Stored + 1 /\ data_buffer_rd_ptr' = data_buffer_rd_ptr
    BY IsrStores
  <2>2. last + Ahead(data_buffer_rd_ptr) = Stored
    BY <2>1 DEF NumberInv, ReaderAt
  <2>3. Ahead(data_buffer_rd_ptr)' = Ahead(data_buffer_rd_ptr) + 1
    <3>1. \A a \in Slot : data_buffer_wr_ptr' # a => Ahead(a)' = Ahead(a) + 1
      BY IsrAhead
    <3>2. Ahead(data_buffer_rd_ptr)' =
            IF data_buffer_rd_ptr <= data_buffer_wr_ptr'
            THEN data_buffer_wr_ptr' - data_buffer_rd_ptr
            ELSE data_buffer_wr_ptr' + Slots - data_buffer_rd_ptr
      BY <2>1 DEF Ahead
    <3>3. data_buffer_rd_ptr \in Slot
      BY Counters
    <3> QED
      BY <2>1, <3>1, <3>2, <3>3 DEF Ahead
  <2>4. Ahead(data_buffer_rd_ptr) \in Nat /\ last \in Nat
    BY AheadIs, Counters
  <2> QED
    BY <2>1, <2>2, <2>3, <2>4
<1>3. BlockRun'
  <2>1. torn' => lapped'
    BY IsrStores DEF NumberInv, BlockRun
  <2>2. ASSUME ~restarted', pc' \in {"pick", "copy", "index"}
        PROVE  /\ task'.prd = data_buffer_rd_ptr'
               /\ (pc' = "copy" /\ ~torn') \/ (pc' = "index" /\ ~lapped')
                    => Ahead(task.prd)' >= BlkCnt
               /\ pc' \in {"copy", "index"} /\ ~torn' => \E f \in Nat : RunFrom(f)'
    <3>1. /\ ~restarted /\ pc' = pc /\ task' = task /\ data_buffer_rd_ptr' = data_buffer_rd_ptr
          /\ task.prd = data_buffer_rd_ptr /\ meas' = meas /\ last' = last
          /\ Stored' = Stored + 1
      BY <2>2, IsrStores DEF NumberInv, BlockRun
    <3>2. ASSUME (pc = "copy" /\ ~torn') \/ (pc = "index" /\ ~lapped')
          PROVE  /\ (pc = "copy" /\ ~torn) \/ (pc = "index" /\ ~lapped)
                 /\ Ahead(task.prd)' = Ahead(task.prd) + 1
                 /\ Ahead(task.prd) >= BlkCnt
      <4>1. /\ (pc = "copy" /\ ~torn) \/ (pc = "index" /\ ~lapped)
            /\ data_buffer_wr_ptr' # task.prd
        BY <3>1, <3>2, IsrStores
      <4>2. Ahead(task.prd)' = Ahead(task.prd) + 1
        <5>1. \A a \in Slot : data_buffer_wr_ptr' # a => Ahead(a)' = Ahead(a) + 1
          BY IsrAhead
        <5>2. task.prd \in Slot
          BY Counters
        <5> QED
          BY <3>1, <4>1, <5>1, <5>2 DEF Ahead
      <4> QED
        BY <2>2, <3>1, <4>1, <4>2 DEF NumberInv, BlockRun
    <3>3. Ahead(task.prd) \in Nat /\ BlkCnt \in Nat /\ Stored \in Nat
      BY AheadIs, Counters, Sizes
    <3>4. ASSUME pc \in {"copy", "index"}, ~torn'
          PROVE  \E f \in Nat : RunFrom(f)'
      <4>1. ~torn
        BY <3>4, IsrStores
      <4>2. PICK f \in Nat : RunFrom(f)
        BY <2>2, <3>1, <3>4, <4>1 DEF NumberInv, BlockRun
      <4>3. pc = "copy" => f + Ahead(task.prd)' = Stored'
        <5>1. pc = "copy" => Ahead(task.prd)' = Ahead(task.prd) + 1
          BY <3>2, <3>4
        <5> QED
          BY <3>1, <3>3, <4>2, <5>1 DEF RunFrom
      <4>4. ~lapped' => f = last'
        BY <3>1, <4>2, IsrStores DEF RunFrom
      <4>5. RunFrom(f)'
        BY <3>1, <4>2, <4>3, <4>4 DEF RunFrom
      <4> QED
        BY <4>5
    <3> QED
      BY <3>1, <3>2, <3>3, <3>4
  <2> QED
    BY <2>1, <2>2 DEF BlockRun
<1> QED
  BY <1>1, <1>2, <1>3 DEF NumberInv

\* A command begins a measurement, or leaves the buffer alone.
LEMMA NumberCommand == ASSUME IInv, NumberInv, Effect PROVE NumberInv'
<1>1. UNCHANGED <<pc, task, data_buffer>>
  BY DEF Effect
<1>2. CASE Begins
  <2>1. /\ data_buffer_wr_ptr' = 0 /\ data_buffer_rd_ptr' = 0 /\ asked' = 1 /\ last' = 0
        /\ lapped' = FALSE /\ torn' = FALSE /\ (~restarted' => pc = "task")
    BY <1>2 DEF Begins, ResetPointers, NewMeasurement
  <2>2. Stored' = 0
    BY <2>1 DEF Stored
  <2>3. \A s \in Slot : Age(s)' \in Nat /\ Age(s)' > 0
    BY <2>1, Sizes DEF Age, Ahead, Slot
  <2>4. Numbered'
    BY <2>2, <2>3 DEF Numbered
  <2>5. ReaderAt'
    BY <2>1, <2>2 DEF ReaderAt, Ahead
  <2>6. BlockRun'
    BY <1>1, <2>1 DEF BlockRun
  <2> QED
    BY <2>4, <2>5, <2>6 DEF NumberInv
<1>3. CASE Keeps
  BY <1>1, <1>3 DEF Keeps, history, NumberInv, Numbered, ReaderAt, BlockRun, RunFrom,
     Age, Ahead, Stored
<1> QED
  BY <1>2, <1>3 DEF Effect

LEMMA NumberRead == ASSUME IInv, NumberInv, TaskRead PROVE NumberInv'
<1>1. /\ pc' = "pick" /\ torn' = FALSE
      /\ UNCHANGED <<meas, asked, data_buffer, data_buffer_wr_ptr, data_buffer_rd_ptr,
                     last, lapped, restarted>>
      /\ task'.prd = data_buffer_rd_ptr
  BY DEF TaskRead, device, buffer, IInv, TypeOK
<1>2. Numbered' /\ ReaderAt'
  BY <1>1 DEF NumberInv, Numbered, ReaderAt, Age, Ahead, Stored
<1>3. BlockRun'
  BY <1>1 DEF BlockRun
<1> QED
  BY <1>2, <1>3 DEF NumberInv

LEMMA NumberPick == ASSUME IInv, NumberInv, TaskPick PROVE NumberInv'
<1>1. /\ pc = "pick" /\ pc' = IF BlockPending(task.prd, data_buffer_wr_ptr) THEN "copy" ELSE "task"
      /\ UNCHANGED <<meas, asked, data_buffer, data_buffer_wr_ptr, data_buffer_rd_ptr, task,
                     last, lapped, torn, restarted>>
  BY DEF TaskPick, device, buffer, history
<1>2. Numbered' /\ ReaderAt' /\ Stored' = Stored /\ Ahead(task.prd)' = Ahead(task.prd)
  BY <1>1 DEF NumberInv, Numbered, ReaderAt, Age, Ahead, Stored
<1>3. BlockRun'
  <2>1. torn' => lapped'
    BY <1>1 DEF NumberInv, BlockRun
  <2>2. ASSUME ~restarted', pc' = "copy"
        PROVE  /\ task'.prd = data_buffer_rd_ptr'
               /\ Ahead(task.prd)' >= BlkCnt
               /\ \E f \in Nat : RunFrom(f)'
    <3>1. task.prd = data_buffer_rd_ptr /\ ~restarted
      BY <1>1, <2>2 DEF NumberInv, BlockRun
    <3>2. task.prd \in Slot /\ Stored \in Nat /\ data_buffer_wr_ptr \in Slot /\ last \in Nat
          /\ Len(task.blk) = 0
      BY <1>1, Counters
    <3>3. Ahead(task.prd) \in 0 .. Slots - 1 /\ Ahead(task.prd) >= BlkCnt
      BY <1>1, <2>2, <3>2, AheadIs
    <3>4. Ahead(task.prd) <= Stored
      <4>1. CASE Stored < Slots
        <5>1. data_buffer_wr_ptr = Stored /\ data_buffer_rd_ptr <= Stored
          BY <3>1, <4>1 DEF IInv, Fresh
        <5> QED
          BY <3>1, <3>2, <5>1, Sizes DEF Ahead, Slot
      <4>2. CASE ~(Stored < Slots)
        BY <3>2, <3>3, <4>2, Sizes
      <4> QED
        BY <4>1, <4>2
    <3>5. PICK f \in Nat : f + Ahead(task.prd) = Stored
      <4>1. Stored - Ahead(task.prd) \in Nat
        BY <3>2, <3>3, <3>4
      <4>2. (Stored - Ahead(task.prd)) + Ahead(task.prd) = Stored
        BY <3>2, <3>3, <4>1
      <4> QED
        BY <4>1, <4>2
    <3>6. ~lapped => f = last
      <4>1. ~lapped => last + Ahead(task.prd) = Stored
        BY <3>1 DEF NumberInv, ReaderAt
      <4> QED
        BY <3>2, <3>3, <3>5, <4>1
    <3>7. RunFrom(f)'
      BY <1>1, <1>2, <3>2, <3>5, <3>6 DEF RunFrom
    <3> QED
      BY <1>1, <1>2, <3>1, <3>3, <3>5, <3>7
  <2> QED
    BY <1>1, <2>1, <2>2 DEF BlockRun
<1> QED
  BY <1>2, <1>3 DEF NumberInv

LEMMA NumberCopy == ASSUME IInv, NumberInv, TaskCopy PROVE NumberInv'
<1> DEFINE k == Len(task.blk)
           i == PlaceOf(task.prd, k)
<1>1. /\ pc = "copy" /\ task' = [task EXCEPT !.blk = Append(@, data_buffer[i])]
      /\ pc' = IF k + 1 = BlkCnt THEN "index" ELSE "copy"
      /\ UNCHANGED <<meas, asked, data_buffer, data_buffer_wr_ptr, data_buffer_rd_ptr,
                     last, lapped, torn, restarted>>
  BY DEF TaskCopy, device, buffer
<1>2. /\ task \in [prd : Slot, blk : Seq(Word), cnt : Nat, ok : BOOLEAN]
      /\ k \in Nat /\ k < BlkCnt /\ data_buffer \in [Slot -> Word]
      /\ data_buffer_wr_ptr \in Slot /\ Stored \in Nat
  BY <1>1, Counters DEF IInv, TypeOK
<1>3. i \in Slot /\ i = IF task.prd + k < Slots THEN task.prd + k ELSE task.prd + k - Slots
  <2>1. task.prd \in Slot /\ k \in 0 .. Slots
    BY <1>2, Sizes
  <2> HIDE DEF k
  <2> QED
    BY <2>1, Round DEF PlaceOf
<1> DEFINE w == data_buffer[i]
<1>4. /\ task'.prd = task.prd /\ Len(task'.blk) = k + 1
      /\ task'.blk[k + 1] = w /\ \A j \in 1 .. k : task'.blk[j] = task.blk[j]
  <2>1. task.blk \in Seq(Word) /\ w \in Word /\ task'.blk = Append(task.blk, w)
    BY <1>1, <1>2, <1>3
  <2> HIDE DEF i, w
  <2> QED
    BY <1>1, <1>2, <2>1
<1>5. Numbered' /\ ReaderAt' /\ Stored' = Stored /\ Ahead(task.prd)' = Ahead(task.prd)
  BY <1>1, <1>4 DEF NumberInv, Numbered, ReaderAt, Age, Ahead, Stored
<1> HIDE DEF k, i, w
<1>6. BlockRun'
  <2>1. ASSUME ~restarted, ~torn
        PROVE  /\ task.prd = data_buffer_rd_ptr /\ Ahead(task.prd) >= BlkCnt
               /\ \E f \in Nat : RunFrom(f)'
    <3>1. task.prd = data_buffer_rd_ptr /\ Ahead(task.prd) >= BlkCnt
      BY <1>1, <2>1 DEF NumberInv, BlockRun
    <3>2. PICK f \in Nat : RunFrom(f)
      BY <1>1, <2>1 DEF NumberInv, BlockRun
    <3>3. Age(i) = Ahead(task.prd) - k /\ Ahead(task.prd) \in Nat
      <4>1. /\ task.prd \in Nat /\ task.prd < Slots /\ data_buffer_wr_ptr \in Nat
            /\ data_buffer_wr_ptr < Slots /\ i \in Nat /\ i < Slots
        BY <1>2, <1>3, Sizes DEF Slot
      <4>2. /\ Ahead(task.prd) = IF task.prd <= data_buffer_wr_ptr
                                 THEN data_buffer_wr_ptr - task.prd
                                 ELSE data_buffer_wr_ptr + Slots - task.prd
            /\ Age(i) = IF i = data_buffer_wr_ptr THEN Slots
                        ELSE IF i <= data_buffer_wr_ptr THEN data_buffer_wr_ptr - i
                        ELSE data_buffer_wr_ptr + Slots - i
        BY DEF Ahead, Age
      <4>3. /\ k \in Nat /\ k < BlkCnt /\ BlkCnt \in Nat /\ Slots \in Nat
            /\ Ahead(task.prd) >= BlkCnt
            /\ i = IF task.prd + k < Slots THEN task.prd + k ELSE task.prd + k - Slots
        BY <1>2, <1>3, <3>1, Sizes
      <4>4. CASE task.prd <= data_buffer_wr_ptr
        BY <4>1, <4>2, <4>3, <4>4
      <4>5. CASE ~(task.prd <= data_buffer_wr_ptr)
        BY <4>1, <4>2, <4>3, <4>5
      <4> QED
        BY <4>4, <4>5
    <3>4. Age(i) <= Stored /\ Stored + 1 - Age(i) = f + k + 1
      BY <1>1, <1>2, <3>2, <3>3 DEF RunFrom
    <3>5. w.meas = meas /\ w.n = f + k + 1
      BY <1>3, <3>4 DEF NumberInv, Numbered, w
    <3>6. ASSUME NEW j \in 1 .. k + 1
          PROVE  task'.blk[j].n = f + j /\ task'.blk[j].meas = meas
      <4>1. CASE j = k + 1
        BY <1>2, <1>4, <3>5, <4>1
      <4>2. CASE j # k + 1
        <5>1. j \in 1 .. k
          BY <1>2, <4>2
        <5> QED
          BY <1>4, <3>2, <5>1 DEF RunFrom, k
      <4> QED
        BY <4>1, <4>2
    <3>7. RunFrom(f)'
      BY <1>1, <1>4, <1>5, <3>2, <3>6 DEF RunFrom
    <3> QED
      BY <3>1, <3>7
  <2>2. restarted' = restarted /\ torn' = torn /\ lapped' = lapped
        /\ data_buffer_rd_ptr' = data_buffer_rd_ptr
    BY <1>1
  <2>3. ~restarted => task.prd = data_buffer_rd_ptr
    BY <1>1 DEF NumberInv, BlockRun
  <2>4. torn => lapped
    BY DEF NumberInv, BlockRun
  <2> QED
    BY <1>4, <1>5, <2>1, <2>2, <2>3, <2>4 DEF BlockRun
<1> QED
  BY <1>5, <1>6 DEF NumberInv

LEMMA NumberIndex == ASSUME IInv, NumberInv, TaskIndex PROVE NumberInv'
<1>1. /\ pc = "index" /\ data_buffer_rd_ptr' = NewRd(task.prd)
      /\ last' = IF task.blk[BlkCnt].meas = meas THEN task.blk[BlkCnt].n ELSE last
      /\ pc' = "write"
      /\ UNCHANGED <<meas, asked, data_buffer, data_buffer_wr_ptr, lapped, torn, restarted>>
  BY DEF TaskIndex, device
<1>2. Numbered' /\ Stored' = Stored
  BY <1>1 DEF NumberInv, Numbered, Age, Ahead, Stored
<1>3. BlockRun'
  BY <1>1 DEF NumberInv, BlockRun
<1>4. ReaderAt'
  <2> SUFFICES ASSUME ~lapped, ~restarted
               PROVE  last' + Ahead(data_buffer_rd_ptr)' = Stored
    BY <1>1, <1>2 DEF ReaderAt
  <2>1. /\ task.prd = data_buffer_rd_ptr /\ ~torn /\ Ahead(task.prd) >= BlkCnt
    BY <1>1 DEF NumberInv, BlockRun
  <2>2. PICK f \in Nat : RunFrom(f)
    BY <1>1, <2>1 DEF NumberInv, BlockRun
  <2>3. last' = last + BlkCnt /\ last \in Nat
    <3>1. Len(task.blk) = BlkCnt /\ BlkCnt \in 1 .. BlkCnt /\ last \in Nat
      BY <1>1, Counters, Sizes
    <3> QED
      BY <1>1, <2>2, <3>1 DEF RunFrom
  <2>4. last + Ahead(task.prd) = Stored
    BY <2>1 DEF NumberInv, ReaderAt
  <2>5. data_buffer_rd_ptr' =
          IF task.prd + BlkCnt < Slots THEN task.prd + BlkCnt ELSE task.prd + BlkCnt - Slots
    BY <1>1, NewRdIs, Counters
  <2>6. Ahead(data_buffer_rd_ptr)' = Ahead(task.prd) - BlkCnt
    <3>1. /\ task.prd \in Nat /\ task.prd < Slots /\ data_buffer_wr_ptr \in Nat
          /\ data_buffer_wr_ptr < Slots
      BY Counters, Sizes
    <3>2. /\ Ahead(task.prd) = IF task.prd <= data_buffer_wr_ptr
                               THEN data_buffer_wr_ptr - task.prd
                               ELSE data_buffer_wr_ptr + Slots - task.prd
          /\ Ahead(data_buffer_rd_ptr)' =
               IF data_buffer_rd_ptr' <= data_buffer_wr_ptr
               THEN data_buffer_wr_ptr - data_buffer_rd_ptr'
               ELSE data_buffer_wr_ptr + Slots - data_buffer_rd_ptr'
      BY <1>1 DEF Ahead
    <3> QED
      BY <2>1, <2>5, <3>1, <3>2, Sizes
  <2>7. Ahead(task.prd) \in Nat
    <3>1. task.prd \in Slot
      BY Counters
    <3> QED
      BY <3>1, AheadIs
  <2> QED
    BY <2>3, <2>4, <2>6, <2>7, Sizes
<1> QED
  BY <1>2, <1>3, <1>4 DEF NumberInv

\* The ring buffer and the counters have no part in it.
LEMMA NumberRest ==
  ASSUME IInv, NumberInv, TaskWrite \/ TaskCount \/ UNCHANGED vars PROVE NumberInv'
<1>1. /\ UNCHANGED <<meas, asked, data_buffer, data_buffer_wr_ptr, data_buffer_rd_ptr,
                     last, lapped, torn, restarted>>
      /\ pc' \in {"count", "task"} \/ UNCHANGED <<pc, task>>
  BY DEF TaskWrite, TaskCount, vars, device, buffer, history
<1>2. Numbered' /\ ReaderAt'
  BY <1>1 DEF NumberInv, Numbered, ReaderAt, Age, Ahead, Stored
<1>3. BlockRun'
  BY <1>1 DEF NumberInv, BlockRun, RunFrom, Ahead, Stored
<1> QED
  BY <1>2, <1>3 DEF NumberInv

LEMMA NumberHolds == Spec => []NumberInv
<1>1. Init => NumberInv
  <2> SUFFICES ASSUME Init PROVE NumberInv
    OBVIOUS
  <2>1. /\ Stored = 0 /\ data_buffer_wr_ptr = 0 /\ data_buffer_rd_ptr = 0 /\ last = 0
        /\ pc = "task" /\ torn = FALSE
    BY DEF Init, Stored
  <2>2. \A s \in Slot : Age(s) > 0
    BY <2>1, Sizes DEF Age, Ahead, Slot
  <2>3. Numbered
    BY <2>1, <2>2, Sizes DEF Numbered, Age, Ahead, Slot
  <2> QED
    BY <2>1, <2>3 DEF NumberInv, ReaderAt, BlockRun, Ahead
<1>2. IInv /\ NumberInv /\ [Next]_vars => NumberInv'
  BY NumberIsr, CommandEffect, NumberCommand, NumberRead, NumberPick, NumberCopy,
     NumberIndex, NumberRest DEF Next, task_data_out
<1> QED
  BY <1>1, <1>2, IInvHolds, PTL DEF Spec


\* Unless the block in hand was overtaken, or the measurement began in the middle
\* of it, its samples are consecutive, and they follow the block before if nothing
\* was lost.
THEOREM BlocksGapless == Spec => []Gapless
<1>1. IInv /\ NumberInv => Gapless
  <2> SUFFICES ASSUME IInv, NumberInv, pc = "index", ~torn, ~restarted
               PROVE  /\ ~lapped => task.blk[1].n = last + 1
                      /\ \A k \in 1 .. BlkCnt - 1 : task.blk[k + 1].n = task.blk[k].n + 1
    BY DEF Gapless
  <2>1. PICK f \in Nat : RunFrom(f)
    BY DEF NumberInv, BlockRun
  <2>2. \A k \in 1 .. BlkCnt : task.blk[k].n = f + k
    BY <2>1 DEF RunFrom, IInv, Filled
  <2>3. ~lapped => f = last
    BY <2>1 DEF RunFrom
  <2>4. task.blk[1].n = f + 1
    BY <2>2, Sizes
  <2>5. ASSUME NEW k \in 1 .. BlkCnt - 1 PROVE task.blk[k + 1].n = task.blk[k].n + 1
    <3>1. k \in 1 .. BlkCnt /\ k + 1 \in 1 .. BlkCnt
      BY Sizes
    <3>2. task.blk[k].n = f + k /\ task.blk[k + 1].n = f + (k + 1)
      BY <2>2, <3>1
    <3> QED
      BY <3>1, <3>2
  <2> QED
    BY <2>3, <2>4, <2>5
<1> QED
  BY <1>1, IInvHolds, NumberHolds, PTL

-----------------------------------------------------------------------------
(***************************************************************************)
(* How many samples of earlier measurements a measurement can hand over.   *)
(***************************************************************************)
LEMMA RestIs ==
  /\ StaleMax \in Nat /\ StaleMax = Slots + BlkCnt
  /\ \A x \in Nat : /\ Rest(x) \in Nat /\ Rest(x) <= Slots /\ (x > 0 => Rest(x) < Slots)
                    /\ x < Slots => Rest(x) = Rest(x + 1) + 1
                    /\ ~(x < Slots) => Rest(x) = 0 /\ Rest(x + 1) = 0
<1>1. Slots \in Nat /\ BlkCnt \in Nat /\ 0 < Slots
  BY Sizes
<1> QED
  BY <1>1 DEF Rest, StaleMax

\* Only the number of words stored grows.
LEMMA StaleIsr == ASSUME IInv, StaleInv, timer1_isr PROVE StaleInv'
<1>1. /\ Stored' = Stored + 1 /\ Stored \in Nat
      /\ UNCHANGED <<data_buffer_rd_ptr, pc, task, stale>>
  BY IsrStores, Counters
<1>2. data_buffer_rd_ptr \in Nat /\ task.prd \in Nat /\ Slots \in Nat /\ BlkCnt \in Nat
  BY Counters, Sizes
<1>3. Stored' < Slots => Stored < Slots
  BY <1>1, <1>2
<1>4. ReaderSafe(data_buffer_rd_ptr) => ReaderSafe(data_buffer_rd_ptr)'
  BY <1>1, <1>2 DEF ReaderSafe, Rest, StaleMax
<1>5. ReaderSafe(task.prd) => ReaderSafe(task.prd)'
  BY <1>1, <1>2 DEF ReaderSafe, Rest, StaleMax
<1>6. CopySafe => CopySafe'
  BY <1>1, <1>2 DEF CopySafe, Rest, StaleMax
<1> QED
  BY <1>1, <1>3, <1>4, <1>5, <1>6 DEF StaleInv, StaleMax

\* A measurement that begins has handed over nothing.
LEMMA StaleCommand == ASSUME IInv, StaleInv, Effect PROVE StaleInv'
<1>1. UNCHANGED <<pc, task>>
  BY DEF Effect
<1>2. CASE Begins
  <2>1. stale' = 0 /\ data_buffer_rd_ptr' = 0 /\ Stored' = 0 /\ 0 < StaleMax
    BY <1>2, Sizes DEF Begins, ResetPointers, NewMeasurement, Stored, StaleMax
  <2>2. ReaderSafe(data_buffer_rd_ptr)'
    BY <2>1 DEF ReaderSafe
  <2>3. CopySafe'
    BY <1>1, <2>1, Counters DEF CopySafe
  <2> QED
    BY <1>1, <2>1, <2>2, <2>3 DEF StaleInv, StaleMax
<1>3. CASE Keeps
  BY <1>1, <1>3 DEF Keeps, history, StaleInv, ReaderSafe, CopySafe, Stored, Rest, StaleMax
<1> QED
  BY <1>2, <1>3 DEF Effect

LEMMA StaleRead == ASSUME IInv, StaleInv, TaskRead PROVE StaleInv'
<1>1. /\ pc = "task" /\ pc' = "pick" /\ task'.prd = data_buffer_rd_ptr
      /\ UNCHANGED <<asked, data_buffer_rd_ptr, stale>>
  BY DEF TaskRead, device, buffer, IInv, TypeOK
<1>2. Stored < Slots => ReaderSafe(data_buffer_rd_ptr)
  BY <1>1 DEF StaleInv
<1> QED
  BY <1>1, <1>2 DEF StaleInv, ReaderSafe, Stored, Rest, StaleMax

\* A block is taken up whole below the words of this measurement, or in front of
\* them, or before anything was handed over.
LEMMA StalePick == ASSUME IInv, StaleInv, TaskPick PROVE StaleInv'
<1>1. /\ pc = "pick" /\ pc' = IF BlockPending(task.prd, data_buffer_wr_ptr) THEN "copy" ELSE "task"
      /\ UNCHANGED <<asked, data_buffer_wr_ptr, data_buffer_rd_ptr, task, stale>>
  BY DEF TaskPick, device, buffer, history
<1>2. /\ Stored' = Stored /\ Stored \in Nat /\ stale \in Nat /\ Len(task.blk) = 0
      /\ task.prd \in Nat /\ data_buffer_rd_ptr \in Nat /\ task.prd \in Slot
      /\ Slots \in Nat /\ BlkCnt \in Nat /\ BlkCnt > 0
  BY <1>1, Counters, Sizes DEF Stored
<1>3. stale < StaleMax
  BY DEF StaleInv
<1>4. ASSUME Stored < Slots, pc' = "task" PROVE ReaderSafe(data_buffer_rd_ptr)
  <2>1. CASE stale = 0
    <3>1. Rest(data_buffer_rd_ptr) \in Nat /\ Rest(data_buffer_rd_ptr) <= Slots
      BY <1>2, RestIs
    <3> QED
      BY <1>2, <2>1, <3>1 DEF ReaderSafe, StaleMax
  <2>2. CASE stale # 0
    BY <1>1, <1>4, <2>2 DEF StaleInv
  <2> QED
    BY <2>1, <2>2
<1>5. ASSUME Stored < Slots, pc' = "copy" PROVE CopySafe
  <2>1. CASE stale = 0
    BY <1>2, <2>1 DEF CopySafe
  <2>2. CASE stale # 0
    <3>1. ReaderSafe(task.prd)
      BY <1>1, <1>5, <2>2 DEF StaleInv
    <3>2. Ahead(task.prd) >= BlkCnt
      BY <1>1, <1>2, <1>5, AheadIs
    <3>3. data_buffer_wr_ptr = Stored
      BY <1>5 DEF IInv, Fresh
    <3>4. CASE task.prd <= Stored
      <4>1. Stored - task.prd >= BlkCnt
        BY <3>2, <3>3, <3>4 DEF Ahead
      <4> QED
        BY <1>2, <4>1 DEF CopySafe
    <3>5. CASE ~(task.prd <= Stored)
      <4>1. Stored + Slots - task.prd >= BlkCnt
        BY <3>2, <3>3, <3>5 DEF Ahead
      <4>2. task.prd + BlkCnt <= Stored + Slots
        BY <1>2, <4>1
      <4>3. stale + Rest(task.prd + Len(task.blk)) < StaleMax
        <5>1. task.prd + Len(task.blk) = task.prd
          BY <1>2
        <5> QED
          BY <3>1, <3>5, <5>1 DEF ReaderSafe
      <4> QED
        BY <4>2, <4>3 DEF CopySafe
    <3> QED
      BY <3>4, <3>5
  <2> QED
    BY <2>1, <2>2
<1>6. /\ ReaderSafe(data_buffer_rd_ptr) => ReaderSafe(data_buffer_rd_ptr)'
      /\ CopySafe => CopySafe'
  BY <1>1, <1>2 DEF ReaderSafe, CopySafe, Rest, StaleMax
<1> QED
  BY <1>1, <1>2, <1>3, <1>4, <1>5, <1>6 DEF StaleInv, StaleMax

\* A word of an earlier measurement lies above those of this one.
LEMMA StaleCopy == ASSUME IInv, StaleInv, TaskCopy PROVE StaleInv'
<1> DEFINE k == Len(task.blk)
           i == PlaceOf(task.prd, k)
<1>1. /\ pc = "copy" /\ task' = [task EXCEPT !.blk = Append(@, data_buffer[i])]
      /\ stale' = IF data_buffer[i].meas = meas THEN stale ELSE stale + 1
      /\ pc' = IF k + 1 = BlkCnt THEN "index" ELSE "copy"
      /\ asked' = asked
  BY DEF TaskCopy, device
<1>2. /\ task \in [prd : Slot, blk : Seq(Word), cnt : Nat, ok : BOOLEAN]
      /\ k \in Nat /\ k < BlkCnt /\ data_buffer \in [Slot -> Word]
      /\ Stored \in Nat /\ stale \in Nat /\ task.prd \in Nat /\ task.prd < Slots
      /\ Slots \in Nat /\ BlkCnt \in Nat /\ BlkCnt < Slots
  BY <1>1, Counters, Sizes DEF IInv, TypeOK
<1>3. i \in Slot /\ i \in Nat
      /\ i = IF task.prd + k < Slots THEN task.prd + k ELSE task.prd + k - Slots
  <2>1. task.prd \in Slot /\ k \in 0 .. Slots
    BY <1>2, Sizes
  <2> HIDE DEF k
  <2>2. i \in Slot /\ i = IF task.prd + k < Slots THEN task.prd + k ELSE task.prd + k - Slots
    BY <2>1, Round DEF PlaceOf
  <2> QED
    BY <2>2, Sizes DEF Slot
<1>4. i < Stored => data_buffer[i].meas = meas
  BY <1>3 DEF IInv, Fresh
<1>5. Stored' = Stored /\ task'.prd = task.prd /\ Len(task'.blk) = k + 1
  <2>1. task.blk \in Seq(Word) /\ data_buffer[i] \in Word
    BY <1>2, <1>3
  <2> HIDE DEF i
  <2> QED
    BY <1>1, <1>2, <2>1 DEF Stored
<1> HIDE DEF k, i
<1>6. CASE ~(Stored < Slots)
  <2>1. i < Stored
    BY <1>2, <1>3, <1>6 DEF Slot
  <2> QED
    BY <1>1, <1>4, <1>5, <1>6, <2>1 DEF StaleInv, StaleMax
<1>7. CASE Stored < Slots
  <2>1. stale' \in Nat /\ stale' <= stale + 1 /\ (i < Stored => stale' = stale)
    BY <1>1, <1>2, <1>4
  <2>2. stale < StaleMax /\ CopySafe
    BY <1>1, <1>7 DEF StaleInv
  <2>3. stale' < StaleMax /\ CopySafe'
    <3>1. CASE stale <= k
      BY <1>2, <1>5, <2>1, <3>1 DEF CopySafe, StaleMax
    <3>2. CASE task.prd + BlkCnt <= Stored
      <4>1. i < Stored
        BY <1>2, <1>3, <3>2
      <4> QED
        BY <1>5, <2>1, <2>2, <3>2, <4>1 DEF CopySafe, StaleMax
    <3>3. CASE /\ task.prd + BlkCnt <= Stored + Slots
               /\ stale + Rest(task.prd + k) < StaleMax
      <4> DEFINE x == task.prd + k
      <4>1. /\ Rest(x) \in Nat /\ Rest(x + 1) \in Nat /\ StaleMax \in Nat
            /\ x < Slots => Rest(x) = Rest(x + 1) + 1
            /\ ~(x < Slots) => Rest(x) = 0 /\ Rest(x + 1) = 0
        <5>1. x \in Nat /\ x + 1 \in Nat
          BY <1>2
        <5> HIDE DEF x
        <5> QED
          BY <5>1, RestIs
      <4>2. ~(x < Slots) => i < Stored
        BY <1>2, <1>3, <3>3
      <4>3. stale' < StaleMax /\ stale' + Rest(x + 1) < StaleMax
        <5> HIDE DEF x
        <5>1. stale + Rest(x) < StaleMax
          BY <3>3 DEF x
        <5>2. CASE x < Slots
          BY <1>2, <2>1, <4>1, <5>1, <5>2
        <5>3. CASE ~(x < Slots)
          BY <1>2, <2>1, <4>1, <4>2, <5>1, <5>3
        <5> QED
          BY <5>2, <5>3
      <4>4. x + 1 = task'.prd + Len(task'.blk)
        BY <1>2, <1>5
      <4>5. Rest(task.prd + Len(task.blk))' = Rest(x + 1)
        BY <4>4 DEF Rest
      <4> HIDE DEF x
      <4> QED
        BY <1>5, <3>3, <4>3, <4>5 DEF CopySafe, StaleMax
    <3> QED
      BY <2>2, <3>1, <3>2, <3>3 DEF CopySafe, k
  <2> QED
    BY <1>1, <2>3 DEF StaleInv, StaleMax
<1> QED
  BY <1>6, <1>7

LEMMA StaleIndex == ASSUME IInv, StaleInv, TaskIndex PROVE StaleInv'
<1>1. /\ pc = "index" /\ data_buffer_rd_ptr' = NewRd(task.prd) /\ pc' = "write"
      /\ UNCHANGED <<asked, stale>>
  BY DEF TaskIndex, device
<1>2. /\ Stored' = Stored /\ Stored \in Nat /\ stale \in Nat /\ Len(task.blk) = BlkCnt
      /\ task.prd \in Nat /\ task.prd < Slots
      /\ Slots \in Nat /\ BlkCnt \in Nat /\ BlkCnt < Slots
  BY <1>1, Counters, Sizes DEF Stored
<1>3. data_buffer_rd_ptr' =
        IF task.prd + BlkCnt < Slots THEN task.prd + BlkCnt ELSE task.prd + BlkCnt - Slots
  BY <1>1, NewRdIs, Counters
<1> DEFINE x == task.prd + BlkCnt
<1>4. x \in Nat /\ data_buffer_rd_ptr' \in Nat
  BY <1>2, <1>3
<1>5. ASSUME Stored < Slots PROVE ReaderSafe(data_buffer_rd_ptr)'
  <2>1. CopySafe
    BY <1>1, <1>5 DEF StaleInv
  <2>2. CASE stale <= BlkCnt
    <3>1. CASE data_buffer_rd_ptr' = 0
      BY <1>2, <3>1 DEF ReaderSafe
    <3>2. CASE data_buffer_rd_ptr' # 0
      <4>1. Rest(data_buffer_rd_ptr)' =
              IF data_buffer_rd_ptr' < Slots THEN Slots - data_buffer_rd_ptr' ELSE 0
        BY DEF Rest
      <4> QED
        BY <1>1, <1>2, <1>4, <2>2, <3>2, <4>1 DEF ReaderSafe, StaleMax
    <3> QED
      BY <3>1, <3>2
  <2>3. CASE x <= Stored
    BY <1>2, <1>3, <1>4, <1>5, <2>3 DEF ReaderSafe
  <2>4. CASE x <= Stored + Slots /\ stale + Rest(x) < StaleMax
    <3>1. CASE x < Slots
      <4>1. Rest(data_buffer_rd_ptr)' = Rest(x)
        BY <1>3, <3>1 DEF Rest
      <4> QED
        BY <1>1, <2>4, <4>1 DEF ReaderSafe, StaleMax
    <3>2. CASE ~(x < Slots)
      <4>1. data_buffer_rd_ptr' <= Stored'
        BY <1>2, <1>3, <1>4, <2>4, <3>2
      <4> QED
        BY <4>1 DEF ReaderSafe
    <3> QED
      BY <3>1, <3>2
  <2> QED
    BY <1>2, <2>1, <2>2, <2>3, <2>4 DEF CopySafe
<1> QED
  BY <1>1, <1>2, <1>5 DEF StaleInv, StaleMax

LEMMA StaleRest ==
  ASSUME IInv, StaleInv, TaskWrite \/ TaskCount \/ UNCHANGED vars PROVE StaleInv'
<1>1. /\ UNCHANGED <<asked, data_buffer_rd_ptr, stale>>
      /\ \/ pc \in {"write", "count"} /\ pc' \in {"count", "task"}
         \/ UNCHANGED <<pc, task>>
  BY DEF TaskWrite, TaskCount, vars, device, buffer, history
<1> QED
  BY <1>1 DEF StaleInv, ReaderSafe, CopySafe, Stored, Rest, StaleMax

\* Also when a measurement begins in the middle of task_data_out: fewer samples of
\* earlier ones are handed over than data_buffer and one block hold.
THEOREM StaleIsBounded == Spec => []StaleBounded
<1>1. Init => StaleInv
  BY Sizes DEF Init, StaleInv, ReaderSafe, Stored, StaleMax
<1>2. IInv /\ StaleInv /\ [Next]_vars => StaleInv'
  BY StaleIsr, CommandEffect, StaleCommand, StaleRead, StalePick, StaleCopy,
     StaleIndex, StaleRest DEF Next, task_data_out
<1>3. StaleInv => StaleBounded
  BY DEF StaleInv, StaleBounded, StaleMax
<1> QED
  BY <1>1, <1>2, <1>3, IInvHolds, PTL DEF Spec
=============================================================================
