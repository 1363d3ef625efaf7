------------------------- MODULE Stm32Loop_proofs --------------------------
(***************************************************************************)
(* Theorems about Stm32Loop for every size of the ring and of a packet.    *)
(***************************************************************************)
EXTENDS Stm32Loop, SequenceTheorems, TLAPS

\* What the host programs keep to: blocks that fit a packet.
ShortBlocks == \A c \in Configs : c.pktcnt <= PktRoom

-----------------------------------------------------------------------------
(***************************************************************************)
(* The gate.                                                               *)
(***************************************************************************)
GateInv == pc \in {"start", "bus"} => timer_flg = FALSE

LEMMA GateStep == GateInv /\ [Next]_vars => GateInv'
<1> SUFFICES ASSUME GateInv, [Next]_vars PROVE GateInv'
  OBVIOUS
<1> USE DEF GateInv
<1>1. CASE TIM2_IRQHandler
  BY <1>1 DEF TIM2_IRQHandler
<1>2. CASE Host
  BY <1>2 DEF Host, HostOut, HostIn, HostReset, HostConfigure, sampling
<1>3. CASE Decode
  BY <1>3 DEF Decode, GateShut
<1>4. CASE RegDone \/ InitRefused \/ InitExtDevice
  BY <1>4 DEF RegDone, InitRefused, InitExtDevice
<1>5. CASE Arm \/ Busy \/ Reply \/ Clear \/ SendError \/ Collect \/ Nothing
  BY <1>5 DEF Arm, Busy, Reply, Clear, SendError, Collect, Nothing
<1>6. CASE Copy \/ SendBlock
  BY <1>6 DEF Copy, SendBlock
<1>7. CASE UNCHANGED vars
  BY <1>7 DEF vars, sampling
<1> QED
  BY <1>1, <1>2, <1>3, <1>4, <1>5, <1>6, <1>7 DEF Next, MainLoop

(***************************************************************************)
(* The loop and the timer interrupt never use the SMBus together.          *)
(***************************************************************************)
THEOREM BusIsExclusive == Spec => []BusExclusive
<1>1. Init => GateInv
  BY DEF Init, GateInv
<1>2. GateInv => BusExclusive
  BY DEF GateInv, BusExclusive
<1> QED
  BY <1>1, <1>2, GateStep, PTL DEF Spec

-----------------------------------------------------------------------------
(***************************************************************************)
(* The endpoint: packet_sent is a promise that it is empty, and it stands  *)
(* from the test at the top of the loop to the next CDC_Send_DATA.         *)
(***************************************************************************)
EndpointInv ==
  /\ packet_sent => ep1 = None
  /\ pc \in {"start", "bus", "reply", "copy"} => packet_sent

\* Nothing is written over a packet by CDC_Send_DATA called at such a place.
LEMMA SendEmpty ==
  ASSUME EndpointInv, packet_sent, NEW p, CDC_Send_DATA(p)
  PROVE  /\ ep1 # None => ep1' \in {ep1, None}
         /\ packet_sent' => ep1' = None
BY DEF EndpointInv, CDC_Send_DATA, transmit

LEMMA EndpointStep ==
  EndpointInv /\ [Next]_vars =>
    EndpointInv' /\ (ep1 # None => ep1' \in {ep1, None})
<1> SUFFICES ASSUME EndpointInv, [Next]_vars
             PROVE  EndpointInv' /\ (ep1 # None => ep1' \in {ep1, None})
  OBVIOUS
<1>1. CASE TIM2_IRQHandler
  BY <1>1 DEF TIM2_IRQHandler, EndpointInv, transmit
<1>2. CASE Host
  BY <1>2 DEF Host, HostOut, HostIn, HostReset, HostConfigure, EndpointInv,
     transmit
<1>3. CASE Decode \/ RegDone
  BY <1>3 DEF Decode, RegDone, Free, EndpointInv, transmit
<1>4. CASE InitRefused \/ InitExtDevice
  BY <1>4 DEF InitRefused, InitExtDevice, EndpointInv, transmit
<1>5. CASE Arm \/ Busy \/ Clear \/ Nothing
  BY <1>5 DEF Arm, Busy, Clear, Nothing, EndpointInv, transmit
<1>6. CASE Collect \/ Copy
  BY <1>6 DEF Collect, Copy, Free, EndpointInv, transmit
<1>7. CASE Reply
  <2>1. packet_sent /\ pc' = "clear"
    BY <1>7 DEF Reply, EndpointInv
  <2> QED
    BY <1>7, <2>1, SendEmpty DEF Reply, EndpointInv
<1>8. CASE SendError
  <2>1. packet_sent /\ pc' = "arm"
    BY <1>8 DEF SendError, Free
  <2> QED
    BY <1>8, <2>1, SendEmpty DEF SendError, EndpointInv
<1>9. CASE SendBlock
  <2>1. packet_sent /\ pc' = "arm"
    BY <1>9 DEF SendBlock, EndpointInv
  <2> QED
    BY <1>9, <2>1, SendEmpty DEF SendBlock, EndpointInv
<1>10. CASE UNCHANGED vars
  BY <1>10 DEF vars, transmit, EndpointInv
<1> QED
  BY <1>1, <1>2, <1>3, <1>4, <1>5, <1>6, <1>7, <1>8, <1>9, <1>10
  DEF Next, MainLoop

(***************************************************************************)
(* Replies, errors and blocks never replace one another in the endpoint.   *)
(***************************************************************************)
THEOREM EndpointIsKept == Spec => EndpointKept
<1>1. Init => EndpointInv
  BY DEF Init, EndpointInv
<1>2. EndpointInv /\ [Next]_vars => [ep1 # None => ep1' \in {ep1, None}]_vars
  BY EndpointStep
<1>3. EndpointInv /\ [Next]_vars => EndpointInv'
  BY EndpointStep
<1> QED
  BY <1>1, <1>2, <1>3, PTL DEF Spec, EndpointKept

-----------------------------------------------------------------------------
(***************************************************************************)
(* Types.  With short blocks none is copied past the end of send_pkt.      *)
(***************************************************************************)
ShortInv == cfg_i2c.pktcnt <= PktRoom /\ Receive_Buffer.cfg.pktcnt <= PktRoom

TypeInv == TypeOK /\ ShortInv

\* The limit of InitExtDevice only ever lowers a block.
LEMMA ClampBounds ==
  ASSUME NEW n \in Nat PROVE Clamp(n) \in Nat /\ Clamp(n) <= n
BY SizesAssumption DEF Clamp, PktLimit

LEMMA SuccInSlot == ASSUME NEW i \in Slot PROVE Succ(i) \in Slot
BY SizesAssumption DEF Succ, Slot

LEMMA SendTypes ==
  ASSUME TypeOK, NEW p \in Packet, CDC_Send_DATA(p)
  PROVE  packet_sent' \in BOOLEAN /\ ep1' \in Packet
BY DEF TypeOK, CDC_Send_DATA, transmit

LEMMA TypeInit == Init => TypeInv
<1> SUFFICES ASSUME Init PROVE TypeInv
  OBVIOUS
<1>1. Quiet \in Config /\ Quiet.pktcnt <= PktRoom
  BY SizesAssumption DEF Quiet, Config
<1>2. [kind |-> "ask", n |-> 0, cfg |-> Quiet] \in Command
  BY <1>1 DEF Command
<1>3. 0 \in Slot /\ 0 \in 0 .. MaxReadRegs - 1
  BY SizesAssumption DEF Slot
<1>4. i2c_buf \in [Slot -> Sample]
  BY DEF Init, Sample
<1>5. ep1 \in Packet
  BY DEF Init, None, Packet
<1>6. send_pkt \in Seq(Sample) /\ Len(send_pkt) <= PktRoom
  BY SizesAssumption DEF Init
<1>7. handled \in Seq(Nat)
  BY DEF Init
<1>8. ShortInv
  BY <1>1 DEF Init, ShortInv
<1> QED
  BY <1>1, <1>2, <1>3, <1>4, <1>5, <1>6, <1>7, <1>8 DEF Init, TypeInv, TypeOK

LEMMA TypeTick == TypeInv /\ TIM2_IRQHandler => TypeInv'
<1> SUFFICES ASSUME TypeInv, TIM2_IRQHandler PROVE TypeInv'
  OBVIOUS
<1>1. PICK ok \in BOOLEAN : GetNewRegData(ok)
  BY DEF TIM2_IRQHandler
<1>2. i2c_buf' \in [Slot -> Sample]
  <2>1. [seq |-> taken, good |-> ok] \in Sample
    BY DEF TypeInv, TypeOK, Sample
  <2> QED
    BY <1>1, <2>1 DEF GetNewRegData, TypeInv, TypeOK
<1>3. i2c_buf_wr' \in Slot
  BY <1>1, SuccInSlot DEF GetNewRegData, TypeInv, TypeOK
<1>4. raddr' \in 0 .. MaxReadRegs - 1 /\ timer' \in BOOLEAN /\ send_err' \in BOOLEAN
  <2>1. NextReg(raddr) \in 0 .. MaxReadRegs - 1
    BY SizesAssumption DEF NextReg, TypeInv, TypeOK, Config
  <2> QED
    BY <1>1, <2>1 DEF GetNewRegData, ReadFails, TypeInv, TypeOK
<1>5. taken' \in Nat
  BY <1>1 DEF GetNewRegData, TypeInv, TypeOK
<1> QED
  BY <1>2, <1>3, <1>4, <1>5
  DEF TIM2_IRQHandler, TypeInv, TypeOK, ShortInv, receive, transmit, host

\* What the host sends is short.
LEMMA ShortConfigs ==
  ASSUME ShortBlocks, NEW c \in Configs \cup {Quiet}
  PROVE  c \in Config /\ c.pktcnt <= PktRoom
<1>1. CASE c \in Configs
  BY <1>1, SizesAssumption DEF ShortBlocks
<1>2. CASE c = Quiet
  BY <1>2, SizesAssumption DEF Quiet, Config
<1> QED
  BY <1>1, <1>2

LEMMA TypeHost == ASSUME ShortBlocks, TypeInv, Host PROVE TypeInv'
<1> USE DEF TypeInv, TypeOK, ShortInv, sampling, receive, transmit, host
<1>1. ASSUME NEW kind \in {"cfg", "reg", "ask"},
             NEW c \in Configs \cup {Quiet},
             HostOut(kind, c)
      PROVE  TypeInv'
  <2>1. c \in Config /\ c.pktcnt <= PktRoom
    BY ShortConfigs
  <2>2. [kind |-> kind, n |-> sent + 1, cfg |-> c] \in Command
    BY <2>1 DEF Command
  <2>3. Receive_Buffer' \in Command /\ Receive_Buffer'.cfg.pktcnt <= PktRoom
    BY <1>1, <2>1, <2>2 DEF HostOut
  <2>4. ep3' \in BOOLEAN /\ Receive_length' \in BOOLEAN
    BY <1>1, Zenon DEF HostOut
  <2>5. sent' \in Nat
    BY <1>1 DEF HostOut
  <2> QED
    BY <1>1, <2>3, <2>4, <2>5 DEF HostOut
<1>2. CASE HostIn
  <2>1. None \in Packet /\ ep1.n \in Nat
    BY DEF None, Packet
  <2> QED
    BY <1>2, <2>1 DEF HostIn
<1>3. CASE HostReset
  <2>1. None \in Packet
    BY DEF None, Packet
  <2>2. configured' \in BOOLEAN /\ ep3' \in BOOLEAN /\ ep1' \in Packet
    BY <1>3, <2>1, Zenon DEF HostReset
  <2>3. resets' \in Nat
    BY <1>3 DEF HostReset
  <2> QED
    BY <1>3, <2>2, <2>3 DEF HostReset
<1>4. CASE HostConfigure
  BY <1>4 DEF HostConfigure
<1> QED
  BY <1>1, <1>2, <1>3, <1>4 DEF Host

LEMMA TypeSetUp ==
  ASSUME TypeInv, Decode \/ RegDone \/ InitRefused \/ InitExtDevice
  PROVE  TypeInv'
<1> USE DEF TypeInv, TypeOK, ShortInv, receive, transmit, host
<1>1. CASE Decode
  <2>1. Receive_Buffer.cfg \in Config /\ Receive_Buffer.n \in Nat
    BY DEF Command
  <2>2. handled' \in Seq(Nat)
    BY <1>1, <2>1, AppendProperties DEF Decode
  <2> QED
    BY <1>1, <2>1, <2>2 DEF Decode, GateShut
<1>2. CASE RegDone
  BY <1>2 DEF RegDone
<1>3. ASSUME NEW n \in Nat, n <= cfg_i2c.pktcnt
      PROVE  /\ [cfg_i2c EXCEPT !.pktcnt = n] \in Config
             /\ [cfg_i2c EXCEPT !.pktcnt = n].pktcnt <= PktRoom
  <2>1. cfg_i2c \in Config /\ cfg_i2c.pktcnt <= PktRoom
    OBVIOUS
  <2>2. [cfg_i2c EXCEPT !.pktcnt = n] \in Config
    BY <2>1 DEF Config
  <2>3. [cfg_i2c EXCEPT !.pktcnt = n].pktcnt = n
    BY <2>1 DEF Config
  <2> QED
    BY <1>3, <2>1, <2>2, <2>3, SizesAssumption DEF Config
<1>4. cfg_i2c.pktcnt \in Nat /\ 0 <= cfg_i2c.pktcnt
  BY DEF Config
<1>5. CASE InitRefused
  BY <1>3, <1>4, <1>5 DEF InitRefused
<1>6. CASE InitExtDevice
  <2>1. Clamp(cfg_i2c.pktcnt) \in Nat /\ Clamp(cfg_i2c.pktcnt) <= cfg_i2c.pktcnt
    BY <1>4, ClampBounds
  <2>2. cfg_i2c' \in Config /\ cfg_i2c'.pktcnt <= PktRoom
    <3>1. cfg_i2c' = [cfg_i2c EXCEPT !.pktcnt = Clamp(cfg_i2c.pktcnt)]
            \/ cfg_i2c' = [cfg_i2c EXCEPT !.pktcnt = 0]
      BY <1>6 DEF InitExtDevice
    <3> QED
      BY <1>3, <1>4, <2>1, <3>1
  <2>3. timer' \in BOOLEAN
    <3>1. CASE Clamp(cfg_i2c.pktcnt) > 0
      <4>1. (Clamp(cfg_i2c.pktcnt) > 0) = TRUE
        BY <3>1
      <4> QED
        BY <1>6, <4>1, Zenon DEF InitExtDevice
    <3>2. CASE ~(Clamp(cfg_i2c.pktcnt) > 0)
      <4>1. (Clamp(cfg_i2c.pktcnt) > 0) = FALSE
        BY <3>2
      <4> QED
        BY <1>6, <4>1, Zenon DEF InitExtDevice
    <3> QED
      BY <3>1, <3>2
  <2>6. timer_flg' \in BOOLEAN
    BY <1>6, Zenon DEF InitExtDevice
  <2>5. all_rd_count' \in Nat
    BY <1>6 DEF InitExtDevice
  <2>4. 0 \in Slot /\ 0 \in 0 .. MaxReadRegs - 1
    BY SizesAssumption DEF Slot
  <2> QED
    BY <1>6, <2>2, <2>3, <2>4, <2>5, <2>6 DEF InitExtDevice, FlushI2CBuf
<1> QED
  BY <1>1, <1>2, <1>5, <1>6

LEMMA TypeSend ==
  ASSUME TypeInv,
         Reply \/ Clear \/ SendError \/ Collect \/ Copy \/ SendBlock
  PROVE  TypeInv'
<1> USE DEF TypeInv, TypeOK, ShortInv, sampling, receive, host
<1>1. CASE Reply
  <2>1. [kind |-> "reply", n |-> Receive_Buffer.n, data |-> <<>>] \in Packet
    BY DEF Packet, Command
  <2> QED
    BY <1>1, <2>1, SendTypes DEF Reply
<1>2. CASE SendError
  <2>1. [kind |-> "error", n |-> 0, data |-> <<>>] \in Packet
    BY DEF Packet
  <2> QED
    BY <1>2, <2>1, SendTypes DEF SendError
<1>3. CASE Clear
  BY <1>3 DEF Clear, transmit
<1>4. CASE Collect
  BY <1>4, SizesAssumption DEF Collect, transmit
<1>5. CASE Copy
  <2>1. cfg_i2c.pktcnt \in Nat
    BY DEF Config
  <2>2. send_pkt' \in Seq(Sample) /\ Len(send_pkt') = Len(send_pkt) + 1
    BY <1>5, AppendProperties DEF Copy
  <2>3. Len(send_pkt') <= PktRoom
    BY <1>5, <2>1, <2>2, LenProperties, SizesAssumption DEF Copy
  <2> QED
    BY <1>5, <2>2, <2>3, SuccInSlot DEF Copy, transmit
<1>6. CASE SendBlock
  <2>1. [kind |-> "block", n |-> 0, data |-> send_pkt] \in Packet
    BY DEF Packet
  <2>2. cfg_i2c.pktcnt \in Nat
    BY DEF Config
  <2>3. packet_sent' \in BOOLEAN /\ ep1' \in Packet
    BY <1>6, <2>1, SendTypes DEF SendBlock
  <2>4. all_rd_count' \in Nat /\ given' \in Nat
    BY <1>6, <2>2 DEF SendBlock
  <2>5. send_pkt' \in Seq(Sample) /\ Len(send_pkt') <= PktRoom
    BY <1>6, SizesAssumption DEF SendBlock
  <2> QED
    BY <1>6, <2>3, <2>4, <2>5 DEF SendBlock
<1> QED
  BY <1>1, <1>2, <1>3, <1>4, <1>5, <1>6

LEMMA TypeStep == ASSUME ShortBlocks, TypeInv, [Next]_vars PROVE TypeInv'
<1>1. CASE Arm \/ Busy \/ Nothing
  BY <1>1 DEF Arm, Busy, Nothing, TypeInv, TypeOK, ShortInv, sampling, receive,
     transmit, host
<1>2. CASE UNCHANGED vars
  BY <1>2 DEF vars, TypeInv, TypeOK, ShortInv, sampling, receive, transmit, host
<1> QED
  BY <1>1, <1>2, TypeTick, TypeHost, TypeSetUp, TypeSend DEF Next, MainLoop

(***************************************************************************)
(* With the block lengths of the host programs every state is type         *)
(* correct: the indices stay in the ring, raddr in cfg_i2c.rd, and the     *)
(* block in send_pkt.                                                      *)
(***************************************************************************)
THEOREM TypeCorrect ==
  ASSUME ShortBlocks
  PROVE  Spec => []TypeOK
<1>1. TypeInv /\ [Next]_vars => TypeInv'
  BY TypeStep
<1>2. TypeInv => TypeOK
  BY DEF TypeInv
<1> QED
  BY <1>1, <1>2, TypeInit, PTL DEF Spec

-----------------------------------------------------------------------------
(***************************************************************************)
(* The samples counted are the samples given to the endpoint: no block is  *)
(* refused.                                                                *)
(***************************************************************************)
LEMMA CountSetUp ==
  ASSUME TypeInv, CountedIsSent, InitRefused \/ InitExtDevice
  PROVE  CountedIsSent'
<1>1. cfg_i2c.pktcnt \in Nat /\ cfg_i2c \in Config
  BY DEF TypeInv, TypeOK, Config
<1>2. \A n \in Nat : [cfg_i2c EXCEPT !.pktcnt = n].pktcnt = n
  BY <1>1 DEF Config
<1>3. CASE InitRefused
  <2>1. cfg_i2c'.pktcnt = 0
    BY <1>2, <1>3 DEF InitRefused
  <2> QED
    BY <2>1 DEF CountedIsSent, Measuring
<1>4. CASE InitExtDevice
  <2> DEFINE n == Clamp(cfg_i2c.pktcnt)
  <2>1. n \in Nat
    BY <1>1, ClampBounds
  <2>2. cfg_i2c' = [cfg_i2c EXCEPT !.pktcnt = n]
          \/ cfg_i2c' = [cfg_i2c EXCEPT !.pktcnt = 0]
    BY <1>4 DEF InitExtDevice
  <2>3. cfg_i2c'.pktcnt \in {n, 0}
    BY <1>2, <2>1, <2>2
  <2>4. given' = 0 /\ (n > 0 => all_rd_count' = 0)
    BY <1>4 DEF InitExtDevice, FlushI2CBuf
  <2> QED
    BY <2>3, <2>4 DEF CountedIsSent, Measuring
<1> QED
  BY <1>3, <1>4

LEMMA CountStep ==
  ASSUME TypeInv, CountedIsSent, [Next]_vars
  PROVE  CountedIsSent'
<1> USE DEF CountedIsSent, Measuring
<1>1. CASE TIM2_IRQHandler
  BY <1>1 DEF TIM2_IRQHandler
<1>2. CASE Host
  BY <1>2 DEF Host, HostOut, HostIn, HostReset, HostConfigure, sampling
<1>3. CASE Decode \/ RegDone
  BY <1>3 DEF Decode, RegDone, Free
<1>4. CASE Arm \/ Busy \/ Reply \/ Clear \/ SendError \/ Collect \/ Nothing
  BY <1>4 DEF Arm, Busy, Reply, Clear, SendError, Collect, Nothing, Free, sampling
<1>5. CASE Copy
  BY <1>5 DEF Copy
<1>6. CASE SendBlock
  <2>1. Fits(send_pkt)
    BY <1>6 DEF SendBlock, Fits, TypeInv, ShortInv
  <2> QED
    BY <1>6, <2>1 DEF SendBlock
<1>7. CASE UNCHANGED vars
  BY <1>7 DEF vars, sampling
<1> QED
  BY <1>1, <1>2, <1>3, <1>4, <1>5, <1>6, <1>7, CountSetUp DEF Next, MainLoop

(***************************************************************************)
(* With the block lengths of the host programs rd_cnt counts the samples   *)
(* that went to the endpoint, for every size of a packet.                  *)
(***************************************************************************)
THEOREM CountIsSent ==
  ASSUME ShortBlocks
  PROVE  Spec => []CountedIsSent
<1>1. Init => CountedIsSent
  BY DEF Init, CountedIsSent
<1>2. TypeInv /\ CountedIsSent /\ [Next]_vars => TypeInv' /\ CountedIsSent'
  BY TypeStep, CountStep
<1> QED
  BY <1>1, <1>2, TypeInit, PTL DEF Spec

-----------------------------------------------------------------------------
(***************************************************************************)
(* The ring.                                                               *)
(***************************************************************************)

\* The host is late by less than the ring has room for.
InTime(c) == c.pktcnt > 0 => c.pktcnt + MaxLag + 1 < BufSize

FetchedInTime == \A c \in Configs : InTime(c)

LagInv == InTime(cfg_i2c) /\ InTime(Receive_Buffer.cfg)

\* While a block is copied more samples wait than it lacks.
CopyInv ==
  pc = "copy" =>
    /\ cfg_i2c.pktcnt > 0
    /\ Len(send_pkt) <= cfg_i2c.pktcnt
    /\ cfg_i2c.pktcnt < Len(send_pkt) + Pending

AccountInv == TakenIsCounted /\ CopyInv /\ LagInv

LEMMA PendingBounds ==
  ASSUME TypeOK PROVE Pending \in 0 .. BufSize - 1
BY SizesAssumption DEF TypeOK, Pending, Slot

LEMMA AheadBySucc ==
  ASSUME NEW w \in Slot, NEW r \in Slot,
         (w + BufSize - r) % BufSize < BufSize - 1
  PROVE  (Succ(w) + BufSize - r) % BufSize = ((w + BufSize - r) % BufSize) + 1
BY SizesAssumption DEF Succ, Slot

LEMMA BehindBySucc ==
  ASSUME NEW w \in Slot, NEW r \in Slot,
         (w + BufSize - r) % BufSize > 0
  PROVE  (w + BufSize - Succ(r)) % BufSize = ((w + BufSize - r) % BufSize) - 1
BY SizesAssumption DEF Succ, Slot

LEMMA PendingTick ==
  ASSUME TypeOK, Pending < BufSize - 1,
         i2c_buf_wr' = Succ(i2c_buf_wr), i2c_buf_rd' = i2c_buf_rd
  PROVE  Pending' = Pending + 1
BY AheadBySucc DEF TypeOK, Pending

LEMMA PendingCopy ==
  ASSUME TypeOK, Pending > 0,
         i2c_buf_wr' = i2c_buf_wr, i2c_buf_rd' = Succ(i2c_buf_rd)
  PROVE  Pending' = Pending - 1
BY BehindBySucc DEF TypeOK, Pending

\* A step that leaves sampling alone and is not about a block.
LEMMA AccountKept ==
  ASSUME AccountInv, pc # "copy" \/ UNCHANGED send_pkt,
         pc' = "copy" => pc = "copy",
         pc' \in {"start", pc} \/ pc # "start",
         pc = "copy" => pc' = "copy",
         UNCHANGED <<cfg_i2c, i2c_buf_wr, i2c_buf_rd, all_rd_count, taken>>,
         InTime(Receive_Buffer'.cfg)
  PROVE  AccountInv'
BY DEF AccountInv, TakenIsCounted, CopyInv, LagInv, InTime, Measuring, InBlock, Pending

LEMMA PendingGrows ==
  ASSUME TypeOK, AccountInv, TIM2_IRQHandler, Measuring
  PROVE  Pending' = Pending + 1
<1>1. /\ i2c_buf_wr' = Succ(i2c_buf_wr) /\ i2c_buf_rd' = i2c_buf_rd
      /\ taken < all_rd_count + InBlock + cfg_i2c.pktcnt + 1 + MaxLag
  BY DEF TIM2_IRQHandler, GetNewRegData, Timely, InBlock
<1>2. InBlock \in Nat /\ cfg_i2c.pktcnt \in Nat
  BY DEF InBlock, TypeOK, Config
<1>3. Pending < cfg_i2c.pktcnt + 1 + MaxLag
  BY <1>1, <1>2, PendingBounds, LoopAssumption DEF AccountInv, TakenIsCounted, TypeOK
<1>4. cfg_i2c.pktcnt + MaxLag + 1 < BufSize
  BY DEF AccountInv, LagInv, InTime, Measuring
<1>5. Pending < BufSize - 1
  BY <1>2, <1>3, <1>4, PendingBounds, LoopAssumption, SizesAssumption
<1> QED
  BY <1>1, <1>5, PendingTick

LEMMA AccountTick ==
  ASSUME TypeOK, AccountInv, TIM2_IRQHandler
  PROVE  AccountInv'
<1>1. /\ i2c_buf_wr' = Succ(i2c_buf_wr) /\ i2c_buf_rd' = i2c_buf_rd
      /\ taken' = taken + 1
      /\ UNCHANGED <<cfg_i2c, all_rd_count, pc, send_pkt, Receive_Buffer>>
  BY DEF TIM2_IRQHandler, GetNewRegData, receive
<1>3. InBlock' = InBlock /\ InBlock \in Nat
  BY <1>1 DEF InBlock, TypeOK
<1>4. cfg_i2c.pktcnt \in Nat
  BY DEF TypeOK, Config
<1>5. ASSUME Measuring PROVE Pending' = Pending + 1
  BY <1>5, PendingGrows
<1>6. Measuring' <=> Measuring
  BY <1>1 DEF Measuring
<1>7. TakenIsCounted'
  BY <1>1, <1>3, <1>5, <1>6, PendingBounds DEF AccountInv, TakenIsCounted, TypeOK
<1>8. CopyInv'
  <2>1. CASE pc = "copy"
    <3>1. Measuring
      BY <2>1 DEF AccountInv, CopyInv, Measuring
    <3> QED
      BY <1>1, <1>4, <1>5, <3>1, PendingBounds DEF AccountInv, CopyInv, TypeOK
  <2> QED
    BY <1>1, <2>1 DEF CopyInv
<1> QED
  BY <1>1, <1>7, <1>8 DEF AccountInv, LagInv

LEMMA AccountHost ==
  ASSUME FetchedInTime, TypeInv, AccountInv, Host
  PROVE  AccountInv'
<1>1. ASSUME NEW kind, NEW c \in Configs \cup {Quiet}, HostOut(kind, c)
      PROVE  AccountInv'
  <2>1. InTime(c)
    BY DEF FetchedInTime, InTime, Quiet
  <2>2. Receive_Buffer'.cfg = c
    BY <1>1 DEF HostOut
  <2> QED
    BY <1>1, <2>1, <2>2, AccountKept DEF HostOut, sampling
<1>2. CASE HostIn \/ HostReset \/ HostConfigure
  BY <1>2, AccountKept DEF HostIn, HostReset, HostConfigure, sampling, receive,
     AccountInv, LagInv
<1> QED
  BY <1>1, <1>2 DEF Host

LEMMA AccountSetUp ==
  ASSUME TypeInv, AccountInv, Decode \/ RegDone \/ InitRefused \/ InitExtDevice
  PROVE  AccountInv'
<1>1. cfg_i2c.pktcnt \in Nat /\ cfg_i2c \in Config
  BY DEF TypeInv, TypeOK, Config
<1>2. \A n \in Nat : [cfg_i2c EXCEPT !.pktcnt = n].pktcnt = n
  BY <1>1 DEF Config
<1>3. CASE Decode
  <2>1. CASE pc' = "start"
    <3>1. cfg_i2c' = Receive_Buffer.cfg /\ Receive_Buffer' = Receive_Buffer
      BY <1>3, <2>1 DEF Decode, receive
    <3> QED
      BY <2>1, <3>1
      DEF AccountInv, TakenIsCounted, CopyInv, LagInv, InTime, Measuring
  <2>2. CASE pc' # "start"
    <3>1. UNCHANGED cfg_i2c /\ pc = "look" /\ pc' \in {"bus", "reply"}
      BY <1>3, <2>2 DEF Decode, Free
    <3> QED
      BY <1>3, <3>1, AccountKept DEF Decode, receive, AccountInv, LagInv
  <2> QED
    BY <2>1, <2>2
<1>4. CASE RegDone
  BY <1>4, AccountKept DEF RegDone, receive, AccountInv, LagInv
<1>5. CASE InitRefused
  <2>1. cfg_i2c'.pktcnt = 0 /\ pc' = "reply" /\ Receive_Buffer' = Receive_Buffer
    BY <1>2, <1>5 DEF InitRefused, receive
  <2> QED
    BY <2>1 DEF AccountInv, TakenIsCounted, CopyInv, LagInv, InTime, Measuring
<1>6. CASE InitExtDevice
  <2> DEFINE n == Clamp(cfg_i2c.pktcnt)
  <2>1. n \in Nat /\ n <= cfg_i2c.pktcnt
    BY <1>1, ClampBounds
  <2>2. cfg_i2c' = [cfg_i2c EXCEPT !.pktcnt = n]
          \/ cfg_i2c' = [cfg_i2c EXCEPT !.pktcnt = 0]
    BY <1>6 DEF InitExtDevice
  <2>3. cfg_i2c'.pktcnt \in {n, 0}
    BY <1>2, <2>1, <2>2
  <2>4. /\ taken' = 0 /\ i2c_buf_wr' = 0 /\ i2c_buf_rd' = 0
        /\ (n > 0 => all_rd_count' = 0)
        /\ pc' = "reply"
        /\ Receive_Buffer' = Receive_Buffer
    BY <1>6 DEF InitExtDevice, FlushI2CBuf, receive
  <2>5. Pending' = 0
    BY <2>4, SizesAssumption DEF Pending
  <2>6. TakenIsCounted'
    BY <2>3, <2>4, <2>5 DEF TakenIsCounted, Measuring, InBlock
  <2>7. LagInv'
    BY <1>1, <2>1, <2>3, <2>4, LoopAssumption, SizesAssumption
    DEF AccountInv, LagInv, InTime
  <2> QED
    BY <2>4, <2>6, <2>7 DEF AccountInv, CopyInv
<1> QED
  BY <1>3, <1>4, <1>5, <1>6

LEMMA AccountBlock ==
  ASSUME TypeInv, AccountInv, Collect \/ Copy \/ SendBlock
  PROVE  AccountInv'
<1>1. cfg_i2c.pktcnt \in Nat /\ taken \in Nat /\ all_rd_count \in Nat
  BY DEF TypeInv, TypeOK, Config
<1>2. send_pkt \in Seq(Sample) /\ Len(send_pkt) \in Nat /\ TypeOK
  BY DEF TypeInv, TypeOK
<1>3. CASE Collect
  <2>1. /\ send_pkt' = <<>> /\ pc = "look" /\ pc' = "copy"
        /\ cfg_i2c.pktcnt > 0 /\ Pending > cfg_i2c.pktcnt
        /\ UNCHANGED <<cfg_i2c, i2c_buf_wr, i2c_buf_rd, all_rd_count, taken,
                       Receive_Buffer>>
    BY <1>3 DEF Collect, Free, BlockPending, sampling, receive
  <2>2. Pending' = Pending
    BY <2>1 DEF Pending
  <2>3. Len(send_pkt') = 0
    BY <2>1
  <2> QED
    BY <1>1, <2>1, <2>2, <2>3, PendingBounds, <1>2
    DEF AccountInv, TakenIsCounted, CopyInv, LagInv, Measuring, InBlock
<1>4. CASE Copy
  <2>1. /\ i2c_buf_rd' = Succ(i2c_buf_rd) /\ pc = "copy"
        /\ Len(send_pkt) < cfg_i2c.pktcnt
        /\ UNCHANGED <<pc, cfg_i2c, i2c_buf_wr, all_rd_count, taken,
                       Receive_Buffer>>
    BY <1>4 DEF Copy, receive
  <2>2. Len(send_pkt') = Len(send_pkt) + 1
    <3>1. i2c_buf[i2c_buf_rd] \in Sample
      BY <1>2 DEF TypeOK
    <3> QED
      BY <1>2, <1>4, <3>1, AppendProperties DEF Copy
  <2>3. cfg_i2c.pktcnt < Len(send_pkt) + Pending
    BY <2>1 DEF AccountInv, CopyInv
  <2>4. Pending' = Pending - 1
    BY <1>1, <1>2, <2>1, <2>3, PendingBounds, PendingCopy
  <2> QED
    BY <1>1, <1>2, <2>1, <2>2, <2>3, <2>4, PendingBounds
    DEF AccountInv, TakenIsCounted, CopyInv, LagInv, Measuring, InBlock
<1>5. CASE SendBlock
  <2>1. /\ pc = "copy" /\ pc' = "arm"
        /\ Len(send_pkt) = cfg_i2c.pktcnt
        /\ all_rd_count' = all_rd_count + cfg_i2c.pktcnt
        /\ UNCHANGED <<cfg_i2c, i2c_buf_wr, i2c_buf_rd, taken, Receive_Buffer>>
    BY <1>5 DEF SendBlock, receive
  <2>2. Pending' = Pending
    BY <2>1 DEF Pending
  <2> QED
    BY <1>1, <1>2, <2>1, <2>2, PendingBounds
    DEF AccountInv, TakenIsCounted, CopyInv, LagInv, Measuring, InBlock
<1> QED
  BY <1>3, <1>4, <1>5

LEMMA AccountStep ==
  ASSUME FetchedInTime, TypeInv, AccountInv, [Next]_vars
  PROVE  AccountInv'
<1>1. CASE Arm \/ Busy \/ Nothing
  BY <1>1, AccountKept
  DEF Arm, Busy, Nothing, Free, sampling, receive, AccountInv, LagInv
<1>2. CASE Reply \/ Clear \/ SendError
  BY <1>2, AccountKept
  DEF Reply, Clear, SendError, Free, sampling, receive, AccountInv, LagInv
<1>3. CASE UNCHANGED vars
  BY <1>3, AccountKept DEF vars, sampling, receive, AccountInv, LagInv
<1> QED
  BY <1>1, <1>2, <1>3, AccountTick, AccountHost, AccountSetUp, AccountBlock
  DEF Next, MainLoop, TypeInv

(***************************************************************************)
(* If the host fetches its blocks before the ring is full, every sample of *)
(* the timer is in the ring, in the block being copied, or counted, and    *)
(* what is counted was sent.                                               *)
(***************************************************************************)
THEOREM TimelyLosesNothing ==
  ASSUME ShortBlocks, FetchedInTime
  PROVE  Spec => []AllAccounted
<1>1. Init => AccountInv
  BY DEF Init, AccountInv, TakenIsCounted, CopyInv, LagInv, InTime, Measuring, Quiet
<1>2. TypeInv /\ AccountInv /\ [Next]_vars => TypeInv' /\ AccountInv'
  BY TypeStep, AccountStep
<1>3. AccountInv /\ CountedIsSent => AllAccounted
  BY DEF AccountInv, AllAccounted
<1> QED
  BY <1>1, <1>2, <1>3, TypeInit, CountIsSent, PTL DEF Spec

-----------------------------------------------------------------------------
(***************************************************************************)
(* The command slot.  Of its types only the numbers matter here, so that   *)
(* nothing is assumed of the blocks.                                       *)
(***************************************************************************)
Numbers ==
  /\ sent \in Nat /\ resets \in Nat
  /\ handled \in Seq(Nat)
  /\ Receive_Buffer.n \in Nat

\* The loop has no command in hand.
Idle == pc \notin {"start", "bus", "reply", "clear"}

Waiting == answered # sent /\ ep1.kind # "reply"

\* A reply under way is the one the host waits for, so that no command comes
\* before it was fetched; the slot holds the command in hand or the next.
SlotInv ==
  /\ \A i \in 1 .. Len(handled) : handled[i] = i
  /\ Receive_length => Receive_Buffer.n = sent
  /\ Idle /\ Receive_length => Len(handled) + 1 = sent /\ Waiting
  /\ Idle /\ ~Receive_length => Len(handled) = sent
  /\ ~Idle => Receive_length /\ Len(handled) = sent
  /\ pc \in {"start", "bus", "reply"} => Waiting
  /\ ep1.kind = "reply" => ep1.n = sent /\ answered # sent

\* The host has always waited for its last command to be dealt with.
Patient == ~hasty /\ resets = 0

CommandInv == Numbers /\ EndpointInv /\ (Patient => SlotInv)

LEMMA NumbersStep == ASSUME Numbers, [Next]_vars PROVE Numbers'
<1> USE DEF Numbers, receive, host
<1>1. CASE TIM2_IRQHandler
  BY <1>1 DEF TIM2_IRQHandler
<1>2. ASSUME NEW kind, NEW c, HostOut(kind, c) PROVE Numbers'
  <2>1. Receive_Buffer' = [kind |-> kind, n |-> sent + 1, cfg |-> c] /\ sent' = sent + 1
    BY <1>2 DEF HostOut
  <2> QED
    BY <1>2, <2>1 DEF HostOut
<1>3. CASE HostIn \/ HostReset \/ HostConfigure
  BY <1>3 DEF HostIn, HostReset, HostConfigure
<1>4. CASE Decode
  BY <1>4, AppendProperties DEF Decode
<1>5. CASE RegDone \/ InitRefused \/ InitExtDevice
  BY <1>5 DEF RegDone, InitRefused, InitExtDevice
<1>6. CASE Arm \/ Busy \/ Reply \/ Clear \/ Nothing
  BY <1>6 DEF Arm, Busy, Reply, Clear, Nothing
<1>7. CASE SendError \/ Collect \/ Copy \/ SendBlock
  BY <1>7 DEF SendError, Collect, Copy, SendBlock
<1>8. CASE UNCHANGED vars
  BY <1>8 DEF vars
<1> QED
  BY <1>1, <1>2, <1>3, <1>4, <1>5, <1>6, <1>7, <1>8 DEF Next, MainLoop, Host

\* A step of the loop with no command in it.
LEMMA SlotKept ==
  ASSUME SlotInv, Idle, Idle',
         UNCHANGED <<Receive_length, Receive_Buffer, host, handled>>,
         ep1' = ep1 \/ ep1'.kind # "reply"
  PROVE  SlotInv'
BY DEF SlotInv, Waiting, Idle, host

LEMMA SlotHost ==
  ASSUME Numbers, Patient, SlotInv, Host, Patient'
  PROVE  SlotInv'
<1>1. ASSUME NEW kind, NEW c, HostOut(kind, c) PROVE SlotInv'
  <2>1. answered = sent /\ pc # "clear"
    BY <1>1 DEF HostOut, Dealt, Patient
  <2>2. Idle /\ ~Receive_length /\ Len(handled) = sent /\ ep1.kind # "reply"
    BY <2>1 DEF SlotInv, Waiting, Idle
  <2>3. /\ Receive_Buffer'.n = sent + 1 /\ sent' = sent + 1
        /\ UNCHANGED <<pc, ep1, answered, handled>>
        /\ Receive_length'
    BY <1>1 DEF HostOut, transmit
  <2> QED
    BY <2>1, <2>2, <2>3 DEF SlotInv, Waiting, Idle, Numbers
<1>2. CASE HostIn
  <2>1. ep1'.kind = "none"
    BY <1>2 DEF HostIn, None
  <2>2. UNCHANGED <<pc, sent, handled, Receive_length, Receive_Buffer>>
    BY <1>2 DEF HostIn, receive
  <2>3. CASE ep1.kind = "reply"
    BY <2>1, <2>2, <2>3 DEF SlotInv, Waiting, Idle
  <2>4. CASE ep1.kind # "reply"
    <3>1. answered' = answered
      BY <1>2, <2>4 DEF HostIn
    <3> QED
      BY <2>1, <2>2, <3>1 DEF SlotInv, Waiting, Idle
  <2> QED
    BY <2>3, <2>4
<1>3. CASE HostReset
  BY <1>3 DEF HostReset, Patient, Numbers
<1>4. CASE HostConfigure
  BY <1>4 DEF HostConfigure, receive, transmit, host, SlotInv, Waiting, Idle
<1> QED
  BY <1>1, <1>2, <1>3, <1>4 DEF Host

LEMMA SlotCommand ==
  ASSUME Numbers, EndpointInv, SlotInv,
         Decode \/ RegDone \/ InitRefused \/ InitExtDevice \/ Reply \/ Clear
  PROVE  SlotInv'
<1> USE DEF receive, transmit, host
<1>1. CASE Decode
  <2>1. /\ Idle /\ Receive_length
        /\ handled' = Append(handled, Receive_Buffer.n)
        /\ pc' \in {"start", "bus", "reply"}
        /\ UNCHANGED <<Receive_length, Receive_Buffer, sent, answered, ep1>>
    BY <1>1 DEF Decode, Free, Idle
  <2>2. /\ Len(handled') = Len(handled) + 1
        /\ \A i \in 1 .. Len(handled) : handled'[i] = handled[i]
        /\ handled'[Len(handled) + 1] = sent
    BY <2>1, AppendProperties DEF Numbers, SlotInv
  <2>3. \A i \in 1 .. Len(handled') : handled'[i] = i
    <3>1. Len(handled) \in Nat /\ Len(handled) + 1 = sent
      BY <2>1, LenProperties DEF Numbers, SlotInv
    <3> QED
      BY <2>2, <3>1 DEF SlotInv
  <2> QED
    BY <2>1, <2>2, <2>3 DEF SlotInv, Waiting, Idle
<1>2. CASE RegDone \/ InitRefused \/ InitExtDevice
  <2>1. /\ pc \in {"start", "bus"} /\ pc' = "reply"
        /\ UNCHANGED <<Receive_length, Receive_Buffer, sent, answered, handled, ep1>>
    BY <1>2 DEF RegDone, InitRefused, InitExtDevice
  <2> QED
    BY <2>1 DEF SlotInv, Waiting, Idle
<1>3. CASE Reply
  <2>1. Fits(<<>>)
    BY SizesAssumption DEF Fits
  <2>2. ep1' = [kind |-> "reply", n |-> Receive_Buffer.n, data |-> <<>>]
    BY <1>3, <2>1 DEF Reply, CDC_Send_DATA
  <2>3. /\ pc = "reply" /\ pc' = "clear"
        /\ UNCHANGED <<Receive_length, Receive_Buffer, sent, answered, handled>>
    BY <1>3 DEF Reply
  <2> QED
    BY <2>2, <2>3 DEF SlotInv, Waiting, Idle
<1>4. CASE Clear
  BY <1>4 DEF Clear, SlotInv, Waiting, Idle
<1> QED
  BY <1>1, <1>2, <1>3, <1>4

LEMMA SlotSend ==
  ASSUME SlotInv, SendError \/ Collect \/ Copy \/ SendBlock
  PROVE  SlotInv'
<1>1. ASSUME NEW p, p.kind # "reply", CDC_Send_DATA(p)
      PROVE  ep1' = ep1 \/ ep1'.kind # "reply"
  BY <1>1 DEF CDC_Send_DATA, transmit
<1>2. CASE SendError
  BY <1>1, <1>2, SlotKept DEF SendError, Free, Idle, receive
<1>3. CASE Collect \/ Copy
  BY <1>3, SlotKept DEF Collect, Copy, Free, Idle, receive, transmit
<1>4. CASE SendBlock
  BY <1>1, <1>4, SlotKept DEF SendBlock, Idle, receive
<1> QED
  BY <1>2, <1>3, <1>4

LEMMA SlotStep ==
  ASSUME Numbers, EndpointInv, Patient => SlotInv, [Next]_vars, Patient'
  PROVE  SlotInv'
<1>1. Patient /\ SlotInv
  <2>1. resets' = resets \/ resets' = resets + 1
    BY DEF Next, MainLoop, Host, vars, host, HostOut, HostIn, HostReset,
      HostConfigure, TIM2_IRQHandler, Arm, Busy, Decode, RegDone, InitRefused,
      InitExtDevice, Reply, Clear, SendError, Collect, Copy, SendBlock, Nothing
  <2>2. ~hasty' => ~hasty
    BY DEF Next, MainLoop, Host, vars, host, HostOut, HostIn, HostReset,
      HostConfigure, TIM2_IRQHandler, Arm, Busy, Decode, RegDone, InitRefused,
      InitExtDevice, Reply, Clear, SendError, Collect, Copy, SendBlock, Nothing
  <2> QED
    BY <2>1, <2>2 DEF Patient, Numbers
<1>2. CASE TIM2_IRQHandler \/ UNCHANGED vars
  BY <1>1, <1>2 DEF TIM2_IRQHandler, vars, receive, transmit, host, SlotInv,
     Waiting, Idle
<1>3. CASE Arm \/ Busy \/ Nothing
  BY <1>1, <1>3, SlotKept DEF Arm, Busy, Nothing, Free, Idle, receive, transmit
<1> QED
  BY <1>1, <1>2, <1>3, SlotHost, SlotCommand, SlotSend DEF Next, MainLoop

(***************************************************************************)
(* Any host.  A command that the loop has not taken up is younger than all *)
(* it has.                                                                 *)
(***************************************************************************)
Done(n) == \A i \in 1 .. Len(handled) : handled[i] < n

OnceInv ==
  /\ OnceInOrder
  /\ \A i \in 1 .. Len(handled) : handled[i] <= sent
  /\ Receive_Buffer.n <= sent
  /\ Idle /\ Receive_length => Done(Receive_Buffer.n)

\* The last command is decoded.
LEMMA OnceDecode == ASSUME Numbers, OnceInv, Decode PROVE OnceInv'
<1> DEFINE b == Receive_Buffer.n
           L == Len(handled)
<1>1. /\ handled' = Append(handled, b) /\ ~Idle' /\ Done(b)
      /\ UNCHANGED <<Receive_Buffer, sent>>
  BY DEF Decode, Free, Idle, OnceInv, receive, host
<1>2. b \in Nat /\ sent \in Nat /\ handled \in Seq(Nat)
  BY DEF Numbers
<1>3. /\ Len(handled') = L + 1
      /\ \A i \in 1 .. L : handled'[i] = handled[i]
      /\ handled'[L + 1] = b
  BY <1>1, <1>2, AppendProperties
<1>4. L \in Nat /\ b <= sent
  BY <1>2, LenProperties DEF OnceInv
<1>5. \A i \in 1 .. L : handled[i] < b /\ handled[i] <= sent
  BY <1>1 DEF OnceInv, Done
<1>6. \A i, j \in 1 .. L : i < j => handled[i] < handled[j]
  BY DEF OnceInv, OnceInOrder
<1> HIDE DEF b, L
<1>7. ASSUME NEW i \in 1 .. L + 1 PROVE handled'[i] <= sent
  BY <1>3, <1>4, <1>5
<1>8. ASSUME NEW i \in 1 .. L + 1, NEW j \in 1 .. L + 1, i < j
      PROVE  handled'[i] < handled'[j]
  <2>1. i \in 1 .. L /\ (j = L + 1 \/ j \in 1 .. L)
    BY <1>4, <1>8
  <2> QED
    BY <2>1, <1>3, <1>5, <1>6, <1>8
<1> QED
  BY <1>1, <1>3, <1>4, <1>7, <1>8 DEF OnceInv, OnceInOrder, b

\* The loop is elsewhere, or done with the command.
LEMMA OnceKept ==
  ASSUME OnceInv, UNCHANGED <<Receive_Buffer, sent, handled>>,
         \/ ~Receive_length' \/ ~Idle'
         \/ Idle /\ UNCHANGED Receive_length
  PROVE  OnceInv'
BY DEF OnceInv, OnceInOrder, Done

LEMMA OnceStep == ASSUME Numbers, OnceInv, [Next]_vars PROVE OnceInv'
<1> USE DEF receive, host
<1>1. ASSUME NEW kind, NEW c, HostOut(kind, c) PROVE OnceInv'
  <2>1. /\ Receive_Buffer'.n = sent + 1 /\ sent' = sent + 1
        /\ UNCHANGED handled
    BY <1>1 DEF HostOut
  <2>2. \A i \in 1 .. Len(handled) : handled[i] <= sent /\ handled[i] \in Nat
    BY ElementOfSeq DEF OnceInv, Numbers
  <2>3. \A i \in 1 .. Len(handled) : handled[i] < sent + 1 /\ handled[i] <= sent + 1
    BY <2>2 DEF Numbers
  <2> QED
    BY <2>1, <2>3 DEF Numbers, OnceInv, OnceInOrder, Done
<1>2. CASE HostIn \/ HostReset \/ HostConfigure \/ TIM2_IRQHandler \/ UNCHANGED vars
  <2>1. UNCHANGED <<Receive_Buffer, sent, handled, Receive_length, pc>>
    BY <1>2 DEF HostIn, HostReset, HostConfigure, TIM2_IRQHandler, vars
  <2> QED
    BY <2>1 DEF OnceInv, OnceInOrder, Done, Idle
<1>3. CASE RegDone \/ InitRefused \/ InitExtDevice \/ Reply
  BY <1>3, OnceKept DEF RegDone, InitRefused, InitExtDevice, Reply, Idle
<1>4. CASE Clear
  BY <1>4, OnceKept DEF Clear
<1>5. CASE Arm \/ Busy \/ Nothing \/ SendError \/ Collect \/ Copy \/ SendBlock
  BY <1>5, OnceKept
  DEF Arm, Busy, Nothing, SendError, Collect, Copy, SendBlock, Free, Idle
<1> QED
  BY <1>1, <1>2, <1>3, <1>4, <1>5, OnceDecode DEF Next, MainLoop, Host

(***************************************************************************)
(* Whenever the host sends, no command is decoded twice or after a later   *)
(* one.  A host that has sent each when the last was dealt with, which     *)
(* takes it longer than a statement of the loop, has lost none until the   *)
(* bus is reset, whatever is sampled and sent meanwhile.                   *)
(***************************************************************************)
THEOREM NoCommandIsLost == Spec => []NoCommandLost
<1>1. Init => CommandInv /\ OnceInv
  <2> SUFFICES ASSUME Init PROVE CommandInv /\ OnceInv
    OBVIOUS
  <2>1. Numbers /\ EndpointInv
    BY DEF Init, Numbers, EndpointInv
  <2>2. SlotInv
    BY DEF Init, SlotInv, Waiting, Idle, None
  <2>3. OnceInv
    BY DEF Init, OnceInv, OnceInOrder
  <2> QED
    BY <2>1, <2>2, <2>3 DEF CommandInv
<1>2. CommandInv /\ OnceInv /\ [Next]_vars => (CommandInv /\ OnceInv)'
  BY NumbersStep, EndpointStep, SlotStep, OnceStep DEF CommandInv
<1>3. CommandInv /\ OnceInv => NoCommandLost
  BY DEF CommandInv, OnceInv, Patient, SlotInv, NoCommandLost, EachDecoded
<1> QED
  BY <1>1, <1>2, <1>3, PTL DEF Spec

-----------------------------------------------------------------------------
(***************************************************************************)
(* What is in the samples.                                                 *)
(***************************************************************************)

\* The slot d places behind the read index.
Place(d) == (i2c_buf_rd + d) % BufSize

\* The samples that wait follow those of the block; only the last of them
\* may be one that was not read, and then the timer stands.
RingInv ==
  Measuring =>
    \A d \in 0 .. Pending - 1 :
      /\ i2c_buf[Place(d)].seq = all_rd_count + InBlock + d
      /\ timer \/ d + 1 < Pending => i2c_buf[Place(d)].good = TRUE

\* The block being copied is the run of samples after those sent.
CopiedInv ==
  pc = "copy" =>
    \A i \in 1 .. Len(send_pkt) :
      send_pkt[i] = [seq |-> all_rd_count + i - 1, good |-> TRUE]

SampleInv ==
  /\ TypeInv /\ EndpointInv /\ AccountInv /\ CountedIsSent
  /\ RingInv /\ CopiedInv /\ GoodSamples

LEMMA PlaceBounds ==
  ASSUME TypeOK, NEW d \in Nat PROVE Place(d) \in Slot
BY SizesAssumption DEF TypeOK, Place, Slot

\* A ring counts on: the place after the last that waits is the one written.
LEMMA PlaceWritten ==
  ASSUME NEW w \in Slot, NEW r \in Slot,
         NEW d \in 0 .. (w + BufSize - r) % BufSize
  PROVE  (r + d) % BufSize = w <=> d = (w + BufSize - r) % BufSize
<1>1. w \in Nat /\ r \in Nat /\ w < BufSize /\ r < BufSize /\ BufSize \in Nat
  BY SizesAssumption DEF Slot
<1>2. CASE w >= r
  <2>1. (w + BufSize - r) % BufSize = w - r
    BY <1>1, <1>2
  <2>2. (r + d) % BufSize = r + d
    BY <1>1, <1>2, <2>1
  <2> QED
    BY <1>1, <2>1, <2>2
<1>3. CASE w < r
  <2>1. (w + BufSize - r) % BufSize = w + BufSize - r
    BY <1>1, <1>3
  <2>2. (r + d) % BufSize = IF r + d < BufSize THEN r + d ELSE r + d - BufSize
    BY <1>1, <1>3, <2>1
  <2> QED
    BY <1>1, <1>3, <2>1, <2>2
<1> QED
  BY <1>1, <1>2, <1>3

LEMMA PlaceNext ==
  ASSUME NEW r \in Slot, NEW d \in 0 .. BufSize - 2
  PROVE  (Succ(r) + d) % BufSize = (r + (d + 1)) % BufSize
<1>1. r \in Nat /\ r < BufSize /\ BufSize \in Nat /\ d \in Nat
  BY SizesAssumption DEF Slot
<1>2. CASE r + 1 < BufSize
  <2>1. Succ(r) = r + 1
    BY <1>1, <1>2 DEF Succ
  <2> QED
    BY <1>1, <2>1
<1>3. CASE r + 1 = BufSize
  <2>1. Succ(r) = 0
    BY <1>1, <1>3 DEF Succ
  <2>2. (0 + d) % BufSize = d
    BY <1>1
  <2>3. (r + (d + 1)) % BufSize = d
    BY <1>1, <1>3
  <2> QED
    BY <2>1, <2>2, <2>3
<1> QED
  BY <1>1, <1>2, <1>3

\* A step that samples nothing and is not about a block.
LEMMA RingKept ==
  ASSUME RingInv, CopiedInv,
         pc' \in {"start", pc} \/ pc # "start",
         pc = "copy" <=> pc' = "copy",
         UNCHANGED <<cfg_i2c, timer, i2c_buf, i2c_buf_wr, i2c_buf_rd,
                     all_rd_count, send_pkt>>
  PROVE  RingInv' /\ CopiedInv'
BY DEF RingInv, CopiedInv, Measuring, InBlock, Pending, Place

LEMMA RingTick ==
  ASSUME SampleInv, TIM2_IRQHandler
  PROVE  RingInv' /\ CopiedInv'
<1>1. PICK ok \in BOOLEAN : GetNewRegData(ok)
  BY DEF TIM2_IRQHandler
<1>2. /\ i2c_buf_wr' = Succ(i2c_buf_wr)
      /\ i2c_buf' = [i2c_buf EXCEPT ![i2c_buf_wr] = [seq |-> taken, good |-> ok]]
      /\ UNCHANGED <<cfg_i2c, i2c_buf_rd, all_rd_count, pc, send_pkt>>
      /\ timer
  BY <1>1 DEF TIM2_IRQHandler, GetNewRegData
<1>6. timer' => ok = TRUE
  BY <1>1 DEF GetNewRegData, ReadFails
<1>3. CopiedInv'
  BY <1>2 DEF SampleInv, CopiedInv
<1>4. ASSUME Measuring PROVE RingInv'
  <2>1. TypeOK /\ AccountInv /\ RingInv /\ AccountInv'
    BY AccountTick DEF SampleInv, TypeInv
  <2>2. Measuring' /\ InBlock' = InBlock /\ InBlock \in Nat
    BY <1>2, <1>4, <2>1 DEF Measuring, InBlock, TypeOK
  <2>3. taken = all_rd_count + InBlock + Pending
    BY <1>4, <2>1 DEF AccountInv, TakenIsCounted
  <2>4. Pending' = Pending + 1
    BY <1>4, <2>1, PendingGrows
  <2>5. SUFFICES ASSUME NEW d \in 0 .. Pending
                 PROVE  /\ i2c_buf'[Place(d)].seq = all_rd_count + InBlock + d
                        /\ timer' \/ d < Pending => i2c_buf'[Place(d)].good = TRUE
    <3>1. Pending \in Nat /\ 0 .. Pending' - 1 = 0 .. Pending
      BY <2>1, <2>4, PendingBounds
    <3>2. \A d \in 0 .. Pending : d + 1 < Pending' <=> d < Pending
      BY <2>4, <3>1
    <3>3. \A d \in 0 .. Pending : Place(d)' = Place(d)
      BY <1>2 DEF Place
    <3> QED
      BY <1>2, <2>2, <3>1, <3>2, <3>3 DEF RingInv
  <2>6. d \in Nat /\ Pending \in Nat /\ Place(d) \in Slot
    BY <2>1, PendingBounds, PlaceBounds
  <2>7. Place(d) = i2c_buf_wr <=> d = Pending
    BY <2>1, PlaceWritten DEF TypeOK, Place, Pending
  <2>8. CASE d = Pending
    <3>1. i2c_buf'[Place(d)] = [seq |-> taken, good |-> ok]
      BY <1>2, <2>1, <2>6, <2>7, <2>8 DEF TypeOK
    <3> QED
      BY <1>6, <2>3, <2>8, <2>6, <3>1
  <2>9. CASE d # Pending
    <3>1. i2c_buf'[Place(d)] = i2c_buf[Place(d)]
      BY <1>2, <2>1, <2>6, <2>7, <2>9 DEF TypeOK
    <3>2. d \in 0 .. Pending - 1
      BY <2>6, <2>9
    <3> QED
      BY <1>2, <1>4, <2>1, <3>1, <3>2 DEF RingInv
  <2> QED
    BY <2>8, <2>9
<1>5. ASSUME ~Measuring PROVE RingInv'
  BY <1>2, <1>5 DEF RingInv, Measuring
<1> QED
  BY <1>3, <1>4, <1>5

LEMMA RingSetUp ==
  ASSUME SampleInv, Decode \/ RegDone \/ InitRefused \/ InitExtDevice
  PROVE  RingInv' /\ CopiedInv'
<1>1. cfg_i2c.pktcnt \in Nat /\ cfg_i2c \in Config
  BY DEF SampleInv, TypeInv, TypeOK, Config
<1>2. CASE Decode
  <2>1. CASE pc' = "start"
    BY <2>1 DEF RingInv, CopiedInv, Measuring
  <2>2. CASE pc' # "start"
    BY <1>2, <2>2, RingKept DEF Decode, Free, SampleInv
  <2> QED
    BY <2>1, <2>2
<1>3. CASE RegDone
  BY <1>3, RingKept DEF RegDone, SampleInv
<1>4. CASE InitRefused
  <2>1. cfg_i2c'.pktcnt = 0 /\ pc' = "reply"
    BY <1>1, <1>4 DEF InitRefused, Config
  <2> QED
    BY <2>1 DEF RingInv, CopiedInv, Measuring
<1>5. CASE InitExtDevice
  <2>1. i2c_buf_wr' = 0 /\ i2c_buf_rd' = 0 /\ pc' = "reply"
    BY <1>5 DEF InitExtDevice, FlushI2CBuf
  <2>2. Pending' = 0
    BY <2>1, SizesAssumption DEF Pending
  <2> QED
    BY <2>1, <2>2 DEF RingInv, CopiedInv
<1> QED
  BY <1>2, <1>3, <1>4, <1>5

LEMMA RingBlock ==
  ASSUME SampleInv, Collect \/ Copy \/ SendBlock
  PROVE  RingInv' /\ CopiedInv'
<1>1. /\ TypeOK /\ RingInv /\ CopiedInv /\ CopyInv
      /\ cfg_i2c.pktcnt \in Nat /\ all_rd_count \in Nat
      /\ send_pkt \in Seq(Sample) /\ Len(send_pkt) \in Nat
  BY DEF SampleInv, TypeInv, TypeOK, AccountInv, Config
<1>2. CASE Collect
  <2>1. /\ send_pkt' = <<>> /\ pc = "look" /\ pc' = "copy"
        /\ UNCHANGED <<cfg_i2c, timer, i2c_buf, i2c_buf_wr, i2c_buf_rd, all_rd_count>>
    BY <1>2 DEF Collect, Free, sampling
  <2>2. Len(send_pkt') = 0
    BY <2>1
  <2> QED
    BY <1>1, <2>1, <2>2
    DEF RingInv, CopiedInv, Measuring, InBlock, Pending, Place
<1>3. CASE Copy
  <2> DEFINE n == Len(send_pkt)
             first == i2c_buf[Place(0)]
  <2>1. /\ i2c_buf_rd' = Succ(i2c_buf_rd) /\ pc = "copy"
        /\ n < cfg_i2c.pktcnt
        /\ send_pkt' = Append(send_pkt, i2c_buf[i2c_buf_rd])
        /\ UNCHANGED <<pc, cfg_i2c, timer, i2c_buf, i2c_buf_wr, all_rd_count>>
    BY <1>3 DEF Copy
  <2>2. Measuring /\ Pending > 1 /\ Pending \in 0 .. BufSize - 1
    BY <1>1, <2>1, PendingBounds DEF CopyInv, Measuring
  <2>3. Place(0) = i2c_buf_rd
    <3>1. i2c_buf_rd \in 0 .. BufSize - 1
      BY <1>1 DEF TypeOK, Slot
    <3>2. (i2c_buf_rd + 0) % BufSize = i2c_buf_rd
      BY <3>1, SizesAssumption
    <3> QED
      BY <3>2 DEF Place
  <2>4. first \in Sample /\ first.seq = all_rd_count + n /\ first.good = TRUE
    BY <1>1, <2>1, <2>2, <2>3 DEF RingInv, InBlock, TypeOK
  <2>5. first = [seq |-> all_rd_count + n, good |-> TRUE]
    BY <2>4 DEF Sample
  <2>6. /\ Len(send_pkt') = n + 1
        /\ \A i \in 1 .. n : send_pkt'[i] = send_pkt[i]
        /\ send_pkt'[n + 1] = first
    BY <1>1, <2>1, <2>3, <2>4, AppendProperties
  <2>7. CopiedInv'
    <3>1. ASSUME NEW i \in 1 .. Len(send_pkt')
          PROVE  send_pkt'[i] = [seq |-> all_rd_count' + i - 1, good |-> TRUE]
      <4>1. CASE i \in 1 .. n
        BY <1>1, <2>1, <2>6, <4>1 DEF CopiedInv
      <4>2. CASE i = n + 1
        <5>1. all_rd_count + i - 1 = all_rd_count + n
          BY <1>1, <4>2
        <5> QED
          BY <2>1, <2>5, <2>6, <4>2, <5>1
      <4> QED
        BY <1>1, <2>6, <3>1, <4>1, <4>2
    <3> QED
      BY <3>1 DEF CopiedInv
  <2>8. Pending' = Pending - 1
    BY <1>1, <2>1, <2>2, PendingCopy
  <2>9. ASSUME NEW d \in 0 .. Pending - 2
        PROVE  Place(d)' = Place(d + 1)
    <3>1. d \in 0 .. BufSize - 2
      BY <2>2, <2>9, SizesAssumption
    <3>2. i2c_buf_rd \in Slot
      BY <1>1 DEF TypeOK
    <3>3. (Succ(i2c_buf_rd) + d) % BufSize = (i2c_buf_rd + (d + 1)) % BufSize
      BY <3>1, <3>2, PlaceNext
    <3> QED
      BY <2>1, <3>3 DEF Place
  <2>10. InBlock = n /\ InBlock' = n + 1 /\ Measuring'
    BY <2>1, <2>2, <2>6 DEF InBlock, Measuring
  <2>11. ASSUME NEW d \in 0 .. Pending - 2
         PROVE  /\ i2c_buf'[Place(d)'].seq = all_rd_count' + InBlock' + d
                /\ timer' \/ d + 1 < Pending' => i2c_buf'[Place(d)'].good = TRUE
    <3>1. d + 1 \in 0 .. Pending - 1
      BY <2>2, <2>11
    <3>2. /\ i2c_buf[Place(d + 1)].seq = all_rd_count + InBlock + (d + 1)
          /\ timer \/ (d + 1) + 1 < Pending => i2c_buf[Place(d + 1)].good = TRUE
      BY <1>1, <2>2, <3>1 DEF RingInv
    <3>3. Place(d)' = Place(d + 1)
      BY <2>9
    <3>4. all_rd_count' + InBlock' + d = all_rd_count + InBlock + (d + 1)
      BY <1>1, <2>1, <2>2, <2>10
    <3>5. d + 1 < Pending' <=> (d + 1) + 1 < Pending
      BY <2>2, <2>8
    <3> QED
      BY <2>1, <3>2, <3>3, <3>4, <3>5
  <2>12. 0 .. Pending' - 1 = 0 .. Pending - 2
    BY <2>2, <2>8
  <2>13. RingInv'
    BY <2>11, <2>12 DEF RingInv
  <2> QED
    BY <2>7, <2>13
<1>4. CASE SendBlock
  <2>1. /\ pc = "copy" /\ pc' = "arm"
        /\ Len(send_pkt) = cfg_i2c.pktcnt
        /\ all_rd_count' = all_rd_count + cfg_i2c.pktcnt
        /\ UNCHANGED <<cfg_i2c, timer, i2c_buf, i2c_buf_wr, i2c_buf_rd>>
    BY <1>4 DEF SendBlock
  <2>2. UNCHANGED <<Pending, Measuring>> /\ \A d : Place(d)' = Place(d)
    BY <2>1 DEF Pending, Measuring, Place
  <2>3. all_rd_count + InBlock = all_rd_count' + InBlock'
    BY <1>1, <2>1 DEF InBlock
  <2> QED
    BY <1>1, <2>1, <2>2, <2>3 DEF RingInv, CopiedInv
<1> QED
  BY <1>2, <1>3, <1>4

LEMMA RingStep ==
  ASSUME SampleInv, [Next]_vars
  PROVE  RingInv' /\ CopiedInv'
<1>1. RingInv /\ CopiedInv
  BY DEF SampleInv
<1>2. CASE Host
  BY <1>1, <1>2, RingKept
  DEF Host, HostOut, HostIn, HostReset, HostConfigure, sampling
<1>3. CASE Arm \/ Busy \/ Nothing
  BY <1>1, <1>3, RingKept DEF Arm, Busy, Nothing, Free, sampling
<1>4. CASE Reply \/ Clear \/ SendError
  BY <1>1, <1>4, RingKept DEF Reply, Clear, SendError, Free, sampling
<1>5. CASE UNCHANGED vars
  BY <1>1, <1>5, RingKept DEF vars, sampling
<1> QED
  BY <1>2, <1>3, <1>4, <1>5, RingTick, RingSetUp, RingBlock DEF Next, MainLoop

\* The count of samples given starts anew only while the endpoint is empty.
LEMMA GoodStep ==
  ASSUME SampleInv, [Next]_vars
  PROVE  GoodSamples'
<1>1. GoodSamples /\ EndpointInv
  BY DEF SampleInv
<1>2. ASSUME ep1' = None PROVE GoodSamples'
  BY <1>2 DEF None, GoodSamples
<1>3. ASSUME UNCHANGED <<ep1, given>> PROVE GoodSamples'
  BY <1>1, <1>3 DEF GoodSamples
<1>4. ASSUME NEW p, p.kind # "block", CDC_Send_DATA(p), UNCHANGED given
      PROVE  GoodSamples'
  BY <1>1, <1>4 DEF GoodSamples, CDC_Send_DATA, transmit
<1>5. CASE TIM2_IRQHandler
  BY <1>3, <1>5 DEF TIM2_IRQHandler, transmit
<1>6. CASE Host
  BY <1>2, <1>3, <1>6 DEF Host, HostOut, HostIn, HostReset, HostConfigure,
     sampling, transmit
<1>7. CASE Decode \/ RegDone \/ InitRefused
  BY <1>3, <1>7 DEF Decode, RegDone, InitRefused, transmit
<1>8. CASE InitExtDevice
  BY <1>1, <1>2, <1>8 DEF InitExtDevice, EndpointInv, transmit
<1>9. CASE Arm \/ Busy \/ Clear \/ Nothing \/ Collect \/ Copy
  BY <1>3, <1>9 DEF Arm, Busy, Clear, Nothing, Collect, Copy, sampling, transmit
<1>10. CASE Reply \/ SendError
  BY <1>4, <1>10 DEF Reply, SendError, sampling
<1>11. CASE SendBlock
  <2>1. /\ pc = "copy" /\ Len(send_pkt) = cfg_i2c.pktcnt /\ Fits(send_pkt)
        /\ given \in Nat /\ cfg_i2c.pktcnt \in Nat
    BY <1>11 DEF SendBlock, Fits, SampleInv, TypeInv, TypeOK, Config
  <2>2. /\ ep1' = [kind |-> "block", n |-> 0, data |-> send_pkt]
        /\ given' = given + cfg_i2c.pktcnt
    BY <1>11, <2>1 DEF SendBlock, CDC_Send_DATA
  <2>3. given = all_rd_count
    BY <2>1 DEF SampleInv, AccountInv, CopyInv, CountedIsSent, Measuring
  <2>4. \A i \in 1 .. Len(send_pkt) :
          send_pkt[i] = [seq |-> all_rd_count + i - 1, good |-> TRUE]
    BY <2>1 DEF SampleInv, CopiedInv
  <2>5. given' - Len(ep1'.data) = given
    BY <2>1, <2>2
  <2> QED
    BY <2>2, <2>3, <2>4, <2>5 DEF GoodSamples
<1>12. CASE UNCHANGED vars
  BY <1>3, <1>12 DEF vars, sampling, transmit
<1> QED
  BY <1>5, <1>6, <1>7, <1>8, <1>9, <1>10, <1>11, <1>12 DEF Next, MainLoop

(***************************************************************************)
(* If the host fetches its blocks before the ring is full, every block is  *)
(* the run of samples after the one before, and holds no slot of a read    *)
(* that failed.                                                            *)
(***************************************************************************)
THEOREM BlocksAreGood ==
  ASSUME ShortBlocks, FetchedInTime
  PROVE  Spec => []GoodSamples
<1>1. Init => SampleInv
  <2> SUFFICES ASSUME Init PROVE SampleInv
    OBVIOUS
  <2>1. TypeInv
    BY TypeInit
  <2>2. EndpointInv /\ CountedIsSent
    BY DEF Init, EndpointInv, CountedIsSent
  <2>3. AccountInv
    BY DEF Init, AccountInv, TakenIsCounted, CopyInv, LagInv, InTime, Measuring, Quiet
  <2>4. RingInv /\ CopiedInv /\ GoodSamples
    BY DEF Init, RingInv, CopiedInv, GoodSamples, Measuring, Quiet, None
  <2> QED
    BY <2>1, <2>2, <2>3, <2>4 DEF SampleInv
<1>2. SampleInv /\ [Next]_vars => SampleInv'
  BY TypeStep, EndpointStep, AccountStep, CountStep, RingStep, GoodStep DEF SampleInv
<1>3. SampleInv => GoodSamples
  BY DEF SampleInv
<1> QED
  BY <1>1, <1>2, <1>3, PTL DEF Spec

=============================================================================
