--------------------------- MODULE BleLink_proofs ---------------------------
(***************************************************************************)
(* Theorems about BleLink for every size of the FIFO, of the notifications *)
(* and packets, and of what is sent, and any number of connections.        *)
(***************************************************************************)
EXTENDS BleLink, SequenceTheorems, TLAPS

-----------------------------------------------------------------------------
(***************************************************************************)
(* Commands of lost connections.  A command of a BLE client is of the      *)
(* present connection, or of one that ended with notifications off, from   *)
(* the moment its callback looks at the slot to the moment it is carried   *)
(* out: connections come and go only between two handlers, and when one    *)
(* goes with notifications on, the power-off command takes the place of    *)
(* what is in the slot.                                                    *)
(***************************************************************************)
SlotInv == MayRun(app_cmd_buf)
HandlerInv == pc \in {"copy", "decode"} => MayRun(rx)

LinkInv ==
  /\ app_cmd_buf \in Command
  /\ rx \in Command
  /\ link \in Nat
  /\ SlotInv
  /\ HandlerInv

LEMMA LinkInit == Init => LinkInv
BY DEF Init, LinkInv, SlotInv, HandlerInv, MayRun, NoCommand, Command, Op

\* What a host asks for is a command, of the transport that brought it.
LEMMA FromCommand ==
  ASSUME NEW req \in Request, NEW by \in {"usb", "ble", "dev"}, NEW l \in Nat
  PROVE  /\ From(req, by, l) \in Command
         /\ From(req, by, l).by = by
         /\ From(req, by, l).link = l
BY DEF From, Request, Command, Op

LEMMA LinkStep == LinkInv /\ [Next]_vars => LinkInv'
<1> SUFFICES ASSUME LinkInv, [Next]_vars PROVE LinkInv'
  OBVIOUS
<1> USE DEF LinkInv, SlotInv, HandlerInv, MayRun
<1>1. ASSUME NEW req \in Request, UsbCommand(req) PROVE LinkInv'
  BY <1>1, FromCommand DEF UsbCommand, radio, history
<1>2. ASSUME NEW dtr \in BOOLEAN, UsbLineState(dtr) PROVE LinkInv'
  <2>1. [op |-> "pwr", arg |-> dtr] \in Request
    BY DEF Request
  <2> QED
    BY <1>2, <2>1, FromCommand DEF UsbLineState, radio, history
<1>3. ASSUME NEW req \in Request, BleWrite(req) PROVE LinkInv'
  BY <1>3, FromCommand DEF BleWrite, slot, radio, history
<1>4. CASE BleCopy
  BY <1>4 DEF BleCopy, radio, history
<1>5. CASE Peripheral_LinkEstablished
  BY <1>5 DEF Peripheral_LinkEstablished, slot
<1>6. CASE Peripheral_LinkTerminated
  <2>1. [op |-> "pwr", arg |-> app_cmd_buf.arg] \in Request
    BY DEF Request, Command
  <2>2. From([op |-> "pwr", arg |-> app_cmd_buf.arg], "dev", link) \in Command
    BY <2>1, FromCommand
  <2>3. From([op |-> "pwr", arg |-> app_cmd_buf.arg], "dev", link).by = "dev"
    BY <2>1, FromCommand
  <2>4. CASE ble_enable
    BY <1>6, <2>2, <2>3, <2>4 DEF Peripheral_LinkTerminated
  <2>5. CASE ~ble_enable
    BY <1>6, <2>5 DEF Peripheral_LinkTerminated
  <2> QED
    BY <2>4, <2>5
<1>7. CASE PowerOffArg
  BY <1>7 DEF PowerOffArg, radio, history, Command
<1>8. CASE ProcessCommand
  BY <1>8 DEF ProcessCommand, radio, history
<1>9. CASE Decode \/ ClearCommand
  BY <1>9 DEF Decode, ClearCommand, slot, radio, history
<1>10. CASE \/ (\E mtu \in Mtus : MtuUpdated(mtu))
            \/ CccOn \/ CccOff \/ PowerOffLen \/ I2CDevTask
            \/ ble_cmd_notify \/ USBSendData \/ UsbIn
  BY <1>10 DEF MtuUpdated, CccOn, CccOff, PowerOffLen,
               I2CDevTask, ble_cmd_notify, USBSendData, UsbIn, slot, radio, history
<1>11. CASE UNCHANGED vars
  BY <1>11 DEF vars, slot, radio, history
<1> QED
  BY <1>1, <1>2, <1>3, <1>4, <1>5, <1>6, <1>7, <1>8, <1>9, <1>10, <1>11
  DEF Next, MainThread, UsbHost

\* However the USB interrupt and the callbacks meet: a command that a BLE
\* client has written is carried out while its connection lasts, or after a
\* connection that ended with notifications off, and then only until one ends
\* with them on.
THEOREM NoCommandOutlives == Spec => []NoLateCommand
<1>1. LinkInv => NoLateCommand
  BY DEF LinkInv, HandlerInv, NoLateCommand
<1> QED
  BY LinkInit, LinkStep, <1>1, PTL DEF Spec

-----------------------------------------------------------------------------
(***************************************************************************)
(* The stream of bytes.  The FIFO holds the bytes from base + 1 to         *)
(* written, in order: writing appends the next ones, sending takes a       *)
(* piece from the head, a flush writes off all of them.                    *)
(***************************************************************************)
StreamInv ==
  /\ app_tx_fifo \in Seq(Byte)
  /\ written \in Nat
  /\ base \in Nat
  /\ peripheralMTU \in Nat \ {0}
  /\ StreamContinues

\* What an action leaves alone when it leaves the stream alone.
LEMMA StreamUnchanged ==
  ASSUME StreamInv, peripheralMTU' \in Nat \ {0}, UNCHANGED <<stream, gap>>
  PROVE  StreamInv'
BY DEF StreamInv, StreamContinues, stream

LEMMA Lengths ==
  /\ ReplyLen \in Nat /\ BlockLen \in Nat /\ ErrorLen \in Nat
  /\ AppMtu \in Nat \ {0} /\ Packet \in Nat \ {0}
BY LenAssumption DEF ErrorLen

LEMMA BlockBytes ==
  ASSUME NEW kind \in Kind, NEW len \in Nat, written \in Nat
  PROVE  /\ Block(kind, len) \in Seq(Byte)
         /\ Len(Block(kind, len)) = len
         /\ \A k \in 1 .. len : Block(kind, len)[k].n = written + k
<1> DEFINE B == Block(kind, len)
<1>1. \A k \in 1 .. len : /\ B[k] \in Byte
                          /\ B[k].n = written + k
  BY DEF Block, Byte
<1>2. B = [k \in 1 .. len |-> B[k]] /\ DOMAIN B = 1 .. len
  BY DEF Block
<1>3. B \in [1 .. len -> Byte]
  BY <1>1, <1>2
<1>4. B \in Seq(Byte)
  BY <1>3, SeqDef
<1>5. Len(B) = len
  BY <1>2, <1>4, LenProperties
<1> QED
  BY <1>1, <1>4, <1>5

LEMMA PutContinues ==
  ASSUME StreamInv, NEW kind \in Kind, NEW len \in Nat, Put(kind, len),
         UNCHANGED <<peripheralMTU, gap>>
  PROVE  StreamInv'
<1> DEFINE B == Block(kind, len)
           f == app_tx_fifo \o B
<1> USE DEF StreamInv, StreamContinues
<1>0. app_tx_fifo \in Seq(Byte)
  OBVIOUS
<1>1. /\ B \in Seq(Byte)
      /\ Len(B) = len
      /\ \A k \in 1 .. len : B[k].n = written + k
  BY BlockBytes
<1> HIDE DEF B, StreamInv, StreamContinues
<1>2. /\ f \in Seq(Byte)
      /\ Len(f) = Len(app_tx_fifo) + len
      /\ \A i \in 1 .. Len(app_tx_fifo) + len :
           f[i] = IF i <= Len(app_tx_fifo) THEN app_tx_fifo[i] ELSE B[i - Len(app_tx_fifo)]
  BY <1>0, <1>1, ConcatProperties
<1> USE DEF StreamInv, StreamContinues
<1>3. app_tx_fifo' = f /\ written' = written + len /\ base' = base
  BY DEF Put, B
<1>4. \A i \in 1 .. Len(f) : f[i].n = base + i
  <2> SUFFICES ASSUME NEW i \in 1 .. Len(f) PROVE f[i].n = base + i
    OBVIOUS
  <2>1. Len(app_tx_fifo) = written - base /\ Len(app_tx_fifo) \in Nat
    BY LenProperties
  <2>2. CASE i <= Len(app_tx_fifo)
    BY <2>1, <2>2, <1>2
  <2>3. CASE i > Len(app_tx_fifo)
    <3>1. i - Len(app_tx_fifo) \in 1 .. len
      BY <2>1, <2>3, <1>2
    <3>2. f[i] = B[i - Len(app_tx_fifo)]
      BY <2>1, <2>3, <1>2
    <3> HIDE DEF f
    <3> QED
      BY <3>1, <3>2, <2>1, <1>1
  <2> QED
    BY <2>1, <2>2, <2>3
<1>5. Len(f) = written' - base'
  BY <1>2, <1>3, LenProperties
<1> HIDE DEF f
<1> QED
  BY <1>2, <1>3, <1>4, <1>5

LEMMA FlushContinues ==
  ASSUME StreamInv, Flush, peripheralMTU' \in Nat \ {0}, UNCHANGED gap
  PROVE  StreamInv'
BY EmptySeq DEF StreamInv, StreamContinues, Flush

\* A piece from the head of the FIFO goes out.
LEMMA SentContinues ==
  ASSUME StreamInv, NEW max \in Nat \ {0}, app_tx_fifo # <<>>,
         Sent(Chunk(max)), UNCHANGED peripheralMTU
  PROVE  StreamInv'
<1> DEFINE q == app_tx_fifo
           n == IF Len(q) > max THEN max ELSE Len(q)
           s == SubSeq(q, 1, n)
           t == SubSeq(q, n + 1, Len(q))
<1> USE DEF StreamInv, StreamContinues
<1>1. Len(q) \in Nat \ {0} /\ Len(q) = written - base
  BY EmptySeq
<1>2. n \in 1 .. Len(q)
  BY <1>1
<1> HIDE DEF n
<1>3. \A i \in 1 .. Len(q) : q[i] \in Byte /\ q[i].n = base + i
  BY ElementOfSeq
<1>4. /\ s \in Seq(Byte)
      /\ Len(s) = n
      /\ \A i \in 1 .. n : s[i] = q[i]
  BY <1>1, <1>2, <1>3, SubSeqProperties
<1>5. /\ t \in Seq(Byte)
      /\ Len(t) = Len(q) - n
      /\ \A i \in 1 .. Len(q) - n : t[i] = q[n + i]
  <2>1. \A i \in n + 1 .. Len(q) : q[i] \in Byte
    BY <1>1, <1>2, <1>3
  <2>2. /\ t \in Seq(Byte)
        /\ Len(t) = IF n + 1 <= Len(q) THEN Len(q) - (n + 1) + 1 ELSE 0
        /\ \A i \in 1 .. Len(q) - (n + 1) + 1 : t[i] = q[n + 1 + i - 1]
    BY <1>1, <1>2, <2>1, SubSeqProperties
  <2> HIDE DEF t
  <2>3. Len(t) = Len(q) - n
    BY <1>1, <1>2, <2>2
  <2>4. ASSUME NEW i \in 1 .. Len(q) - n PROVE t[i] = q[n + i]
    <3>1. i \in 1 .. Len(q) - (n + 1) + 1 /\ n + 1 + i - 1 = n + i
      BY <1>1, <1>2
    <3> QED
      BY <2>2, <3>1
  <2> QED
    BY <2>2, <2>3, <2>4
<1>6. Chunk(max) = s
  BY DEF Chunk, n
<1>7. Head(s) = q[1] /\ Last(s) = q[n]
  BY <1>2, <1>4 DEF Last
<1>8. Head(s).n = base + 1 /\ Last(s).n = base + n
  BY <1>1, <1>2, <1>3, <1>7
<1>9. app_tx_fifo' = t /\ base' = base + n /\ gap' = FALSE /\ written' = written
  BY <1>4, <1>6, <1>8 DEF Sent
<1>10. \A i \in 1 .. Len(t) : t[i].n = base' + i
  BY <1>1, <1>2, <1>3, <1>5, <1>9
<1>11. Len(t) = written' - base'
  BY <1>1, <1>2, <1>5, <1>9
<1> HIDE DEF q, t
<1> QED
  BY <1>1, <1>2, <1>5, <1>9, <1>10, <1>11

LEMMA StreamInit == Init => StreamInv
BY Lengths, EmptySeq DEF Init, StreamInv, StreamContinues

\* A task that finds no room writes the report where the FIFO was.
LEMMA OverflowContinues ==
  ASSUME StreamInv, Overflow, UNCHANGED <<peripheralMTU, gap>>
  PROVE  StreamInv'
<1> DEFINE B == Block("error", ErrorLen)
<1>1. /\ B \in Seq(Byte)
      /\ Len(B) = ErrorLen
      /\ \A k \in 1 .. ErrorLen : B[k].n = written + k
  BY BlockBytes, Lengths DEF StreamInv, Kind
<1>2. app_tx_fifo' = B /\ base' = written /\ written' = written + ErrorLen
  BY DEF Overflow
<1> HIDE DEF B
<1> QED
  BY <1>1, <1>2, Lengths DEF StreamInv, StreamContinues

LEMMA StreamStep == StreamInv /\ [Next]_vars => StreamInv'
<1> SUFFICES ASSUME StreamInv, [Next]_vars PROVE StreamInv'
  OBVIOUS
<1>0. peripheralMTU \in Nat \ {0}
  BY DEF StreamInv
<1>1. CASE \/ \E req \in Request : UsbCommand(req) \/ BleWrite(req)
           \/ \E dtr \in BOOLEAN : UsbLineState(dtr)
           \/ UsbIn \/ BleCopy \/ PowerOffArg \/ PowerOffLen
           \/ ProcessCommand \/ ClearCommand
  BY <1>0, <1>1, StreamUnchanged
  DEF UsbCommand, BleWrite, UsbLineState, UsbIn, BleCopy, PowerOffArg, PowerOffLen,
      ProcessCommand, ClearCommand, radio, history
<1>2. CASE Peripheral_LinkEstablished
  BY <1>2, StreamUnchanged, Lengths DEF Peripheral_LinkEstablished, history
<1>3. ASSUME NEW mtu \in Mtus, MtuUpdated(mtu) PROVE StreamInv'
  BY <1>3, StreamUnchanged, LenAssumption DEF MtuUpdated, history
<1>4. CASE CccOn
  BY <1>0, <1>4, FlushContinues DEF CccOn, history
<1>5. CASE CccOff
  BY <1>0, <1>5, StreamUnchanged DEF CccOff
<1>6. CASE Peripheral_LinkTerminated
  <2>1. UNCHANGED <<peripheralMTU, gap>> /\ (Flush \/ UNCHANGED stream)
    BY <1>6 DEF Peripheral_LinkTerminated
  <2> QED
    BY <1>0, <2>1, FlushContinues, StreamUnchanged
<1>7. CASE Decode
  <2>1. UNCHANGED <<peripheralMTU, gap>> /\ (Put("reply", ReplyLen) \/ UNCHANGED stream)
    BY <1>7 DEF Decode, Reply, radio
  <2> QED
    BY <1>0, <2>1, PutContinues, StreamUnchanged, Lengths DEF Kind
<1>8. CASE I2CDevTask
  <2>1. /\ UNCHANGED <<peripheralMTU, gap>>
        /\ Put("data", BlockLen) \/ Overflow \/ UNCHANGED stream
    BY <1>8 DEF I2CDevTask, radio
  <2> QED
    BY <1>0, <2>1, PutContinues, OverflowContinues, StreamUnchanged, Lengths DEF Kind
<1>9. CASE ble_cmd_notify
  BY <1>0, <1>9, SentContinues DEF ble_cmd_notify, radio
<1>10. CASE USBSendData
  BY <1>10, SentContinues, Lengths DEF USBSendData, radio
<1>11. CASE UNCHANGED vars
  BY <1>0, <1>11, StreamUnchanged DEF vars, radio, history
<1> QED
  BY <1>1, <1>2, <1>3, <1>4, <1>5, <1>6, <1>7, <1>8, <1>9, <1>10, <1>11
  DEF Next, MainThread, UsbHost

\* Whatever the radio refuses, and however the FIFO changes hands between
\* the two hosts: no byte is sent twice or left out, and a client is sent
\* nothing that was written before it turned notifications on.
THEOREM StreamIsContinuous == Spec => []StreamContinues
<1>1. StreamInv => StreamContinues
  BY DEF StreamInv
<1> QED
  BY StreamInit, StreamStep, <1>1, PTL DEF Spec
=============================================================================
