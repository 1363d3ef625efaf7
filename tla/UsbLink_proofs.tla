--------------------------- MODULE UsbLink_proofs ---------------------------
(***************************************************************************)
(* Theorems about UsbLink for every size of the packets, the FIFO, the     *)
(* replies and the blocks, and any number of messages and resets.          *)
(***************************************************************************)
EXTENDS UsbLink, SequenceTheorems, TLAPS

Sizes == /\ Packet \in Nat \ {0}
         /\ Capacity \in Nat
         /\ ReplyLen \in Nat
         /\ BlockLen \in Nat
         /\ MaxMessages \in Nat /\ MaxBlocks \in Nat /\ MaxResets \in Nat

LEMMA SizesHold == Sizes
BY SizesAssumption, LinkAssumption DEF Sizes

-----------------------------------------------------------------------------
(***************************************************************************)
(* Types.                                                                  *)
(***************************************************************************)
\* A message is one that was sent; only the placeholder has no number.
MessageInv(m) == m.n <= sent /\ (m.kind # "short" => m.n > 0)

TypeInv ==
  /\ TypeOK
  /\ MessageInv(app_cmd_buf)
  /\ MessageInv(head)

\* What Put leaves in the FIFO.
LEMMA PutBytes ==
  ASSUME NEW len \in Nat, NEW ends \in Nat,
         app_tx_fifo \in Seq(Byte), written \in Nat, Put(len, ends)
  PROVE  /\ app_tx_fifo' \in Seq(Byte)
         /\ Len(app_tx_fifo') = Len(app_tx_fifo) + len
         /\ \A i \in 1 .. Len(app_tx_fifo) : app_tx_fifo'[i] = app_tx_fifo[i]
         /\ \A i \in Len(app_tx_fifo) + 1 .. Len(app_tx_fifo) + len :
              /\ app_tx_fifo'[i].n = written + i - Len(app_tx_fifo)
              /\ app_tx_fifo'[i].ends \in {0, ends}
         /\ written' = written + len
<1> DEFINE B == [k \in 1 .. len |-> [n |-> written + k,
                                     ends |-> IF k = len THEN ends ELSE 0]]
<1>1. \A k \in 1 .. len : /\ B[k] \in Byte
                          /\ B[k].n = written + k
                          /\ B[k].ends \in {0, ends}
  BY DEF Byte
<1>2. B \in [1 .. len -> Byte] /\ DOMAIN B = 1 .. len
  BY <1>1
<1>3. B \in Seq(Byte)
  BY <1>2, SeqDef
<1>4. Len(B) = len
  BY <1>2, <1>3, LenProperties
<1>5. app_tx_fifo' = app_tx_fifo \o B /\ written' = written + len
  BY DEF Put
<1> HIDE DEF B
<1>6. /\ app_tx_fifo \o B \in Seq(Byte)
      /\ Len(app_tx_fifo \o B) = Len(app_tx_fifo) + len
      /\ \A i \in 1 .. Len(app_tx_fifo) + len : (app_tx_fifo \o B)[i] =
           IF i <= Len(app_tx_fifo) THEN app_tx_fifo[i] ELSE B[i - Len(app_tx_fifo)]
  BY <1>3, <1>4, ConcatProperties
<1>7. Len(app_tx_fifo) \in Nat
  BY LenProperties
<1>8. \A i \in Len(app_tx_fifo) + 1 .. Len(app_tx_fifo) + len :
        /\ i - Len(app_tx_fifo) \in 1 .. len
        /\ (app_tx_fifo \o B)[i] = B[i - Len(app_tx_fifo)]
  BY <1>6, <1>7
<1> QED
  BY <1>1, <1>5, <1>6, <1>7, <1>8

\* The packet that is loaded, and what it leaves in the FIFO.
LEMMA LoadBytes ==
  ASSUME TypeOK, Load
  PROVE  \E len \in 1 .. Len(app_tx_fifo) :
           /\ len <= Packet
           /\ ep1' = [ack |-> FALSE, data |-> SubSeq(app_tx_fifo, 1, len)]
           /\ app_tx_fifo' = SubSeq(app_tx_fifo, len + 1, Len(app_tx_fifo))
           /\ old_send_len' = len
           /\ SubSeq(app_tx_fifo, 1, len) \in Seq(Byte)
           /\ Len(SubSeq(app_tx_fifo, 1, len)) = len
           /\ \A i \in 1 .. len : SubSeq(app_tx_fifo, 1, len)[i] = app_tx_fifo[i]
           /\ app_tx_fifo' \in Seq(Byte)
           /\ Len(app_tx_fifo') = Len(app_tx_fifo) - len
           /\ \A i \in 1 .. Len(app_tx_fifo) - len : app_tx_fifo'[i] = app_tx_fifo[len + i]
<1> DEFINE len == IF Len(app_tx_fifo) > Packet THEN Packet ELSE Len(app_tx_fifo)
<1>1. app_tx_fifo \in Seq(Byte) /\ app_tx_fifo # <<>>
  BY DEF TypeOK, Load
<1>2. Len(app_tx_fifo) \in Nat \ {0}
  BY <1>1, EmptySeq
<1>3. len \in 1 .. Len(app_tx_fifo) /\ len <= Packet
  BY <1>2, SizesHold DEF Sizes
<1>4. /\ ep1' = [ack |-> FALSE, data |-> SubSeq(app_tx_fifo, 1, len)]
      /\ app_tx_fifo' = SubSeq(app_tx_fifo, len + 1, Len(app_tx_fifo))
      /\ old_send_len' = len
  BY DEF Load
<1> HIDE DEF len
<1>5. \A i \in 1 .. Len(app_tx_fifo) : app_tx_fifo[i] \in Byte
  BY <1>1, ElementOfSeq
<1>6. /\ SubSeq(app_tx_fifo, 1, len) \in Seq(Byte)
      /\ Len(SubSeq(app_tx_fifo, 1, len)) = len
      /\ \A i \in 1 .. len : SubSeq(app_tx_fifo, 1, len)[i] = app_tx_fifo[i]
  BY <1>2, <1>3, <1>5, SubSeqProperties
<1>7. /\ app_tx_fifo' \in Seq(Byte)
      /\ Len(app_tx_fifo') = Len(app_tx_fifo) - len
      /\ \A i \in 1 .. Len(app_tx_fifo) - len : app_tx_fifo'[i] = app_tx_fifo[len + i]
  <2> DEFINE t == SubSeq(app_tx_fifo, len + 1, Len(app_tx_fifo))
  <2>1. \A i \in len + 1 .. Len(app_tx_fifo) : app_tx_fifo[i] \in Byte
    BY <1>2, <1>3, <1>5
  <2>2. /\ t \in Seq(Byte)
        /\ Len(t) = IF len + 1 <= Len(app_tx_fifo) THEN Len(app_tx_fifo) - (len + 1) + 1 ELSE 0
        /\ \A i \in 1 .. Len(app_tx_fifo) - (len + 1) + 1 : t[i] = app_tx_fifo[len + 1 + i - 1]
    BY <1>2, <1>3, <2>1, SubSeqProperties
  <2> HIDE DEF t
  <2>3. app_tx_fifo' = t
    BY <1>4 DEF t
  <2>4. /\ Len(t) = Len(app_tx_fifo) - len
        /\ \A i \in 1 .. Len(app_tx_fifo) - len : t[i] = app_tx_fifo[len + i]
    BY <1>2, <1>3, <2>2
  <2> QED
    BY <2>2, <2>3, <2>4
<1> QED
  BY <1>3, <1>4, <1>6, <1>7

LEMMA TypeInit == Init => TypeInv
<1> SUFFICES ASSUME Init PROVE TypeInv
  OBVIOUS
<1>1. NoMessage \in Message /\ MessageInv(NoMessage)
  BY DEF NoMessage, Message, Kind, MessageInv, Init
<1>2. /\ <<>> \in Seq(Byte) /\ <<>> \in Seq([head : Nat, body : Nat])
      /\ Len(<<>>) = 0
  BY EmptySeq
<1>3. ep1 \in [ack : BOOLEAN, data : Seq(Byte)] /\ Len(ep1.data) <= Packet
  BY <1>2, SizesHold DEF Init, Sizes
<1>4. hasty \in BOOLEAN
  BY DEF Init
<1>5. TypeOK
  BY <1>1, <1>2, <1>3, <1>4, SizesHold DEF Init, TypeOK, Sizes
<1> QED
  BY <1>1, <1>5 DEF Init, TypeInv

\* The types of what the host touches.
LEMMA TypeHost == ASSUME TypeInv, Host PROVE TypeInv'
<1> USE DEF TypeInv, TypeOK, MessageInv
<1>1. ASSUME NEW kind \in Kind \ {"line"}, HostCommand(kind) PROVE TypeInv'
  <2>1. sent' = sent + 1 /\ sent' \in 0 .. MaxMessages /\ hasty' \in BOOLEAN
    BY <1>1, SizesHold DEF HostCommand, Talk, Sizes
  <2>2. CASE /\ app_cmd_buf' = [kind |-> kind, n |-> sent + 1]
             /\ app_cmd_len' = IF kind = "short" THEN 1 ELSE 2
    <3>1. app_cmd_buf' \in Message /\ app_cmd_buf'.n = sent + 1 /\ app_cmd_len' \in 0 .. 2
      BY <2>2 DEF Message
    <3> QED
      BY <1>1, <2>1, <3>1 DEF HostCommand, count, Message
  <2>3. CASE UNCHANGED slot
    BY <1>1, <2>1, <2>3 DEF HostCommand, slot, count, Message
  <2> QED
    BY <1>1, <2>2, <2>3 DEF HostCommand
<1>2. CASE HostLineState
  <2>1. sent' = sent + 1 /\ sent' \in 0 .. MaxMessages /\ hasty' \in BOOLEAN
    BY <1>2, SizesHold DEF HostLineState, Talk, Sizes
  <2>2. app_cmd_buf' \in Message /\ app_cmd_buf'.n = sent + 1
    BY <1>2 DEF HostLineState, Message, Kind
  <2> QED
    BY <1>2, <2>1, <2>2 DEF HostLineState, count, Message
<1>3. CASE HostIn
  <2>1. got' \in Seq(Byte)
    BY <1>3, ConcatProperties DEF HostIn
  <2>2. held' \in Nat
    BY SMTT(60), <1>3, SizesHold DEF HostIn, Sizes
  <2>3. ep1' \in [ack : BOOLEAN, data : Seq(Byte)] /\ ep1'.data = ep1.data
    BY <1>3 DEF HostIn
  <2> QED
    BY <1>3, <2>1, <2>2, <2>3 DEF HostIn, slot, count
<1>4. CASE HostReset
  <2>1. ep1' \in [ack : BOOLEAN, data : Seq(Byte)] /\ ep1'.data = ep1.data
    BY <1>4 DEF HostReset
  <2> QED
    BY SMTT(60), <1>4, <2>1, SizesHold DEF HostReset, slot, Sizes
<1> QED
  BY <1>1, <1>2, <1>3, <1>4 DEF Host

\* And of what the main loop touches.
LEMMA TypeMainLoop == ASSUME TypeInv, MainLoop PROVE TypeInv'
<1> USE DEF TypeInv, TypeOK, MessageInv
<1>1. CASE Poll
  <2>1. handled' \in Seq([head : Nat, body : Nat])
    <3>1. [head |-> app_cmd_buf.n, body |-> app_cmd_buf.n] \in [head : Nat, body : Nat]
      BY DEF Message
    <3>2. Append(handled, [head |-> app_cmd_buf.n, body |-> app_cmd_buf.n])
            \in Seq([head : Nat, body : Nat])
      BY <3>1, AppendProperties
    <3>3. \/ handled' = Append(handled, [head |-> app_cmd_buf.n, body |-> app_cmd_buf.n])
          \/ handled' = handled
      BY <1>1 DEF Poll
    <3> QED
      BY <3>2, <3>3
  <2>2. head' \in Message /\ MessageInv(head)' /\ pc' \in {"cmd", "decode", "clear", "task", "send", "arm"}
    BY <1>1 DEF Poll, slot, host
  <2> QED
    BY <1>1, <2>1, <2>2 DEF Poll, slot, host
<1>2. CASE Decode
  <2>1. handled' \in Seq([head : Nat, body : Nat])
    <3>1. [head |-> head.n, body |-> app_cmd_buf.n] \in [head : Nat, body : Nat]
      BY DEF Message
    <3> QED
      BY <1>2, <3>1, AppendProperties DEF Decode
  <2>2. head.n \in Nat
    BY DEF Message
  <2>3. app_tx_fifo' \in Seq(Byte) /\ Len(app_tx_fifo') <= Capacity /\ written' \in Nat
    <3>1. CASE Fits(ReplyLen) /\ Put(ReplyLen, head.n)
      BY SMTT(60), <2>2, <3>1, PutBytes, LenProperties, SizesHold DEF Fits, Sizes
    <3>2. CASE UNCHANGED <<app_tx_fifo, written>>
      BY <3>2
    <3> QED
      BY <1>2, <3>1, <3>2 DEF Decode
  <2>4. refused' \subseteq 1 .. MaxMessages
    <3>1. head.kind = "ask" => head.n \in 1 .. MaxMessages
      BY <2>2, SizesHold DEF Sizes
    <3> QED
      BY <1>2, <3>1 DEF Decode
  <2> QED
    BY <1>2, <2>1, <2>3, <2>4 DEF Decode, slot, host
<1>3. CASE Clear
  BY <1>3 DEF Clear, host, count
<1>4. CASE Task
  <2>1. app_tx_fifo' \in Seq(Byte) /\ Len(app_tx_fifo') <= Capacity /\ written' \in Nat
    <3>1. CASE Fits(BlockLen) /\ Put(BlockLen, 0)
      <4>1. /\ app_tx_fifo' \in Seq(Byte)
            /\ Len(app_tx_fifo') = Len(app_tx_fifo) + BlockLen
            /\ written' = written + BlockLen
        BY <3>1, PutBytes, SizesHold DEF Sizes
      <4> QED
        BY <3>1, <4>1, LenProperties, SizesHold DEF Fits, Sizes
    <3>2. CASE UNCHANGED <<app_tx_fifo, written>>
      BY <3>2
    <3> QED
      BY <1>4, <3>1, <3>2 DEF Task
  <2>2. blocks' \in 0 .. MaxBlocks
    BY <1>4, SizesHold DEF Task, Sizes
  <2> QED
    BY <1>4, <2>1, <2>2 DEF Task, slot, host
<1>5. CASE Load
  <2>1. PICK len \in 1 .. Len(app_tx_fifo) :
           /\ len <= Packet
           /\ ep1' = [ack |-> FALSE, data |-> SubSeq(app_tx_fifo, 1, len)]
           /\ old_send_len' = len
           /\ SubSeq(app_tx_fifo, 1, len) \in Seq(Byte)
           /\ Len(SubSeq(app_tx_fifo, 1, len)) = len
           /\ app_tx_fifo' \in Seq(Byte)
           /\ Len(app_tx_fifo') = Len(app_tx_fifo) - len
    BY <1>5, LoadBytes
  <2>2. Len(app_tx_fifo') <= Capacity
    BY <2>1, LenProperties, SizesHold DEF Sizes
  <2>3. old_send_len' \in 0 .. Packet
    BY <2>1, LenProperties, SizesHold DEF Sizes
  <2>4. ep1' \in [ack : BOOLEAN, data : Seq(Byte)] /\ Len(ep1'.data) <= Packet
    BY <2>1
  <2> QED
    BY <1>5, <2>1, <2>2, <2>3, <2>4 DEF Load, slot, host, count
<1>6. CASE LoadEmpty
  <2>1. old_send_len' \in 0 .. Packet
    BY <1>6, SizesHold DEF LoadEmpty, Sizes
  <2>2. ep1' \in [ack : BOOLEAN, data : Seq(Byte)] /\ Len(ep1'.data) <= Packet
    <3>1. <<>> \in Seq(Byte) /\ Len(<<>>) <= Packet
      BY EmptySeq, SizesHold DEF Sizes
    <3>2. ep1' = [ack |-> FALSE, data |-> <<>>] \/ ep1' = ep1
      BY <1>6 DEF LoadEmpty
    <3>3. [ack |-> FALSE, data |-> <<>>] \in [ack : BOOLEAN, data : Seq(Byte)]
      BY <3>1
    <3>4. CASE ep1' = [ack |-> FALSE, data |-> <<>>]
      <4>1. ep1'.data = <<>>
        BY <3>4
      <4> QED
        BY <3>1, <3>3, <3>4, <4>1
    <3>5. CASE ep1' = ep1
      BY <3>5
    <3> QED
      BY <3>2, <3>4, <3>5
  <2> QED
    BY <1>6, <2>1, <2>2 DEF LoadEmpty, slot, host, count
<1>7. CASE SendBusy
  BY <1>7 DEF SendBusy, slot, host, count
<1>8. CASE Arm
  <2>1. ep1' \in [ack : BOOLEAN, data : Seq(Byte)] /\ ep1'.data = ep1.data
    BY <1>8 DEF Arm
  <2> QED
    BY <1>8, <2>1 DEF Arm, slot, host, count
<1> QED
  BY <1>1, <1>2, <1>3, <1>4, <1>5, <1>6, <1>7, <1>8 DEF MainLoop

LEMMA TypeStep == TypeInv /\ [Next]_vars => TypeInv'
<1>1. TypeInv /\ UNCHANGED vars => TypeInv'
  BY DEF TypeInv, TypeOK, MessageInv, vars, slot, host, count
<1> QED
  BY <1>1, TypeHost, TypeMainLoop DEF Next

\* The FIFO never exceeds its size, a packet the endpoint's buffer, and a
\* refused reply belongs to a message that was sent.
THEOREM TypeCorrect == Spec => []TypeOK
<1>1. TypeInv => TypeOK
  BY DEF TypeInv
<1> QED
  BY TypeInit, TypeStep, <1>1, PTL DEF Spec

-----------------------------------------------------------------------------
(***************************************************************************)
(* The order of bytes.  The wire is what the host has, the packet on its   *)
(* way and the FIFO; a step moves bytes along it, appends new ones, or, in *)
(* a reset, takes the packet out of the middle.                            *)
(***************************************************************************)
Ordered(s) == \A i, j \in 1 .. Len(s) : i < j => s[i].n < s[j].n

UpTo(s, n) == \A i \in 1 .. Len(s) : s[i].n <= n

WireInv ==
  /\ pc = "arm" => ~ep1.ack
  /\ Ordered(Wire)
  /\ UpTo(Wire, written)
  /\ resets = 0 => Len(Wire) = written

LEMMA ConcatBytes ==
  ASSUME NEW s \in Seq(Byte), NEW t \in Seq(Byte)
  PROVE  /\ s \o t \in Seq(Byte)
         /\ Len(s \o t) = Len(s) + Len(t)
         /\ \A i \in 1 .. Len(s) + Len(t) : (s \o t)[i] =
              IF i <= Len(s) THEN s[i] ELSE t[i - Len(s)]
BY ConcatProperties

\* The three parts of the wire, byte by byte.
LEMMA WireParts ==
  ASSUME NEW g \in Seq(Byte), NEW f \in Seq(Byte), NEW q \in Seq(Byte)
  PROVE  /\ g \o f \o q \in Seq(Byte)
         /\ Len(g \o f \o q) = Len(g) + Len(f) + Len(q)
         /\ \A i \in 1 .. Len(g) : (g \o f \o q)[i] = g[i]
         /\ \A i \in 1 .. Len(f) : (g \o f \o q)[Len(g) + i] = f[i]
         /\ \A i \in 1 .. Len(q) : (g \o f \o q)[Len(g) + Len(f) + i] = q[i]
<1> DEFINE p == g \o f
<1>1. /\ p \in Seq(Byte)
      /\ Len(p) = Len(g) + Len(f)
      /\ \A i \in 1 .. Len(g) + Len(f) : p[i] = IF i <= Len(g) THEN g[i] ELSE f[i - Len(g)]
  BY ConcatProperties
<1>2. Len(g) \in Nat /\ Len(f) \in Nat /\ Len(q) \in Nat
  BY LenProperties
<1> HIDE DEF p
<1>3. /\ p \o q \in Seq(Byte)
      /\ Len(p \o q) = Len(p) + Len(q)
      /\ \A i \in 1 .. Len(p) + Len(q) : (p \o q)[i] = IF i <= Len(p) THEN p[i] ELSE q[i - Len(p)]
  <2>1. p \in Seq(Byte)
    BY <1>1
  <2> QED
    BY <2>1, ConcatBytes
<1>4. \A i \in 1 .. Len(g) : (p \o q)[i] = g[i]
  BY <1>1, <1>2, <1>3
<1>5. \A i \in 1 .. Len(f) : (p \o q)[Len(g) + i] = f[i]
  <2> SUFFICES ASSUME NEW i \in 1 .. Len(f) PROVE (p \o q)[Len(g) + i] = f[i]
    OBVIOUS
  <2>1. /\ Len(g) + i \in 1 .. Len(p) + Len(q)
        /\ Len(g) + i <= Len(p)
        /\ ~(Len(g) + i <= Len(g))
        /\ Len(g) + i - Len(g) = i
    BY <1>1, <1>2
  <2> QED
    BY <2>1, <1>1, <1>2, <1>3
<1>6. \A i \in 1 .. Len(q) : (p \o q)[Len(g) + Len(f) + i] = q[i]
  <2> SUFFICES ASSUME NEW i \in 1 .. Len(q) PROVE (p \o q)[Len(g) + Len(f) + i] = q[i]
    OBVIOUS
  <2>1. /\ Len(p) + i \in 1 .. Len(p) + Len(q)
        /\ ~(Len(p) + i <= Len(p))
        /\ Len(p) + i - Len(p) = i
    BY <1>1, <1>2
  <2> QED
    BY <2>1, <1>1, <1>2, <1>3
<1> QED
  BY <1>1, <1>3, <1>4, <1>5, <1>6 DEF p

LEMMA InFlightSeq == TypeOK => InFlight \in Seq(Byte)
BY EmptySeq DEF TypeOK, InFlight

\* Nothing moved, or only along the wire.
LEMMA WireSame ==
  ASSUME WireInv, Wire' = Wire, pc' = "arm" => ~ep1'.ack, UNCHANGED <<written, resets>>
  PROVE  WireInv'
BY DEF WireInv, Ordered, UpTo

\* New bytes at the end of the FIFO.
LEMMA WirePut ==
  ASSUME TypeOK, WireInv, NEW len \in Nat, NEW ends \in Nat, Put(len, ends),
         pc' # "arm", pc # "arm", UNCHANGED <<got, ep1, resets>>
  PROVE  WireInv'
<1> DEFINE g == got
           f == InFlight
           q == app_tx_fifo
           r == app_tx_fifo'
<1>1. g \in Seq(Byte) /\ f \in Seq(Byte) /\ q \in Seq(Byte) /\ written \in Nat
  BY InFlightSeq DEF TypeOK
<1>2. InFlight' = InFlight
  BY DEF InFlight
<1>3. /\ r \in Seq(Byte)
      /\ Len(r) = Len(q) + len
      /\ \A i \in 1 .. Len(q) : r[i] = q[i]
      /\ \A i \in Len(q) + 1 .. Len(q) + len : r[i].n = written + i - Len(q)
      /\ written' = written + len
  BY <1>1, PutBytes
<1>4. Wire = g \o f \o q /\ Wire' = g \o f \o r
  BY <1>2 DEF Wire
<1>5. Len(g) \in Nat /\ Len(f) \in Nat /\ Len(q) \in Nat
  BY <1>1, LenProperties
<1> DEFINE L == Len(g) + Len(f)
<1> HIDE DEF g, f, q, r
<1>6. /\ Len(Wire) = L + Len(q)
      /\ \A i \in 1 .. Len(g) : Wire[i] = g[i]
      /\ \A i \in 1 .. Len(f) : Wire[Len(g) + i] = f[i]
      /\ \A i \in 1 .. Len(q) : Wire[L + i] = q[i]
  BY <1>1, <1>4, WireParts
<1>7. /\ Len(Wire') = L + Len(r)
      /\ \A i \in 1 .. Len(g) : Wire'[i] = g[i]
      /\ \A i \in 1 .. Len(f) : Wire'[Len(g) + i] = f[i]
      /\ \A i \in 1 .. Len(r) : Wire'[L + i] = r[i]
  <2>1. r \in Seq(Byte) /\ Wire' = g \o f \o r
    BY <1>3, <1>4
  <2>2. /\ Len(g \o f \o r) = Len(g) + Len(f) + Len(r)
        /\ \A i \in 1 .. Len(g) : (g \o f \o r)[i] = g[i]
        /\ \A i \in 1 .. Len(f) : (g \o f \o r)[Len(g) + i] = f[i]
        /\ \A i \in 1 .. Len(r) : (g \o f \o r)[Len(g) + Len(f) + i] = r[i]
    BY <1>1, <2>1, WireParts
  <2> QED
    BY <2>1, <2>2
<1>8. \A i \in 1 .. L + Len(q) : Wire'[i] = Wire[i]
  <2> SUFFICES ASSUME NEW i \in 1 .. L + Len(q) PROVE Wire'[i] = Wire[i]
    OBVIOUS
  <2>1. CASE i <= Len(g)
    BY <2>1, <1>5, <1>6, <1>7
  <2>2. CASE i > Len(g) /\ i <= L
    <3>1. i - Len(g) \in 1 .. Len(f) /\ Len(g) + (i - Len(g)) = i
      BY <2>2, <1>5
    <3>2. Wire[Len(g) + (i - Len(g))] = f[i - Len(g)]
      BY <3>1, <1>6
    <3>3. Wire'[Len(g) + (i - Len(g))] = f[i - Len(g)]
      BY <3>1, <1>7
    <3> QED
      BY <3>1, <3>2, <3>3
  <2>3. CASE i > L
    <3>1. /\ i - L \in 1 .. Len(q) /\ i - L \in 1 .. Len(r) /\ L + (i - L) = i
      BY <2>3, <1>3, <1>5
    <3>2. Wire[i] = q[i - L] /\ Wire'[i] = r[i - L]
      BY <3>1, <1>6, <1>7
    <3> QED
      BY <3>1, <3>2, <1>3
  <2> QED
    BY <2>1, <2>2, <2>3, <1>5
<1>9. \A i \in L + Len(q) + 1 .. L + Len(q) + len :
         Wire'[i].n = written + i - (L + Len(q))
  <2> SUFFICES ASSUME NEW i \in L + Len(q) + 1 .. L + Len(q) + len
               PROVE  Wire'[i].n = written + i - (L + Len(q))
    OBVIOUS
  <2>1. /\ i - L \in 1 .. Len(r) /\ L + (i - L) = i
        /\ i - L \in Len(q) + 1 .. Len(q) + len
    BY <1>3, <1>5
  <2>2. Wire'[i] = r[i - L]
    BY <2>1, <1>7
  <2>3. r[i - L].n = written + (i - L) - Len(q)
    BY <2>1, <1>3
  <2> QED
    BY <2>2, <2>3, <1>1, <1>5
<1> DEFINE N == L + Len(q)
<1>10. N \in Nat /\ Len(Wire) = N /\ Len(Wire') = N + len
  BY <1>3, <1>5, <1>6, <1>7
<1> HIDE DEF N, L
<1>11. /\ \A i \in 1 .. N : Wire'[i].n = Wire[i].n
       /\ \A i \in 1 .. N : Wire[i].n <= written
       /\ \A i, j \in 1 .. N : i < j => Wire[i].n < Wire[j].n
       /\ \A i \in N + 1 .. N + len : Wire'[i].n = written + i - N
  BY <1>8, <1>9, <1>10 DEF WireInv, Ordered, UpTo, N
<1>12. \A i \in 1 .. N : Wire[i].n \in Nat
  <2>1. Wire \in Seq(Byte)
    BY <1>1, <1>4, WireParts
  <2>2. \A i \in 1 .. N : Wire[i] \in Byte
    BY <2>1, <1>10, ElementOfSeq
  <2> QED
    BY <2>2 DEF Byte
<1>13. Ordered(Wire)'
  <2> SUFFICES ASSUME NEW i \in 1 .. N + len, NEW j \in 1 .. N + len, i < j
               PROVE  Wire'[i].n < Wire'[j].n
    BY <1>10 DEF Ordered
  <2>1. CASE j <= N
    BY <2>1, <1>10, <1>11
  <2>2. CASE i <= N /\ j > N
    <3>1. Wire'[i].n <= written /\ Wire'[i].n \in Nat
      BY <2>2, <1>10, <1>11, <1>12
    <3>2. Wire'[j].n = written + j - N
      BY <2>2, <1>10, <1>11
    <3> QED
      BY <2>2, <3>1, <3>2, <1>1, <1>10
  <2>3. CASE i > N
    <3>1. Wire'[i].n = written + i - N /\ Wire'[j].n = written + j - N
      BY <2>3, <1>10, <1>11
    <3> QED
      BY <3>1, <1>1, <1>10
  <2> QED
    BY <2>1, <2>2, <2>3, <1>10
<1>14. UpTo(Wire, written)'
  <2> SUFFICES ASSUME NEW i \in 1 .. N + len PROVE Wire'[i].n <= written + len
    BY <1>3, <1>10 DEF UpTo
  <2>1. CASE i <= N
    BY SMTT(60), <2>1, <1>1, <1>10, <1>11, <1>12
  <2>2. CASE i > N
    BY <2>2, <1>1, <1>10, <1>11
  <2> QED
    BY <2>1, <2>2, <1>10
<1>15. (resets = 0 => Len(Wire) = written)'
  BY <1>3, <1>10 DEF WireInv
<1> QED
  BY <1>13, <1>14, <1>15 DEF WireInv

\* A reset takes the packet out of the middle.
LEMMA WireReset ==
  ASSUME TypeOK, WireInv, HostReset
  PROVE  WireInv'
<1>1. CASE pc = "arm"
  <2>1. ep1' = ep1
    BY <1>1 DEF HostReset, WireInv, TypeOK
  <2>2. Wire' = Wire
    BY <2>1 DEF HostReset, Wire, InFlight
  <2>3. resets' # 0 /\ ~ep1'.ack /\ written' = written
    BY <1>1, <2>1 DEF HostReset, WireInv, TypeOK
  <2> QED
    BY <2>2, <2>3 DEF WireInv, Ordered, UpTo
<1>2. CASE pc # "arm"
  <2> DEFINE g == got
             f == InFlight
             q == app_tx_fifo
             e == <<>>
  <2>1. /\ g \in Seq(Byte) /\ f \in Seq(Byte) /\ q \in Seq(Byte) /\ e \in Seq(Byte)
        /\ Len(e) = 0
    BY InFlightSeq, EmptySeq DEF TypeOK
  <2>2. ~ep1'.ack /\ pc' # "arm" /\ resets' # 0 /\ written' = written
    BY <1>2 DEF HostReset, TypeOK
  <2>3. Wire = g \o f \o q /\ Wire' = g \o e \o q
    BY <2>2 DEF HostReset, Wire, InFlight
  <2>4. Len(g) \in Nat /\ Len(f) \in Nat /\ Len(q) \in Nat
    BY <2>1, LenProperties
  <2> HIDE DEF g, f, q, e
  <2>5. /\ Len(Wire) = Len(g) + Len(f) + Len(q)
        /\ \A i \in 1 .. Len(g) : Wire[i] = g[i]
        /\ \A i \in 1 .. Len(q) : Wire[Len(g) + Len(f) + i] = q[i]
    BY <2>1, <2>3, WireParts
  <2>6. /\ Len(Wire') = Len(g) + Len(e) + Len(q)
        /\ \A i \in 1 .. Len(g) : Wire'[i] = g[i]
        /\ \A i \in 1 .. Len(q) : Wire'[Len(g) + Len(e) + i] = q[i]
    BY <2>1, <2>3, WireParts
  <2> DEFINE old(i) == IF i <= Len(g) THEN i ELSE i + Len(f)
  <2>7. \A i \in 1 .. Len(Wire') : old(i) \in 1 .. Len(Wire) /\ Wire'[i] = Wire[old(i)]
    <3> SUFFICES ASSUME NEW i \in 1 .. Len(g) + Len(q)
                 PROVE  old(i) \in 1 .. Len(Wire) /\ Wire'[i] = Wire[old(i)]
      BY <2>1, <2>4, <2>6
    <3>1. CASE i <= Len(g)
      BY <3>1, <2>4, <2>5, <2>6
    <3>2. CASE i > Len(g)
      <4>1. /\ i - Len(g) \in 1 .. Len(q)
            /\ Len(g) + Len(e) + (i - Len(g)) = i
            /\ Len(g) + Len(f) + (i - Len(g)) = old(i)
            /\ old(i) \in 1 .. Len(Wire)
        BY <3>2, <2>1, <2>4, <2>5
      <4> HIDE DEF old
      <4> QED
        BY <4>1, <2>5, <2>6
    <3> QED
      BY <3>1, <3>2, <2>4
  <2>8. \A i, j \in 1 .. Len(Wire') : i < j => old(i) < old(j)
    BY <2>1, <2>4, <2>6
  <2> HIDE DEF old
  <2> QED
    BY <2>2, <2>7, <2>8 DEF WireInv, Ordered, UpTo
<1> QED
  BY <1>1, <1>2

LEMMA WireHost == ASSUME TypeOK, WireInv, Host PROVE WireInv'
<1>1. ASSUME NEW kind \in Kind \ {"line"}, HostCommand(kind) PROVE WireInv'
  BY <1>1, WireSame DEF HostCommand, count, Wire, InFlight, WireInv
<1>2. CASE HostLineState
  BY <1>2, WireSame DEF HostLineState, count, Wire, InFlight, WireInv
<1>3. CASE HostIn
  <2>1. /\ InFlight = ep1.data /\ InFlight' = <<>> /\ ~ep1'.ack
        /\ UNCHANGED <<written, resets, app_tx_fifo>> /\ got' = got \o ep1.data
    BY <1>3 DEF HostIn, InFlight, WireInv, count, TypeOK
  <2>2. got \o ep1.data \in Seq(Byte)
    BY ConcatProperties DEF TypeOK
  <2>3. (got \o ep1.data) \o <<>> = got \o ep1.data
    BY <2>2, ConcatEmptySeq
  <2>4. Wire' = Wire
    BY <2>1, <2>3 DEF Wire
  <2> QED
    BY <2>1, <2>4, WireSame
<1>4. CASE HostReset
  BY <1>4, WireReset
<1> QED
  BY <1>1, <1>2, <1>3, <1>4 DEF Host

LEMMA WireLoad == ASSUME TypeOK, WireInv, Load PROVE WireInv'
<1>1. PICK len \in 1 .. Len(app_tx_fifo) :
         /\ ep1' = [ack |-> FALSE, data |-> SubSeq(app_tx_fifo, 1, len)]
         /\ app_tx_fifo' = SubSeq(app_tx_fifo, len + 1, Len(app_tx_fifo))
         /\ SubSeq(app_tx_fifo, 1, len) \in Seq(Byte)
         /\ app_tx_fifo' \in Seq(Byte)
  BY LoadBytes
<1>2. SubSeq(app_tx_fifo, 1, len) \o app_tx_fifo' = app_tx_fifo
  <2>1. app_tx_fifo \in Seq(Byte) /\ Len(app_tx_fifo) \in Nat
    BY LenProperties DEF TypeOK
  <2>2. /\ 1 \in 1 .. Len(app_tx_fifo) + 1
        /\ len \in 1 - 1 .. Len(app_tx_fifo)
        /\ Len(app_tx_fifo) \in len .. Len(app_tx_fifo)
    BY <2>1
  <2>3. SubSeq(app_tx_fifo, 1, len) \o SubSeq(app_tx_fifo, len + 1, Len(app_tx_fifo))
          = SubSeq(app_tx_fifo, 1, Len(app_tx_fifo))
    BY <2>1, <2>2, ConcatAdjacentSubSeq
  <2> QED
    BY <1>1, <2>1, <2>3, SubSeqFull
<1>3. /\ InFlight = <<>> /\ InFlight' = SubSeq(app_tx_fifo, 1, len) /\ ~ep1'.ack
      /\ UNCHANGED <<got, written, resets>>
  <2>1. ep1'.ack = FALSE /\ ep1'.data = SubSeq(app_tx_fifo, 1, len)
    BY <1>1
  <2>2. /\ ~ep1.ack /\ pc # "arm" /\ pc' = "arm"
        /\ UNCHANGED <<got, written, resets>>
    BY DEF Load, host, count
  <2> QED
    BY <2>1, <2>2 DEF InFlight
<1>4. Wire' = got \o (SubSeq(app_tx_fifo, 1, len) \o app_tx_fifo')
  <2>1. got \in Seq(Byte)
    BY DEF TypeOK
  <2> DEFINE s == SubSeq(app_tx_fifo, 1, len)
             t == app_tx_fifo'
  <2>2. s \in Seq(Byte) /\ t \in Seq(Byte)
    BY <1>1
  <2> HIDE DEF s, t
  <2>3. (got \o s) \o t = got \o (s \o t)
    BY <2>1, <2>2, ConcatAssociative
  <2>4. (got \o SubSeq(app_tx_fifo, 1, len)) \o app_tx_fifo'
          = got \o (SubSeq(app_tx_fifo, 1, len) \o app_tx_fifo')
    BY <2>3 DEF s, t
  <2> QED
    BY <1>3, <2>4 DEF Wire
<1>5. Wire = got \o app_tx_fifo
  <2>1. got \o <<>> = got
    BY ConcatEmptySeq DEF TypeOK
  <2> QED
    BY <1>3, <2>1 DEF Wire
<1> QED
  BY <1>2, <1>3, <1>4, <1>5, WireSame

LEMMA WireMainLoop == ASSUME TypeOK, WireInv, MainLoop PROVE WireInv'
<1>1. CASE Poll \/ Clear \/ SendBusy
  BY <1>1, WireSame DEF Poll, Clear, SendBusy, host, count, Wire, InFlight
<1>2. CASE Decode
  <2>1. /\ pc # "arm" /\ pc' # "arm" /\ UNCHANGED <<got, ep1, resets>>
        /\ Put(ReplyLen, head.n) \/ UNCHANGED <<app_tx_fifo, written>>
    BY <1>2 DEF Decode, host
  <2>2. head.n \in Nat /\ ReplyLen \in Nat
    BY SizesHold DEF TypeOK, Message, Sizes
  <2>3. CASE UNCHANGED <<app_tx_fifo, written>>
    BY <2>1, <2>3, WireSame DEF Wire, InFlight
  <2> QED
    BY <2>1, <2>2, <2>3, WirePut
<1>3. CASE Task
  <2>1. /\ pc # "arm" /\ pc' # "arm" /\ UNCHANGED <<got, ep1, resets>>
        /\ Put(BlockLen, 0) \/ UNCHANGED <<app_tx_fifo, written>>
    BY <1>3 DEF Task, host
  <2>2. 0 \in Nat /\ BlockLen \in Nat
    BY SizesHold DEF Sizes
  <2>3. CASE UNCHANGED <<app_tx_fifo, written>>
    BY <2>1, <2>3, WireSame DEF Wire, InFlight
  <2> QED
    BY <2>1, <2>2, <2>3, WirePut
<1>4. CASE Load
  BY <1>4, WireLoad
<1>5. CASE LoadEmpty
  <2>1. InFlight = <<>> /\ InFlight' = <<>> /\ ~ep1'.ack
    BY <1>5 DEF LoadEmpty, InFlight
  <2> QED
    BY <1>5, <2>1, WireSame DEF LoadEmpty, Wire, host, count
<1>6. CASE Arm
  <2>1. InFlight' = InFlight /\ pc' # "arm"
    BY <1>6 DEF Arm, InFlight, TypeOK
  <2> QED
    BY <1>6, <2>1, WireSame DEF Arm, Wire, host, count
<1> QED
  BY <1>1, <1>2, <1>3, <1>4, <1>5, <1>6 DEF MainLoop

LEMMA WireInit == Init => WireInv
<1> SUFFICES ASSUME Init PROVE WireInv
  OBVIOUS
<1>1. Wire = <<>> \o <<>> \o <<>>
  BY DEF Init, Wire, InFlight
<1>2. <<>> \in Seq(Byte) /\ Len(<<>>) = 0
  BY EmptySeq
<1>3. Len(Wire) = 0
  BY <1>1, <1>2, WireParts
<1> QED
  BY <1>3 DEF Init, WireInv, Ordered, UpTo

LEMMA WireStep == TypeInv /\ WireInv /\ [Next]_vars => WireInv'
<1> SUFFICES ASSUME TypeOK, WireInv, [Next]_vars PROVE WireInv'
  BY DEF TypeInv
<1>1. CASE UNCHANGED vars
  BY <1>1, WireSame DEF vars, slot, host, count, Wire, InFlight, WireInv
<1> QED
  BY <1>1, WireHost, WireMainLoop DEF Next

\* The stream is in order on its whole way, and complete up to a reset.
THEOREM WireStaysInOrder == Spec => []WireInOrder
<1>1. TypeInv /\ WireInv => WireInOrder
  <2> SUFFICES ASSUME TypeOK, WireInv PROVE WireInOrder
    BY DEF TypeInv
  <2>1. Wire \in Seq(Byte)
    BY InFlightSeq, WireParts DEF Wire, TypeOK
  <2>2. Len(Wire) \in Nat
    BY <2>1, LenProperties
  <2>3. \A i \in 1 .. Len(Wire) - 1 : i \in 1 .. Len(Wire) /\ i + 1 \in 1 .. Len(Wire) /\ i < i + 1
    BY <2>2
  <2> QED
    BY <2>3 DEF WireInOrder, WireInv, Ordered
<1> QED
  BY TypeInit, TypeStep, WireInit, WireStep, <1>1, PTL DEF Spec

-----------------------------------------------------------------------------
(***************************************************************************)
(* Commands of a host that waits.  While the slot is taken its message is  *)
(* the last one, and the end of the reply to it has not left the FIFO; so  *)
(* the host, which waits for that or for the slot, does not talk.          *)
(***************************************************************************)
EndsUpTo(s, n) == \A i \in 1 .. Len(s) : s[i].ends <= n

NoneEnds(s, n) == \A i \in 1 .. Len(s) : s[i].ends # n

EndsInv == EndsUpTo(got, sent) /\ EndsUpTo(ep1.data, sent) /\ EndsUpTo(app_tx_fifo, sent)

SlotTaken ==
  app_cmd_len # 0 =>
    /\ sent > 0 /\ app_cmd_buf.n = sent
    /\ NoneEnds(got, sent)
    /\ NoneEnds(ep1.data, sent)
    /\ pc # "clear" => NoneEnds(app_tx_fifo, sent)

PatientInv ==
  /\ SlotTaken
  /\ app_cmd_len = 0 => pc \notin {"decode", "clear"}
  /\ pc = "decode" => head = app_cmd_buf
  /\ EachDecoded

CommandInv == EndsInv /\ (~hasty => PatientInv)

LEMMA CommandInit == Init => CommandInv
<1> SUFFICES ASSUME Init PROVE CommandInv
  OBVIOUS
<1>1. Len(<<>>) = 0
  BY EmptySeq
<1>2. /\ got = <<>> /\ ep1.data = <<>> /\ app_tx_fifo = <<>> /\ handled = <<>>
      /\ app_cmd_len = 0 /\ sent = 0 /\ pc = "cmd"
  BY DEF Init
<1> QED
  BY <1>1, <1>2 DEF CommandInv, EndsInv, EndsUpTo, PatientInv, SlotTaken, EachDecoded, InSlot

\* A host that has always waited talks only when the slot is free.
LEMMA WaitsForSlot ==
  ASSUME TypeOK, CommandInv, Talk, ~hasty'
  PROVE  PatientInv /\ app_cmd_len = 0 /\ pc \notin {"decode", "clear"}
<1>1. Dealt /\ PatientInv
  BY DEF Talk, CommandInv
<1> QED
  BY <1>1 DEF Dealt, PatientInv, SlotTaken, NoneEnds, TypeOK

\* It sends a message, which is now the one in the slot.
LEMMA CommandTalk ==
  ASSUME TypeInv, CommandInv, Talk,
         ~hasty' => app_cmd_len' # 0 /\ app_cmd_buf'.n = sent + 1,
         UNCHANGED <<got, ep1, app_tx_fifo, pc, head, handled>>
  PROVE  CommandInv'
<1>0. sent' = sent + 1
  BY DEF Talk
<1>1. /\ sent \in Nat
      /\ got \in Seq(Byte) /\ ep1.data \in Seq(Byte) /\ app_tx_fifo \in Seq(Byte)
  BY SizesHold DEF TypeInv, TypeOK, Sizes
<1>2. \A s \in Seq(Byte) : EndsUpTo(s, sent) => EndsUpTo(s, sent + 1) /\ NoneEnds(s, sent + 1)
  <2> SUFFICES ASSUME NEW s \in Seq(Byte), EndsUpTo(s, sent), NEW i \in 1 .. Len(s)
               PROVE  s[i].ends <= sent + 1 /\ s[i].ends # sent + 1
    BY DEF EndsUpTo, NoneEnds
  <2>1. s[i].ends \in Nat
    <3>1. s[i] \in Byte
      BY ElementOfSeq
    <3> QED
      BY <3>1 DEF Byte
  <2> QED
    BY <1>1, <2>1 DEF EndsUpTo
<1>3. EndsInv'
  BY <1>0, <1>1, <1>2 DEF CommandInv, EndsInv
<1>4. ASSUME ~hasty' PROVE PatientInv'
  <2>1. app_cmd_len = 0 /\ pc \notin {"decode", "clear"} /\ PatientInv
    BY <1>4, WaitsForSlot DEF TypeInv, CommandInv
  <2>2. SlotTaken'
    BY <1>0, <1>1, <1>2, <1>4 DEF CommandInv, EndsInv, SlotTaken
  <2>3. InSlot = 0 /\ InSlot' = 1
    BY <1>4, <2>1 DEF InSlot
  <2>4. EachDecoded'
    <3>1. Len(handled) = sent
      BY <2>1, <2>3, LenProperties DEF PatientInv, EachDecoded, TypeInv, TypeOK
    <3> QED
      BY <1>0, <1>1, <2>1, <2>3, <3>1 DEF PatientInv, EachDecoded
  <2> QED
    BY <1>4, <2>1, <2>2, <2>4 DEF PatientInv
<1> QED
  BY <1>3, <1>4 DEF CommandInv

\* Bytes that only move along the wire.
LEMMA CommandMoves ==
  ASSUME TypeOK, CommandInv, EndsInv',
         ~hasty => SlotTaken' /\ (app_cmd_len' = 0 => pc' \notin {"decode", "clear"})
                      /\ pc' # "decode" /\ pc' # "clear" /\ pc # "clear",
         UNCHANGED <<slot, sent, handled, hasty>>
  PROVE  CommandInv'
BY DEF CommandInv, PatientInv, EachDecoded, InSlot, slot

LEMMA CommandHost == ASSUME TypeInv, CommandInv, Host PROVE CommandInv'
<1>1. ASSUME NEW kind \in Kind \ {"line"}, HostCommand(kind) PROVE CommandInv'
  <2>1. Talk /\ UNCHANGED <<got, ep1, app_tx_fifo, pc, head, handled>>
    BY <1>1 DEF HostCommand, count
  <2>2. ~hasty' => app_cmd_len' # 0 /\ app_cmd_buf'.n = sent + 1
    <3> SUFFICES ASSUME ~hasty' PROVE app_cmd_len' # 0 /\ app_cmd_buf'.n = sent + 1
      OBVIOUS
    <3>1. app_cmd_len = 0
      BY <2>1, WaitsForSlot DEF TypeInv
    <3> QED
      BY <1>1, <3>1 DEF HostCommand
  <2> QED
    BY <2>1, <2>2, CommandTalk
<1>2. CASE HostLineState
  BY <1>2, CommandTalk DEF HostLineState, count
<1>3. CASE HostIn
  <2>1. /\ got' = got \o ep1.data /\ ep1'.data = ep1.data
        /\ UNCHANGED <<app_tx_fifo, slot, sent, hasty, handled, pc, head>>
    BY <1>3 DEF HostIn, count, TypeInv, TypeOK
  <2>2. got \in Seq(Byte) /\ ep1.data \in Seq(Byte)
    BY DEF TypeInv, TypeOK
  <2>3. Len(got) \in Nat /\ Len(ep1.data) \in Nat
    BY <2>2, LenProperties
  <2>4. \A i \in 1 .. Len(got') : \/ \E j \in 1 .. Len(got) : got'[i] = got[j]
                                 \/ \E j \in 1 .. Len(ep1.data) : got'[i] = ep1.data[j]
    <3> SUFFICES ASSUME NEW i \in 1 .. Len(got) + Len(ep1.data)
                 PROVE  \/ \E j \in 1 .. Len(got) : got'[i] = got[j]
                        \/ \E j \in 1 .. Len(ep1.data) : got'[i] = ep1.data[j]
      BY <2>1, <2>2, ConcatBytes
    <3>1. got'[i] = IF i <= Len(got) THEN got[i] ELSE ep1.data[i - Len(got)]
      BY <2>1, <2>2, ConcatBytes
    <3>2. CASE i <= Len(got)
      BY <2>3, <3>1, <3>2
    <3>3. CASE i > Len(got)
      <4>1. i - Len(got) \in 1 .. Len(ep1.data) /\ ~(i <= Len(got))
        BY <2>3, <3>3
      <4> QED
        BY <3>1, <4>1
    <3> QED
      BY <2>3, <3>2, <3>3
  <2>5. EndsInv'
    BY <2>1, <2>4 DEF CommandInv, EndsInv, EndsUpTo
  <2>6. SlotTaken => SlotTaken'
    BY <2>1, <2>4 DEF SlotTaken, NoneEnds, slot
  <2> QED
    BY <2>1, <2>5, <2>6 DEF CommandInv, PatientInv, EachDecoded, InSlot, slot
<1>4. CASE HostReset
  <2>1. /\ ep1'.data = ep1.data
        /\ UNCHANGED <<got, app_tx_fifo, slot, sent, hasty, handled, pc, head>>
    BY <1>4 DEF HostReset, TypeInv, TypeOK
  <2> QED
    BY <2>1 DEF CommandInv, EndsInv, EndsUpTo, PatientInv, SlotTaken, NoneEnds,
                EachDecoded, InSlot, slot
<1> QED
  BY <1>1, <1>2, <1>3, <1>4 DEF Host

\* One more message is dealt with, head and body.
LEMMA OneMoreHandled ==
  ASSUME TypeInv, ~hasty, PatientInv, app_cmd_len # 0, pc # "clear", pc' = "clear",
         handled' = Append(handled, [head |-> app_cmd_buf.n, body |-> app_cmd_buf.n]),
         UNCHANGED <<slot, sent>>
  PROVE  EachDecoded'
<1> DEFINE e == [head |-> app_cmd_buf.n, body |-> app_cmd_buf.n]
<1>1. handled \in Seq([head : Nat, body : Nat]) /\ e \in [head : Nat, body : Nat]
  BY DEF TypeInv, TypeOK, Message
<1>2. InSlot = 1 /\ InSlot' = 0
  BY DEF InSlot, slot
<1>3. sent \in Nat /\ Len(handled) \in Nat
  BY <1>1, LenProperties, SizesHold DEF TypeInv, TypeOK, Sizes
<1>4. app_cmd_buf.n = Len(handled) + 1 /\ sent = Len(handled) + 1
  BY <1>2, <1>3 DEF PatientInv, SlotTaken, EachDecoded
<1> HIDE DEF e
<1>5. /\ Len(handled') = Len(handled) + 1
      /\ \A i \in 1 .. Len(handled) : handled'[i] = handled[i]
      /\ handled'[Len(handled) + 1] = e
  <2>1. handled' = Append(handled, e)
    BY DEF e
  <2> QED
    BY <1>1, <2>1, AppendProperties
<1>6. e = [head |-> Len(handled) + 1, body |-> Len(handled) + 1]
  BY <1>4 DEF e
<1>7. ASSUME NEW i \in 1 .. Len(handled) + 1 PROVE handled'[i] = [head |-> i, body |-> i]
  <2>1. CASE i <= Len(handled)
    BY <2>1, <1>3, <1>5 DEF PatientInv, EachDecoded
  <2>2. CASE i = Len(handled) + 1
    BY <2>2, <1>5, <1>6
  <2> QED
    BY <2>1, <2>2, <1>3
<1> QED
  BY <1>2, <1>3, <1>4, <1>5, <1>7 DEF EachDecoded

LEMMA CommandPoll == ASSUME TypeInv, CommandInv, Poll PROVE CommandInv'
<1>1. UNCHANGED <<slot, got, ep1, app_tx_fifo, sent, hasty>> /\ pc = "cmd"
  BY DEF Poll, host
<1>2. EndsInv'
  BY <1>1 DEF CommandInv, EndsInv
<1>3. ASSUME ~hasty PROVE PatientInv'
  <2>1. PatientInv
    BY <1>3 DEF CommandInv
  <2>2. SlotTaken'
    BY <1>1, <2>1 DEF PatientInv, SlotTaken, slot
  <2>3. CASE app_cmd_len = 0
    BY <1>1, <2>1, <2>2, <2>3 DEF Poll, PatientInv, EachDecoded, InSlot, slot
  <2>4. CASE app_cmd_len = 1
    <3>1. EachDecoded'
      BY <1>1, <1>3, <2>1, <2>4, OneMoreHandled DEF Poll
    <3> QED
      BY <1>1, <2>2, <2>4, <3>1 DEF Poll, PatientInv, slot
  <2>5. CASE app_cmd_len = 2
    BY <1>1, <2>1, <2>2, <2>5 DEF Poll, PatientInv, EachDecoded, InSlot, slot
  <2> QED
    BY <2>3, <2>4, <2>5 DEF TypeInv, TypeOK
<1> QED
  BY <1>1, <1>2, <1>3 DEF CommandInv

\* A reply, or a block, behind what is in the FIFO.
LEMMA PutEnds ==
  ASSUME TypeOK, NEW len \in Nat, NEW ends \in Nat, Put(len, ends)
  PROVE  \A i \in 1 .. Len(app_tx_fifo') :
           \/ \E j \in 1 .. Len(app_tx_fifo) : app_tx_fifo'[i] = app_tx_fifo[j]
           \/ app_tx_fifo'[i].ends \in {0, ends}
<1>1. app_tx_fifo \in Seq(Byte) /\ written \in Nat /\ Len(app_tx_fifo) \in Nat
  BY LenProperties DEF TypeOK
<1> DEFINE L == Len(app_tx_fifo)
<1>2. /\ Len(app_tx_fifo') = L + len
      /\ \A i \in 1 .. L : app_tx_fifo'[i] = app_tx_fifo[i]
      /\ \A i \in L + 1 .. L + len : app_tx_fifo'[i].ends \in {0, ends}
  BY <1>1, PutBytes
<1> QED
  BY <1>1, <1>2

LEMMA CommandDecode == ASSUME TypeInv, CommandInv, Decode PROVE CommandInv'
<1>1. /\ UNCHANGED <<slot, got, ep1, sent, hasty, head>> /\ pc = "decode" /\ pc' = "clear"
      /\ handled' = Append(handled, [head |-> head.n, body |-> app_cmd_buf.n])
      /\ Put(ReplyLen, head.n) \/ UNCHANGED app_tx_fifo
  BY DEF Decode, host
<1>2. head.n \in Nat /\ head.n <= sent /\ sent \in Nat
  BY SizesHold DEF TypeInv, TypeOK, MessageInv, Message, Sizes
<1>3. EndsUpTo(app_tx_fifo, sent)'
  <2>1. CASE Put(ReplyLen, head.n)
    <3>1. \A i \in 1 .. Len(app_tx_fifo') :
            \/ \E j \in 1 .. Len(app_tx_fifo) : app_tx_fifo'[i] = app_tx_fifo[j]
            \/ app_tx_fifo'[i].ends \in {0, head.n}
      BY <1>2, <2>1, PutEnds, SizesHold DEF TypeInv, Sizes
    <3> QED
      BY <1>1, <1>2, <3>1 DEF CommandInv, EndsInv, EndsUpTo
  <2>2. CASE UNCHANGED app_tx_fifo
    BY <1>1, <2>2 DEF CommandInv, EndsInv
  <2> QED
    BY <1>1, <2>1, <2>2
<1>4. EndsInv'
  BY <1>1, <1>3 DEF CommandInv, EndsInv
<1>5. ASSUME ~hasty PROVE PatientInv'
  <2>1. PatientInv /\ head = app_cmd_buf /\ app_cmd_len # 0
    BY <1>1, <1>5 DEF CommandInv, PatientInv
  <2>2. SlotTaken'
    BY <1>1, <2>1 DEF PatientInv, SlotTaken, slot
  <2>3. EachDecoded'
    BY <1>1, <1>5, <2>1, OneMoreHandled
  <2> QED
    BY <1>1, <2>1, <2>2, <2>3 DEF PatientInv, slot
<1> QED
  BY <1>1, <1>4, <1>5 DEF CommandInv

LEMMA CommandClear == ASSUME TypeInv, CommandInv, Clear PROVE CommandInv'
<1>1. /\ UNCHANGED <<got, ep1, app_tx_fifo, sent, hasty, handled>>
      /\ pc = "clear" /\ pc' = "task" /\ app_cmd_len' = 0
  BY DEF Clear, host, count
<1> QED
  BY <1>1 DEF CommandInv, EndsInv, PatientInv, SlotTaken, EachDecoded, InSlot

LEMMA CommandTask == ASSUME TypeInv, CommandInv, Task PROVE CommandInv'
<1>1. /\ UNCHANGED <<slot, got, ep1, sent, hasty, handled>> /\ pc = "task" /\ pc' = "send"
      /\ Put(BlockLen, 0) \/ UNCHANGED app_tx_fifo
  BY DEF Task, host
<1>2. sent \in Nat /\ BlockLen \in Nat /\ 0 \in Nat
  BY SizesHold DEF TypeInv, TypeOK, Sizes
<1>3. \A i \in 1 .. Len(app_tx_fifo') :
        \/ \E j \in 1 .. Len(app_tx_fifo) : app_tx_fifo'[i] = app_tx_fifo[j]
        \/ app_tx_fifo'[i].ends = 0
  <2>1. CASE Put(BlockLen, 0)
    BY <1>2, <2>1, PutEnds DEF TypeInv
  <2>2. CASE UNCHANGED app_tx_fifo
    BY <2>2
  <2> QED
    BY <1>1, <2>1, <2>2
<1>4. EndsInv'
  BY <1>1, <1>2, <1>3 DEF CommandInv, EndsInv, EndsUpTo
<1>5. ASSUME ~hasty PROVE SlotTaken'
  BY <1>1, <1>2, <1>3, <1>5 DEF CommandInv, PatientInv, SlotTaken, NoneEnds, slot
<1> QED
  BY <1>1, <1>4, <1>5, CommandMoves DEF TypeInv

LEMMA CommandSend ==
  ASSUME TypeInv, CommandInv, Load \/ LoadEmpty \/ SendBusy \/ Arm
  PROVE  CommandInv'
<1>1. /\ UNCHANGED <<slot, got, sent, hasty, handled>>
      /\ pc \in {"send", "arm"} /\ pc' \in {"arm", "cmd"}
  BY DEF Load, LoadEmpty, SendBusy, Arm, host, count
<1>2. \A i \in 1 .. Len(app_tx_fifo') :
         \E j \in 1 .. Len(app_tx_fifo) : app_tx_fifo'[i] = app_tx_fifo[j]
  <2>1. CASE Load
    <3>1. PICK len \in 1 .. Len(app_tx_fifo) :
             /\ Len(app_tx_fifo') = Len(app_tx_fifo) - len
             /\ \A i \in 1 .. Len(app_tx_fifo) - len : app_tx_fifo'[i] = app_tx_fifo[len + i]
      BY <2>1, LoadBytes DEF TypeInv
    <3>2. Len(app_tx_fifo) \in Nat
      BY LenProperties DEF TypeInv, TypeOK
    <3>3. \A i \in 1 .. Len(app_tx_fifo) - len : len + i \in 1 .. Len(app_tx_fifo)
      BY <3>2
    <3> QED
      BY <3>1, <3>3
  <2>2. CASE UNCHANGED app_tx_fifo
    BY <2>2
  <2> QED
    BY <2>1, <2>2 DEF LoadEmpty, SendBusy, Arm
<1>3. \A i \in 1 .. Len(ep1'.data) :
         \/ \E j \in 1 .. Len(ep1.data) : ep1'.data[i] = ep1.data[j]
         \/ /\ pc = "send"
            /\ \E j \in 1 .. Len(app_tx_fifo) : ep1'.data[i] = app_tx_fifo[j]
  <2>1. CASE Load
    <3>1. PICK len \in 1 .. Len(app_tx_fifo) :
             /\ ep1' = [ack |-> FALSE, data |-> SubSeq(app_tx_fifo, 1, len)]
             /\ Len(SubSeq(app_tx_fifo, 1, len)) = len
             /\ \A i \in 1 .. len : SubSeq(app_tx_fifo, 1, len)[i] = app_tx_fifo[i]
      BY <2>1, LoadBytes DEF TypeInv
    <3>2. ep1'.data = SubSeq(app_tx_fifo, 1, len)
      BY <3>1
    <3>3. Len(app_tx_fifo) \in Nat
      BY LenProperties DEF TypeInv, TypeOK
    <3>4. \A i \in 1 .. len : i \in 1 .. Len(app_tx_fifo)
      BY <3>3
    <3> QED
      BY <2>1, <3>1, <3>2, <3>4 DEF Load
  <2>2. CASE ep1'.data = ep1.data
    BY <2>2
  <2>3. CASE ep1'.data = <<>>
    BY <2>3, EmptySeq
  <2>4. CASE LoadEmpty
    <3>1. ep1' = [ack |-> FALSE, data |-> <<>>] \/ ep1' = ep1
      BY <2>4 DEF LoadEmpty
    <3> QED
      BY <2>2, <2>3, <3>1
  <2>5. CASE SendBusy \/ Arm
    <3>1. ep1'.data = ep1.data
      BY <2>5 DEF SendBusy, Arm, TypeInv, TypeOK
    <3> QED
      BY <2>2, <3>1
  <2> QED
    BY <2>1, <2>4, <2>5
<1>4. EndsInv'
  BY <1>1, <1>2, <1>3 DEF CommandInv, EndsInv, EndsUpTo
<1>5. ASSUME ~hasty PROVE SlotTaken'
  BY <1>1, <1>2, <1>3, <1>5 DEF CommandInv, PatientInv, SlotTaken, NoneEnds, slot
<1> QED
  BY <1>1, <1>4, <1>5, CommandMoves DEF TypeInv

LEMMA CommandStep == TypeInv /\ CommandInv /\ [Next]_vars => CommandInv'
<1> SUFFICES ASSUME TypeInv, CommandInv, [Next]_vars PROVE CommandInv'
  OBVIOUS
<1>1. CASE UNCHANGED vars
  BY <1>1 DEF vars, slot, host, count, CommandInv, EndsInv, PatientInv, SlotTaken,
              EachDecoded, InSlot
<1> QED
  BY <1>1, CommandHost, CommandPoll, CommandDecode, CommandClear, CommandTask, CommandSend
  DEF Next, MainLoop

-----------------------------------------------------------------------------
(***************************************************************************)
(* Any host.  The messages are numbered as they are sent; what was dealt   *)
(* with is older than what the slot holds, and a message that the slot     *)
(* gets while another is decoded is younger than that one.                 *)
(***************************************************************************)
Done(n) == \A i \in 1 .. Len(handled) : handled[i].body < n

OnceInv ==
  /\ OnceInOrder
  /\ \A i \in 1 .. Len(handled) : handled[i].body <= app_cmd_buf.n
  /\ app_cmd_len # 0 /\ pc # "clear" => Done(app_cmd_buf.n)
  /\ pc = "decode" => app_cmd_len # 0 /\ head.n <= app_cmd_buf.n /\ Done(head.n)

LEMMA OnceInit == Init => OnceInv
<1>1. Len(<<>>) = 0
  BY EmptySeq
<1> QED
  BY <1>1 DEF Init, OnceInv, OnceInOrder

LEMMA Numbers ==
  TypeInv => /\ app_cmd_buf.n \in Nat /\ head.n \in Nat /\ sent \in Nat
             /\ Len(handled) \in Nat
             /\ \A i \in 1 .. Len(handled) : handled[i].head \in Nat /\ handled[i].body \in Nat
<1> SUFFICES ASSUME TypeInv
             PROVE  /\ app_cmd_buf.n \in Nat /\ head.n \in Nat /\ sent \in Nat
                    /\ Len(handled) \in Nat
                    /\ \A i \in 1 .. Len(handled) :
                         handled[i].head \in Nat /\ handled[i].body \in Nat
  OBVIOUS
<1>1. handled \in Seq([head : Nat, body : Nat])
  BY DEF TypeInv, TypeOK
<1>2. \A i \in 1 .. Len(handled) : handled[i] \in [head : Nat, body : Nat]
  BY <1>1, ElementOfSeq
<1> QED
  BY <1>1, <1>2, LenProperties, SizesHold DEF TypeInv, TypeOK, Message, Sizes

\* One message more, which none was before.
LEMMA OnceMore ==
  ASSUME TypeInv, OnceInv, NEW h \in Nat, NEW b \in Nat, h <= b, Done(h),
         handled' = Append(handled, [head |-> h, body |-> b])
  PROVE  /\ OnceInOrder'
         /\ \A i \in 1 .. Len(handled') : handled'[i].body <= b
<1> DEFINE e == [head |-> h, body |-> b]
           L == Len(handled)
<1>1. handled \in Seq([head : Nat, body : Nat]) /\ e \in [head : Nat, body : Nat]
  BY DEF TypeInv, TypeOK
<1>2. handled' = Append(handled, e) /\ e.head = h /\ e.body = b
  OBVIOUS
<1> HIDE DEF e
<1>3. /\ Len(handled') = L + 1
      /\ \A i \in 1 .. L : handled'[i] = handled[i]
      /\ handled'[L + 1] = e
  BY <1>1, <1>2, AppendProperties
<1>4. /\ L \in Nat
      /\ \A i \in 1 .. L : handled[i].head \in Nat /\ handled[i].body \in Nat
  BY Numbers
<1>5. \A i \in 1 .. L : handled[i].body < h
  BY DEF Done
<1> HIDE DEF L
<1>6. ASSUME NEW i \in 1 .. L + 1
      PROVE  handled'[i].head <= handled'[i].body /\ handled'[i].body <= b
  <2>1. CASE i = L + 1
    BY <2>1, <1>2, <1>3
  <2>2. CASE i \in 1 .. L
    BY <2>2, <1>3, <1>4, <1>5 DEF OnceInv, OnceInOrder, L
  <2>3. i = L + 1 \/ i \in 1 .. L
    BY <1>4
  <2> QED
    BY <2>1, <2>2, <2>3
<1>7. ASSUME NEW i \in 1 .. L + 1, NEW j \in 1 .. L + 1, i < j
      PROVE  handled'[i].body < handled'[j].head
  <2>0. L \in Nat
    BY <1>4
  <2>1. i \in 1 .. L
    BY <2>0, <1>7
  <2>2. CASE j = L + 1
    BY <2>1, <2>2, <1>2, <1>3, <1>5
  <2>3. CASE j \in 1 .. L
    BY <2>1, <2>3, <1>3, <1>7 DEF OnceInv, OnceInOrder, L
  <2>4. j = L + 1 \/ j \in 1 .. L
    BY <2>0
  <2> QED
    BY <2>2, <2>3, <2>4
<1> QED
  BY <1>3, <1>6, <1>7 DEF OnceInOrder

\* The host sends: the slot is as it was, or holds the youngest message.
LEMMA OnceTalk ==
  ASSUME TypeInv, OnceInv, UNCHANGED <<pc, head, handled>>,
         UNCHANGED slot \/ (app_cmd_len' # 0 /\ app_cmd_buf'.n = sent + 1)
  PROVE  OnceInv'
<1>1. CASE UNCHANGED slot
  BY <1>1 DEF OnceInv, OnceInOrder, Done, slot
<1>2. CASE app_cmd_len' # 0 /\ app_cmd_buf'.n = sent + 1
  <2>1. app_cmd_buf.n <= sent /\ head.n <= sent
    BY DEF TypeInv, MessageInv
  <2>2. \A i \in 1 .. Len(handled) : handled[i].body < sent + 1
    BY <2>1, Numbers DEF OnceInv
  <2>3. sent + 1 \in Nat
    BY Numbers
  <2> QED
    BY <1>2, <2>1, <2>2, <2>3, Numbers DEF OnceInv, OnceInOrder, Done
<1> QED
  BY <1>1, <1>2

LEMMA OnceStep == TypeInv /\ OnceInv /\ [Next]_vars => OnceInv'
<1> SUFFICES ASSUME TypeInv, OnceInv, [Next]_vars PROVE OnceInv'
  OBVIOUS
<1>1. ASSUME NEW kind \in Kind \ {"line"}, HostCommand(kind) PROVE OnceInv'
  <2>1. \/ UNCHANGED slot
        \/ app_cmd_len' # 0 /\ app_cmd_buf'.n = sent + 1
    BY <1>1 DEF HostCommand
  <2> QED
    BY <1>1, <2>1, OnceTalk DEF HostCommand, count
<1>2. CASE HostLineState
  BY <1>2, OnceTalk DEF HostLineState, count
<1>3. CASE HostIn \/ HostReset
  BY <1>3, OnceTalk DEF HostIn, HostReset, count
<1>4. CASE Poll
  <2>1. UNCHANGED slot /\ pc = "cmd"
    BY <1>4 DEF Poll
  <2>2. CASE app_cmd_len = 0
    BY <1>4, <2>1, <2>2 DEF Poll, slot, OnceInv, OnceInOrder, Done
  <2>3. CASE app_cmd_len = 1
    <3>1. /\ Done(app_cmd_buf.n) /\ pc' = "clear"
          /\ handled' = Append(handled, [head |-> app_cmd_buf.n, body |-> app_cmd_buf.n])
      BY <1>4, <2>1, <2>3 DEF Poll, OnceInv
    <3>2. /\ OnceInOrder'
          /\ \A i \in 1 .. Len(handled') : handled'[i].body <= app_cmd_buf.n
      BY <3>1, OnceMore, Numbers
    <3> QED
      BY <2>1, <3>1, <3>2 DEF OnceInv, slot
  <2>4. CASE app_cmd_len = 2
    <3>1. Done(app_cmd_buf.n) /\ head' = app_cmd_buf /\ pc' = "decode" /\ UNCHANGED handled
      BY <1>4, <2>1, <2>4 DEF Poll, OnceInv
    <3> QED
      BY <2>1, <2>4, <3>1, Numbers DEF OnceInv, OnceInOrder, Done, slot
  <2> QED
    BY <2>2, <2>3, <2>4 DEF TypeInv, TypeOK
<1>5. CASE Decode
  <2>1. /\ UNCHANGED slot /\ pc' = "clear"
        /\ head.n <= app_cmd_buf.n /\ Done(head.n)
        /\ handled' = Append(handled, [head |-> head.n, body |-> app_cmd_buf.n])
    BY <1>5 DEF Decode, OnceInv
  <2>2. /\ OnceInOrder'
        /\ \A i \in 1 .. Len(handled') : handled'[i].body <= app_cmd_buf.n
    BY <2>1, OnceMore, Numbers
  <2> QED
    BY <2>1, <2>2 DEF OnceInv, slot
<1>6. CASE Clear
  BY <1>6 DEF Clear, count, OnceInv, OnceInOrder, Done
<1>7. CASE Task \/ Load \/ LoadEmpty \/ SendBusy \/ Arm
  <2>1. /\ UNCHANGED <<slot, head, handled>>
        /\ pc \notin {"clear", "decode"} /\ pc' \notin {"clear", "decode"}
    BY <1>7 DEF Task, Load, LoadEmpty, SendBusy, Arm, count
  <2> QED
    BY <2>1 DEF OnceInv, OnceInOrder, Done, slot
<1>8. CASE UNCHANGED vars
  BY <1>8, OnceTalk DEF vars, count
<1> QED
  BY <1>1, <1>2, <1>3, <1>4, <1>5, <1>6, <1>7, <1>8 DEF Next, Host, MainLoop

\* Whenever the host sends, no message is decoded twice or after a later one;
\* a host that has always waited loses none, through any resets and refused
\* replies.
THEOREM NoCommandIsLost == Spec => []NoCommandLost
<1>1. CommandInv /\ OnceInv => NoCommandLost
  BY DEF CommandInv, PatientInv, OnceInv, NoCommandLost
<1> QED
  BY TypeInit, TypeStep, CommandInit, CommandStep, OnceInit, OnceStep, <1>1,
     PTL DEF Spec
=============================================================================
