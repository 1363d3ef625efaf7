------------------------------ MODULE UsbLink ------------------------------
(***************************************************************************)
(* The USB side of the CH58x firmware: Main.c and endpoint 1 of app_usb.c. *)
(*                                                                         *)
(*   host --OUT--> USB_IRQHandler --app_cmd_buf--> main loop               *)
(*   main loop --app_tx_fifo--> EP1_Databuf --IN--> host                   *)
(*                                                                         *)
(* app_cmd_buf is one slot: app_cmd_len says whether it is taken.  The     *)
(* main loop decodes a command in place and gives the slot back at the     *)
(* end.  SET_CONTROL_LINE_STATE is made a command by the interrupt, which  *)
(* then does not look whether the slot is taken.  The FIFO is the queue of *)
(* ByteQueue; the blocks of I2CDevTask come from SampleRing.               *)
(***************************************************************************)
EXTENDS Naturals, Sequences

CONSTANTS
  Packet,       \* MAX_TX_PACKET_SIZE
  Capacity,     \* APP_TX_BUFFER_LENGTH
  ReplyLen,     \* bytes of a reply
  BlockLen,     \* bytes of a block of samples
  MaxMessages,  \* bound: commands and line states
  MaxBlocks,    \* bound: blocks of samples
  MaxResets     \* bound: resets of the endpoint

ASSUME SizesAssumption ==
  /\ Packet \in Nat \ {0}
  /\ Capacity \in Nat /\ ReplyLen \in Nat \ {0} /\ BlockLen \in Nat \ {0}
  /\ Packet < Capacity
ASSUME LinkAssumption ==
  /\ MaxMessages \in Nat /\ MaxBlocks \in Nat /\ MaxResets \in Nat

(***************************************************************************)
(* What the host sends: a command with a reply, one without, one of a      *)
(* single byte, which is ignored, or a line state.                         *)
(***************************************************************************)
Kind == {"ask", "tell", "short", "line"}

\* A byte of the FIFO: its number, and the message it is the end of the
\* reply to (0: none).
Byte == [n : Nat, ends : Nat]

VARIABLES
  app_cmd_len,   \* 0: the slot is free; 1: a single byte; 2: a command
  app_cmd_buf,   \* message in the slot
  head,          \* message whose head cmd_decode has looked at
  pc,            \* where the main loop is
  app_tx_fifo,
  ep1,           \* IN side of endpoint 1: armed, and the packet
  old_send_len,  \* length of the last packet, for the zero-length packet
  \* The host:
  sent,          \* messages sent
  got,           \* bytes received
  held,          \* bytes of the transfer that no short packet has ended yet
  \* History:
  hasty,         \* the host has sent before the last message was dealt with
  handled,       \* messages dealt with: whose head, whose body
  written,       \* bytes put into the FIFO
  refused,       \* messages whose reply found no room
  blocks,
  resets

host == <<sent, got, held, hasty>>
slot == <<app_cmd_len, app_cmd_buf>>
count == <<handled, written, refused, blocks, resets>>
vars == <<slot, head, pc, app_tx_fifo, ep1, old_send_len, host, count>>

Message == [kind : Kind, n : Nat]

TypeOK ==
  /\ app_cmd_len \in 0 .. 2
  /\ app_cmd_buf \in Message
  /\ head \in Message
  /\ pc \in {"cmd", "decode", "clear", "task", "send", "arm"}
  /\ app_tx_fifo \in Seq(Byte) /\ Len(app_tx_fifo) <= Capacity
  /\ ep1 \in [ack : BOOLEAN, data : Seq(Byte)] /\ Len(ep1.data) <= Packet
  /\ old_send_len \in 0 .. Packet
  /\ sent \in 0 .. MaxMessages
  /\ got \in Seq(Byte)
  /\ held \in Nat
  /\ hasty \in BOOLEAN
  /\ handled \in Seq([head : Nat, body : Nat])
  /\ written \in Nat
  /\ refused \subseteq 1 .. MaxMessages
  /\ blocks \in 0 .. MaxBlocks
  /\ resets \in 0 .. MaxResets

NoMessage == [kind |-> "short", n |-> 0]

Init ==
  /\ app_cmd_len = 0
  /\ app_cmd_buf = NoMessage
  /\ head = NoMessage
  /\ pc = "cmd"
  /\ app_tx_fifo = <<>>
  /\ ep1 = [ack |-> FALSE, data |-> <<>>]
  /\ old_send_len = 0
  /\ sent = 0
  /\ got = <<>>
  /\ held = 0
  /\ hasty = FALSE
  /\ handled = <<>>
  /\ written = 0
  /\ refused = {}
  /\ blocks = 0
  /\ resets = 0

-----------------------------------------------------------------------------
(***************************************************************************)
(* The host and the USB interrupt, at any moment of the main loop.         *)
(***************************************************************************)

(***************************************************************************)
(* The last message is dealt with: its reply has come, or none will (a     *)
(* reset may have taken it) and the slot has been given back.  No host is  *)
(* bound by it: the web page waits 100 ms for a reply at most, its Stop()  *)
(* 5 ms whatever comes, and the port is opened and closed (line state) by  *)
(* others than the program.                                                *)
(***************************************************************************)
Dealt ==
  \/ sent = 0
  \/ \E i \in 1 .. Len(got) : got[i].ends = sent
  \/ /\ app_cmd_len = 0
     /\ app_cmd_buf.kind # "ask" \/ sent \in refused \/ resets > 0

Talk ==
  /\ sent < MaxMessages
  /\ sent' = sent + 1
  /\ hasty' = (hasty \/ ~Dealt)

\* An OUT packet: DevEP1_OUT_Deal.  The packet is acknowledged either way.
HostCommand(kind) ==
  /\ Talk
  /\ \/ /\ app_cmd_len = 0
        /\ app_cmd_buf' = [kind |-> kind, n |-> sent + 1]
        /\ app_cmd_len' = IF kind = "short" THEN 1 ELSE 2
     \/ /\ app_cmd_len # 0
        /\ UNCHANGED slot
  /\ UNCHANGED <<head, pc, app_tx_fifo, ep1, old_send_len, got,
                 held, count>>

\* SET_CONTROL_LINE_STATE.
HostLineState ==
  /\ Talk
  /\ app_cmd_buf' = [kind |-> "line", n |-> sent + 1]
  /\ app_cmd_len' = 2
  /\ UNCHANGED <<head, pc, app_tx_fifo, ep1, old_send_len, got,
                 held, count>>

(***************************************************************************)
(* An IN token: the packet goes to the host, the endpoint back to NAK.  A  *)
(* packet shorter than the longest ends the host's transfer.               *)
(***************************************************************************)
HostIn ==
  /\ ep1.ack
  /\ ep1' = [ep1 EXCEPT !.ack = FALSE]
  /\ got' = got \o ep1.data
  /\ held' = IF Len(ep1.data) = Packet THEN held + Packet ELSE 0
  /\ UNCHANGED <<slot, head, pc, app_tx_fifo, old_send_len, sent, hasty, count>>

\* Bus reset, or CLEAR_FEATURE for the endpoint or the device.  The host has
\* given up the transfer.
HostReset ==
  /\ resets < MaxResets
  /\ resets' = resets + 1
  /\ ep1' = [ep1 EXCEPT !.ack = FALSE]
  /\ held' = 0
  /\ UNCHANGED <<slot, head, pc, app_tx_fifo, old_send_len, sent, got, hasty,
                 handled, written, refused, blocks>>

-----------------------------------------------------------------------------
(***************************************************************************)
(* The main loop.                                                          *)
(***************************************************************************)

\* The bytes of a block: all of them or none go into the FIFO.
Fits(len) == len <= Capacity - Len(app_tx_fifo)

Put(len, ends) ==
  /\ app_tx_fifo' = app_tx_fifo \o
       [k \in 1 .. len |-> [n |-> written + k,
                            ends |-> IF k = len THEN ends ELSE 0]]
  /\ written' = written + len

\* The command in the slot, if any; cmd_decode looks at its head first.
Poll ==
  /\ pc = "cmd"
  /\ \/ /\ app_cmd_len = 0
        /\ pc' = "task"
        /\ UNCHANGED <<head, handled>>
     \/ /\ app_cmd_len = 1
        /\ pc' = "clear"
        /\ handled' = Append(handled,
                             [head |-> app_cmd_buf.n, body |-> app_cmd_buf.n])
        /\ UNCHANGED head
     \/ /\ app_cmd_len = 2
        /\ pc' = "decode"
        /\ head' = app_cmd_buf
        /\ UNCHANGED handled
  /\ UNCHANGED <<slot, app_tx_fifo, ep1, old_send_len, host, written, refused,
                 blocks, resets>>

\* The rest of cmd_decode, with the body that is in the slot by now; a reply
\* that finds no room in the FIFO is dropped.
Decode ==
  /\ pc = "decode"
  /\ handled' = Append(handled, [head |-> head.n, body |-> app_cmd_buf.n])
  /\ \/ /\ head.kind = "ask"
        /\ Fits(ReplyLen)
        /\ Put(ReplyLen, head.n)
        /\ UNCHANGED refused
     \/ /\ head.kind = "ask"
        /\ ~Fits(ReplyLen)
        /\ refused' = refused \cup {head.n}
        /\ UNCHANGED <<app_tx_fifo, written>>
     \/ /\ head.kind # "ask"
        /\ UNCHANGED <<app_tx_fifo, written, refused>>
  /\ pc' = "clear"
  /\ UNCHANGED <<slot, head, ep1, old_send_len, host, blocks, resets>>

\* Mutant of Clear: the slot is not given back.
ClearForgotten ==
  /\ pc = "clear"
  /\ pc' = "task"
  /\ UNCHANGED <<slot, head, app_tx_fifo, ep1, old_send_len, host, count>>

\* app_cmd_len = 0, whatever has come into the slot since.
Clear ==
  /\ pc = "clear"
  /\ app_cmd_len' = 0
  /\ pc' = "task"
  /\ UNCHANGED <<app_cmd_buf, head, app_tx_fifo, ep1, old_send_len, host, count>>

\* I2CDevTask: it may have a block, and the FIFO room for it.
Task ==
  /\ pc = "task"
  /\ pc' = "send"
  /\ \/ UNCHANGED <<app_tx_fifo, written, blocks>>
     \/ /\ blocks < MaxBlocks
        /\ blocks' = blocks + 1
        /\ Fits(BlockLen)
        /\ Put(BlockLen, 0)
     \/ /\ blocks < MaxBlocks
        /\ blocks' = blocks + 1
        /\ ~Fits(BlockLen)
        /\ UNCHANGED <<app_tx_fifo, written>>
  /\ UNCHANGED <<slot, head, ep1, old_send_len, host, handled, refused, resets>>

\* Mutants of Load: the packet in the endpoint is not waited for; a short
\* packet waits.
LoadOverArmed ==
  /\ pc = "send"
  /\ app_tx_fifo # <<>>
  /\ LET len == IF Len(app_tx_fifo) > Packet THEN Packet ELSE Len(app_tx_fifo)
     IN  /\ ep1' = [ack |-> FALSE, data |-> SubSeq(app_tx_fifo, 1, len)]
         /\ app_tx_fifo' = SubSeq(app_tx_fifo, len + 1, Len(app_tx_fifo))
         /\ old_send_len' = len
  /\ pc' = "arm"
  /\ UNCHANGED <<slot, head, host, count>>

LoadFullOnly ==
  /\ pc = "send"
  /\ ~ep1.ack
  /\ \/ /\ Len(app_tx_fifo) >= Packet
        /\ ep1' = [ack |-> FALSE, data |-> SubSeq(app_tx_fifo, 1, Packet)]
        /\ app_tx_fifo' = SubSeq(app_tx_fifo, Packet + 1, Len(app_tx_fifo))
        /\ old_send_len' = Packet
        /\ pc' = "arm"
     \/ /\ Len(app_tx_fifo) < Packet
        /\ pc' = "cmd"
        /\ UNCHANGED <<app_tx_fifo, ep1, old_send_len>>
  /\ UNCHANGED <<slot, head, host, count>>

\* USBSendData up to the arming of the endpoint: the next packet is moved
\* from the FIFO to the endpoint's buffer.
Load ==
  /\ pc = "send"
  /\ ~ep1.ack
  /\ app_tx_fifo # <<>>
  /\ LET len == IF Len(app_tx_fifo) > Packet THEN Packet ELSE Len(app_tx_fifo)
     IN  /\ ep1' = [ack |-> FALSE, data |-> SubSeq(app_tx_fifo, 1, len)]
         /\ app_tx_fifo' = SubSeq(app_tx_fifo, len + 1, Len(app_tx_fifo))
         /\ old_send_len' = len
  /\ pc' = "arm"
  /\ UNCHANGED <<slot, head, host, count>>

\* Mutant of LoadEmpty: the last packet's length is not looked at.
LoadNothing ==
  /\ pc = "send"
  /\ ~ep1.ack
  /\ app_tx_fifo = <<>>
  /\ pc' = "cmd"
  /\ UNCHANGED <<slot, head, app_tx_fifo, ep1, old_send_len, host, count>>

\* The FIFO is empty: after a full packet, a zero-length one.
LoadEmpty ==
  /\ pc = "send"
  /\ ~ep1.ack
  /\ app_tx_fifo = <<>>
  /\ \/ /\ old_send_len = Packet
        /\ ep1' = [ack |-> FALSE, data |-> <<>>]
        /\ old_send_len' = 0
        /\ pc' = "arm"
     \/ /\ old_send_len # Packet
        /\ pc' = "cmd"
        /\ UNCHANGED <<ep1, old_send_len>>
  /\ UNCHANGED <<slot, head, app_tx_fifo, host, count>>

SendBusy ==
  /\ pc = "send"
  /\ ep1.ack
  /\ pc' = "cmd"
  /\ UNCHANGED <<slot, head, app_tx_fifo, ep1, old_send_len, host, count>>

\* UEP_T_RES_ACK, with the interrupt shut out.
Arm ==
  /\ pc = "arm"
  /\ ep1' = [ep1 EXCEPT !.ack = TRUE]
  /\ pc' = "cmd"
  /\ UNCHANGED <<slot, head, app_tx_fifo, old_send_len, host, count>>

-----------------------------------------------------------------------------
MainLoop ==
  \/ Poll
  \/ Decode
  \/ Clear
  \/ Task
  \/ Load
  \/ LoadEmpty
  \/ SendBusy
  \/ Arm

Host ==
  \/ \E kind \in Kind \ {"line"} : HostCommand(kind)
  \/ HostLineState
  \/ HostIn
  \/ HostReset

Next == MainLoop \/ Host

Spec == Init /\ [][Next]_vars

\* The main loop goes round, and the host polls the endpoint while the port
\* is open.
FairSpec == Spec /\ WF_vars(MainLoop) /\ WF_vars(HostIn)

-----------------------------------------------------------------------------
(***************************************************************************)
(* Properties.                                                             *)
(***************************************************************************)

\* The packet on its way: loaded, and armed or about to be.
InFlight == IF ep1.ack \/ pc = "arm" THEN ep1.data ELSE <<>>

Wire == got \o InFlight \o app_tx_fifo

(***************************************************************************)
(* Replies and blocks reach the host in the order in which they were       *)
(* written, no byte twice, and none is missing unless the endpoint was     *)
(* reset with a packet in it.                                              *)
(***************************************************************************)
WireInOrder ==
  /\ \A i \in 1 .. Len(Wire) - 1 : Wire[i].n < Wire[i + 1].n
  /\ resets = 0 => Len(Wire) = written

(***************************************************************************)
(* Whenever the host sends, each message is decoded once at most, and none *)
(* after a later one: the interrupt may put a line state into the slot     *)
(* while the main loop decodes, and the head of one message be carried out *)
(* with the body of that one, but neither is met again.  A host that has   *)
(* sent each message when the last one was dealt with has lost none: each  *)
(* is decoded, head and body of the same message.  That rests on the reply *)
(* being sent only after the slot was given back.                          *)
(***************************************************************************)
InSlot == IF app_cmd_len # 0 /\ pc # "clear" THEN 1 ELSE 0

OnceInOrder ==
  /\ \A i \in 1 .. Len(handled) : handled[i].head <= handled[i].body
  /\ \A i, j \in 1 .. Len(handled) : i < j => handled[i].body < handled[j].head

EachDecoded ==
  /\ Len(handled) + InSlot = sent
  /\ \A i \in 1 .. Len(handled) : handled[i] = [head |-> i, body |-> i]

NoCommandLost == OnceInOrder /\ (~hasty => EachDecoded)

(***************************************************************************)
(* What the host has received becomes visible to its program: each         *)
(* transfer is ended by a short packet, a zero-length one if need be.      *)
(***************************************************************************)
TransferEnds == held # 0 ~> held = 0

(***************************************************************************)
(* The reply to a command that is decoded, and finds room in the FIFO,     *)
(* arrives, unless the endpoint is reset.                                  *)
(***************************************************************************)
ReplyArrives ==
  \A m \in 1 .. MaxMessages :
    (\E i \in 1 .. Len(app_tx_fifo) : app_tx_fifo[i].ends = m)
      ~> (resets > 0 \/ \E i \in 1 .. Len(got) : got[i].ends = m)

=============================================================================
