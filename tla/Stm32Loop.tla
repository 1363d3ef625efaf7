----------------------------- MODULE Stm32Loop -----------------------------
(***************************************************************************)
(* The STM32F103 firmware (STM32F103/Main: main.c, and the endpoints of    *)
(* hw_config.c, usb_endp.c and usb_prop.c).                                *)
(*                                                                         *)
(* One loop serves three senders over one endpoint: the reply to a command *)
(* goes before an error block, and that before a block of samples.         *)
(* packet_sent says that the endpoint is free.  A command is decoded where *)
(* it was received, in Receive_Buffer, and the reply is built there.       *)
(* TIM2_IRQHandler reads a register per tick; a read that fails stops the  *)
(* timer and asks for an error block.                                      *)
(***************************************************************************)
EXTENDS Naturals, Sequences

CONSTANTS
  BufSize,      \* I2C_BUF_SIZE
  PktRoom,      \* samples that fit send_pkt and the endpoint
  MaxReadRegs,  \* MAX_READ_REGS
  Configs,      \* what the host may put in cfg_i2c
  MaxLag,       \* samples the timer may run ahead of a collected block
  MaxTaken,     \* bound: samples per measurement
  MaxCommands,  \* bound: commands
  MaxResets     \* bound: resets of the bus

Slot == 0 .. BufSize - 1

Config == [pktcnt : Nat, regs : 1 .. MaxReadRegs, tooFast : BOOLEAN]

ASSUME SizesAssumption ==
  /\ BufSize \in Nat \ {0, 1}
  /\ PktRoom \in Nat \ {0}
  /\ MaxReadRegs \in Nat \ {0}
  /\ Configs \subseteq Config
ASSUME LoopAssumption ==
  /\ MaxLag \in Nat /\ MaxTaken \in Nat
  /\ MaxCommands \in Nat /\ MaxResets \in Nat

VARIABLES
  \* Sampling:
  cfg_i2c,
  timer,           \* TIM2 counts
  timer_flg,
  raddr,           \* index in cfg_i2c.rd
  i2c_buf,         \* of a slot: number of its sample, and whether it was read
  i2c_buf_wr,
  i2c_buf_rd,
  send_err,        \* an error block is to be sent
  all_rd_count,
  \* USB:
  configured,      \* bDeviceState = CONFIGURED
  ep3,             \* the OUT endpoint takes a packet
  Receive_length,  \* Receive_Buffer holds a packet
  Receive_Buffer,
  packet_sent,
  ep1,             \* packet in the IN endpoint
  \* The loop:
  pc,
  send_pkt,        \* samples of the block being built
  \* The host, and history:
  sent,            \* commands sent
  answered,        \* command whose reply came last
  hasty,           \* it has sent one before the last was dealt with
  handled,         \* commands decoded, in order
  taken,           \* samples since the set-up
  given,           \* samples given to the endpoint since the set-up
  resets

sampling == <<cfg_i2c, timer, timer_flg, raddr, i2c_buf, i2c_buf_wr, i2c_buf_rd,
              send_err, all_rd_count, taken, given>>
receive == <<ep3, Receive_length, Receive_Buffer>>
transmit == <<packet_sent, ep1>>
host == <<sent, answered, hasty, resets>>
vars == <<sampling, configured, receive, transmit, pc, send_pkt, host, handled>>

Sample == [seq : Nat, good : BOOLEAN]

\* A command, with the configuration of a CMD_DEV_CFG.
Command == [kind : {"cfg", "reg", "ask"}, n : Nat, cfg : Config]

None == [kind |-> "none", n |-> 0, data |-> <<>>]
Packet == [kind : {"none", "reply", "error", "block"}, n : Nat, data : Seq(Sample)]

Quiet == [pktcnt |-> 0, regs |-> 1, tooFast |-> FALSE]

TypeOK ==
  /\ cfg_i2c \in Config
  /\ timer \in BOOLEAN /\ timer_flg \in BOOLEAN
  /\ raddr \in 0 .. MaxReadRegs - 1
  /\ i2c_buf \in [Slot -> Sample]
  /\ i2c_buf_wr \in Slot /\ i2c_buf_rd \in Slot
  /\ send_err \in BOOLEAN
  /\ all_rd_count \in Nat
  /\ configured \in BOOLEAN
  /\ ep3 \in BOOLEAN /\ Receive_length \in BOOLEAN
  /\ Receive_Buffer \in Command
  /\ packet_sent \in BOOLEAN
  /\ ep1 \in Packet
  /\ pc \in {"arm", "look", "start", "bus", "copy", "reply", "clear"}
  /\ send_pkt \in Seq(Sample) /\ Len(send_pkt) <= PktRoom
  /\ sent \in Nat /\ answered \in Nat /\ resets \in Nat
  /\ hasty \in BOOLEAN
  /\ handled \in Seq(Nat)
  /\ taken \in Nat /\ given \in Nat

\* After the InitExtDevice of main: settings with pktcnt = 0, no timer.  The
\* host has not configured the device yet.
Init ==
  /\ cfg_i2c = Quiet
  /\ timer = FALSE
  /\ timer_flg = FALSE
  /\ raddr = 0
  /\ i2c_buf = [i \in Slot |-> [seq |-> 0, good |-> FALSE]]
  /\ i2c_buf_wr = 0
  /\ i2c_buf_rd = 0
  /\ send_err = FALSE
  /\ all_rd_count = 0
  /\ configured = FALSE
  /\ ep3 = TRUE
  /\ Receive_length = FALSE
  /\ Receive_Buffer = [kind |-> "ask", n |-> 0, cfg |-> Quiet]
  /\ packet_sent = TRUE
  /\ ep1 = None
  /\ pc = "arm"
  /\ send_pkt = <<>>
  /\ sent = 0
  /\ answered = 0
  /\ hasty = FALSE
  /\ handled = <<>>
  /\ taken = 0
  /\ given = 0
  /\ resets = 0

-----------------------------------------------------------------------------
(***************************************************************************)
(* The timer interrupt.                                                    *)
(***************************************************************************)
Succ(i) == (i + 1) % BufSize

Pending == (i2c_buf_wr + BufSize - i2c_buf_rd) % BufSize

NextReg(r) == IF r + 1 < cfg_i2c.regs THEN r + 1 ELSE 0

\* How far the timer gets is a matter of the host's speed only.
Timely ==
  taken < all_rd_count + (IF pc = "copy" THEN Len(send_pkt) ELSE 0)
            + cfg_i2c.pktcnt + 1 + MaxLag

\* The slot is used up all the same.
ReadFails ==
  /\ timer' = FALSE
  /\ send_err' = TRUE
  /\ UNCHANGED raddr

GetNewRegData(ok) ==
  /\ i2c_buf' = [i2c_buf EXCEPT ![i2c_buf_wr] = [seq |-> taken, good |-> ok]]
  /\ i2c_buf_wr' = Succ(i2c_buf_wr)
  /\ taken' = taken + 1
  /\ \/ ok /\ raddr' = NextReg(raddr) /\ UNCHANGED <<timer, send_err>>
     \/ ~ok /\ ReadFails

TIM2_IRQHandler ==
  /\ timer
  /\ timer_flg
  /\ taken < MaxTaken
  /\ Timely
  /\ \E ok \in BOOLEAN : GetNewRegData(ok)
  /\ UNCHANGED <<cfg_i2c, timer_flg, i2c_buf_rd, all_rd_count, given,
                 configured, receive, transmit, pc, send_pkt, host, handled>>

-----------------------------------------------------------------------------
(***************************************************************************)
(* The host, through the USB interrupt.                                    *)
(***************************************************************************)
\* The last command is dealt with: its reply has come, and the loop, which
\* sends the reply first, has taken the command off.  No host is bound to
\* wait for it.
Dealt == answered = sent /\ pc # "clear"

\* EP3_OUT_Callback: whatever is in Receive_Buffer is overwritten; the
\* endpoint takes no other packet before the next CDC_Receive_DATA.
HostOut(kind, c) ==
  /\ configured
  /\ ep3
  /\ sent < MaxCommands
  /\ sent' = sent + 1
  /\ hasty' = (hasty \/ ~Dealt)
  /\ ep3' = FALSE
  /\ Receive_length' = TRUE
  /\ Receive_Buffer' = [kind |-> kind, n |-> sent + 1, cfg |-> c]
  /\ UNCHANGED <<sampling, configured, transmit, pc, send_pkt, answered, resets,
                 handled>>

\* The packet is fetched: EP1_IN_Callback.
HostIn ==
  /\ configured
  /\ ep1 # None
  /\ ep1' = None
  /\ packet_sent' = TRUE
  /\ answered' = IF ep1.kind = "reply" THEN ep1.n ELSE answered
  /\ UNCHANGED <<sampling, configured, receive, pc, send_pkt, sent, hasty, resets,
                 handled>>

\* Virtual_Com_Port_Reset: packet_sent is left as it is.
HostReset ==
  /\ resets < MaxResets
  /\ resets' = resets + 1
  /\ configured' = FALSE
  /\ ep1' = None
  /\ ep3' = TRUE
  /\ UNCHANGED <<sampling, Receive_length, Receive_Buffer, packet_sent, pc,
                 send_pkt, sent, answered, hasty, handled>>

\* Virtual_Com_Port_SetConfiguration.
HostConfigure ==
  /\ ~configured
  /\ configured' = TRUE
  /\ UNCHANGED <<sampling, receive, transmit, pc, send_pkt, host, handled>>

-----------------------------------------------------------------------------
(***************************************************************************)
(* The loop.  What it tests under pc = "look" it tests one after the       *)
(* other; each flag is only raised by an interrupt, so that a test made    *)
(* too early is the same as an interrupt that came later.                  *)
(***************************************************************************)

\* CDC_Receive_DATA.
Arm ==
  /\ pc = "arm"
  /\ configured
  /\ ep3' = TRUE
  /\ pc' = "look"
  /\ UNCHANGED <<sampling, configured, Receive_length, Receive_Buffer, transmit,
                 send_pkt, host, handled>>

\* Mutant of Free: the flag is not looked at.
FreeAlways == pc = "look"

Free == pc = "look" /\ packet_sent

Busy ==
  /\ pc = "look"
  /\ ~packet_sent
  /\ pc' = "arm"
  /\ UNCHANGED <<sampling, configured, receive, transmit, send_pkt, host, handled>>

\* Mutant of GateShut: the gate stays open.
GateShutForgotten == UNCHANGED timer_flg

GateShut == timer_flg' = FALSE

Decode ==
  /\ Free
  /\ Receive_length
  /\ handled' = Append(handled, Receive_Buffer.n)
  /\ \/ /\ Receive_Buffer.kind = "cfg"
        /\ timer_flg' = FALSE
        /\ cfg_i2c' = Receive_Buffer.cfg
        /\ pc' = "start"
     \/ /\ Receive_Buffer.kind = "reg"
        /\ GateShut
        /\ pc' = "bus"
        /\ UNCHANGED cfg_i2c
     \/ /\ Receive_Buffer.kind = "ask"
        /\ pc' = "reply"
        /\ UNCHANGED <<cfg_i2c, timer_flg>>
  /\ UNCHANGED <<timer, raddr, i2c_buf, i2c_buf_wr, i2c_buf_rd, send_err,
                 all_rd_count, taken, given, configured, receive, transmit,
                 send_pkt, host>>

\* Read or written, or not: the interrupt is let in again.
RegDone ==
  /\ pc = "bus"
  /\ timer_flg' = TRUE
  /\ pc' = "reply"
  /\ UNCHANGED <<cfg_i2c, timer, raddr, i2c_buf, i2c_buf_wr, i2c_buf_rd, send_err,
                 all_rd_count, taken, given, configured, receive, transmit,
                 send_pkt, host, handled>>

\* Mutant of FlushI2CBuf: the read index stays.
FlushKeepsRd ==
  /\ raddr' = 0
  /\ i2c_buf_wr' = 0
  /\ taken' = 0
  /\ given' = 0
  /\ UNCHANGED i2c_buf_rd

FlushI2CBuf ==
  /\ raddr' = 0
  /\ i2c_buf_wr' = 0
  /\ i2c_buf_rd' = 0
  /\ taken' = 0
  /\ given' = 0

\* sizeof(send_pkt.data.ui), in bytes, where the samples are of two.
PktLimit == 2 * PktRoom

Clamp(n) == IF n > PktLimit THEN PktLimit ELSE n

\* Mutant of InitRefused: no reply.
InitRefusedSilent ==
  /\ pc = "start"
  /\ cfg_i2c.tooFast
  /\ timer' = FALSE
  /\ cfg_i2c' = [cfg_i2c EXCEPT !.pktcnt = 0]
  /\ pc' = "clear"
  /\ UNCHANGED <<timer_flg, raddr, i2c_buf, i2c_buf_wr, i2c_buf_rd, send_err,
                 all_rd_count, taken, given, configured, receive, transmit,
                 send_pkt, host, handled>>

\* InitExtDevice, period too short.
InitRefused ==
  /\ pc = "start"
  /\ cfg_i2c.tooFast
  /\ timer' = FALSE
  /\ cfg_i2c' = [cfg_i2c EXCEPT !.pktcnt = 0]
  /\ pc' = "reply"
  /\ UNCHANGED <<timer_flg, raddr, i2c_buf, i2c_buf_wr, i2c_buf_rd, send_err,
                 all_rd_count, taken, given, configured, receive, transmit,
                 send_pkt, host, handled>>

\* InitExtDevice; a register that cannot be written ends it.
InitExtDevice ==
  /\ pc = "start"
  /\ ~cfg_i2c.tooFast
  /\ FlushI2CBuf
  /\ LET n == Clamp(cfg_i2c.pktcnt) IN
       /\ all_rd_count' = IF n > 0 THEN 0 ELSE all_rd_count
       /\ \/ /\ cfg_i2c' = [cfg_i2c EXCEPT !.pktcnt = n]
             /\ timer' = (n > 0)
             /\ timer_flg' = TRUE
          \/ /\ cfg_i2c' = [cfg_i2c EXCEPT !.pktcnt = 0]
             /\ timer' = FALSE
             /\ UNCHANGED timer_flg
  /\ pc' = "reply"
  /\ UNCHANGED <<i2c_buf, send_err, configured, receive, transmit, send_pkt, host,
                 handled>>

\* A packet that is too long is refused, with a result nobody looks at.
Fits(data) == Len(data) <= PktRoom

CDC_Send_DATA(packet) ==
  IF Fits(packet.data)
    THEN packet_sent' = FALSE /\ ep1' = packet
    ELSE UNCHANGED transmit

Reply ==
  /\ pc = "reply"
  /\ CDC_Send_DATA([kind |-> "reply", n |-> Receive_Buffer.n, data |-> <<>>])
  /\ pc' = "clear"
  /\ UNCHANGED <<sampling, configured, receive, send_pkt, host, handled>>

\* Mutant of Clear: the command stays.
ClearForgotten ==
  /\ pc = "clear"
  /\ pc' = "arm"
  /\ UNCHANGED <<sampling, configured, receive, transmit, send_pkt, host, handled>>

\* Receive_length = 0, whatever was received since.
Clear ==
  /\ pc = "clear"
  /\ Receive_length' = FALSE
  /\ pc' = "arm"
  /\ UNCHANGED <<sampling, configured, ep3, Receive_Buffer, transmit, send_pkt,
                 host, handled>>

\* Mutant of ErrorPending: the error waits for the samples.
ErrorPendingLast == send_err /\ Pending > cfg_i2c.pktcnt

ErrorPending == send_err

SendError ==
  /\ Free
  /\ ~Receive_length
  /\ ErrorPending
  /\ CDC_Send_DATA([kind |-> "error", n |-> 0, data |-> <<>>])
  /\ send_err' = FALSE
  /\ pc' = "arm"
  /\ UNCHANGED <<cfg_i2c, timer, timer_flg, raddr, i2c_buf, i2c_buf_wr, i2c_buf_rd,
                 all_rd_count, taken, given, configured, receive, send_pkt, host,
                 handled>>

\* Mutant of BlockPending: a block may take the last sample.
BlockPendingAll == cfg_i2c.pktcnt > 0 /\ Pending >= cfg_i2c.pktcnt

BlockPending == cfg_i2c.pktcnt > 0 /\ Pending > cfg_i2c.pktcnt

Collect ==
  /\ Free
  /\ ~Receive_length
  /\ ~ErrorPending
  /\ BlockPending
  /\ send_pkt' = <<>>
  /\ pc' = "copy"
  /\ UNCHANGED <<sampling, configured, receive, transmit, host, handled>>

\* A store beyond the last place of the block lands in other variables; of
\* its outcomes the model has the one in which nothing else is lost.
Copy ==
  /\ pc = "copy"
  /\ Len(send_pkt) < cfg_i2c.pktcnt
  /\ send_pkt' = Append(send_pkt, i2c_buf[i2c_buf_rd])
  /\ i2c_buf_rd' = Succ(i2c_buf_rd)
  /\ UNCHANGED <<cfg_i2c, timer, timer_flg, raddr, i2c_buf, i2c_buf_wr, send_err,
                 all_rd_count, taken, given, configured, receive, transmit, pc,
                 host, handled>>

SendBlock ==
  /\ pc = "copy"
  /\ Len(send_pkt) = cfg_i2c.pktcnt
  /\ all_rd_count' = all_rd_count + cfg_i2c.pktcnt
  /\ CDC_Send_DATA([kind |-> "block", n |-> 0, data |-> send_pkt])
  /\ given' = IF Fits(send_pkt) THEN given + cfg_i2c.pktcnt ELSE given
  /\ pc' = "arm"
  /\ send_pkt' = <<>>
  /\ UNCHANGED <<cfg_i2c, timer, timer_flg, raddr, i2c_buf, i2c_buf_wr, i2c_buf_rd,
                 send_err, taken, configured, receive, host, handled>>

Nothing ==
  /\ Free
  /\ ~Receive_length
  /\ ~ErrorPending
  /\ ~BlockPending
  /\ pc' = "arm"
  /\ UNCHANGED <<sampling, configured, receive, transmit, send_pkt, host, handled>>

MainLoop ==
  \/ Arm \/ Busy \/ Decode \/ RegDone \/ InitRefused \/ InitExtDevice
  \/ Reply \/ Clear \/ SendError \/ Collect \/ Copy \/ SendBlock \/ Nothing

Host ==
  \/ \E c \in Configs : HostOut("cfg", c)
  \/ \E kind \in {"reg", "ask"} : HostOut(kind, Quiet)
  \/ HostIn
  \/ HostReset
  \/ HostConfigure

Next == MainLoop \/ TIM2_IRQHandler \/ Host

Spec == Init /\ [][Next]_vars

\* The loop never waits, and the host keeps a read on the port.
FairSpec == Spec /\ WF_vars(MainLoop) /\ WF_vars(HostIn)

-----------------------------------------------------------------------------
\* A measurement is under way: not from the copy of a configuration to the
\* end of its set-up.
Measuring == cfg_i2c.pktcnt > 0 /\ pc # "start"

InBlock == IF pc = "copy" THEN Len(send_pkt) ELSE 0

(***************************************************************************)
(* Every sample the timer took is in the ring, in the block being copied,  *)
(* or in the rd_cnt the status reply reports: none is lost or taken twice  *)
(* over the indices i2c_buf_wr and i2c_buf_rd; and what rd_cnt counts went *)
(* to the endpoint.                                                        *)
(***************************************************************************)
TakenIsCounted == Measuring => taken = all_rd_count + InBlock + Pending
CountedIsSent == Measuring => given = all_rd_count

AllAccounted == TakenIsCounted /\ CountedIsSent

(***************************************************************************)
(* A block in the endpoint is the run of samples that follows the block    *)
(* before it, and no slot of a read that failed is in it: that slot is the *)
(* last of its measurement, and a block is only collected when more        *)
(* samples wait than it holds.                                             *)
(***************************************************************************)
GoodSamples ==
  ep1.kind = "block" =>
    \A i \in 1 .. Len(ep1.data) :
      ep1.data[i] = [seq |-> given - Len(ep1.data) + i - 1, good |-> TRUE]

(***************************************************************************)
(* The loop and the interrupt never use the SMBus at the same time: while  *)
(* a command reads or writes a register, or sets the device up, no tick    *)
(* reads one.                                                              *)
(***************************************************************************)
BusExclusive ==
  pc \in {"start", "bus"} => ~(timer /\ timer_flg)

(***************************************************************************)
(* A packet in the endpoint leaves it by being fetched, or with a reset:   *)
(* no reply, error or block is replaced by the next.                       *)
(***************************************************************************)
EndpointKept ==
  [][ep1 # None => ep1' \in {ep1, None}]_vars

(***************************************************************************)
(* Whenever the host sends, no command is decoded twice or after a later   *)
(* one, although command and reply share one buffer, which the next packet *)
(* overwrites.  A host that has sent each command when the last one was    *)
(* dealt with, over an endpoint that was not reset, has lost none.         *)
(***************************************************************************)
OnceInOrder == \A i, j \in 1 .. Len(handled) : i < j => handled[i] < handled[j]

EachDecoded ==
  /\ \A i \in 1 .. Len(handled) : handled[i] = i
  /\ \/ Len(handled) = sent
     \/ /\ Len(handled) + 1 = sent
        /\ Receive_length
        /\ Receive_Buffer.n = sent

NoCommandLost == OnceInOrder /\ (~hasty /\ resets = 0 => EachDecoded)

(***************************************************************************)
(* Every command of a host that waits is answered, samples and errors or   *)
(* not, unless the endpoint is reset.                                      *)
(***************************************************************************)
CommandAnswered ==
  \A m \in 1 .. MaxCommands :
    (Receive_length /\ Receive_Buffer.n = m) ~> (answered >= m \/ hasty \/ resets > 0)

(***************************************************************************)
(* A read that failed is reported, though the stopped timer fills no       *)
(* further block.                                                          *)
(***************************************************************************)
ErrorReported ==
  send_err ~> (ep1.kind = "error" \/ resets > 0)

=============================================================================
