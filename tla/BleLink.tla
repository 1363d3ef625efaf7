------------------------------- MODULE BleLink -------------------------------
(***************************************************************************)
(* The CH583 BLE firmware (ch583/I2C2BLE/APP) between its two hosts and    *)
(* its sampling, with the page ble_web/test_pp228.html as BLE client.      *)
(*                                                                         *)
(*   BLE client --WriteAttrCB--> app_cmd_buf <--USB interrupt-- USB host   *)
(*                 SBP_PROCESS_INPDATA_EVT -> cmd_decode                   *)
(*   cmd_decode, I2CDevTask --> app_tx_fifo --> ble_cmd_notify --> client  *)
(*                                         \--> USBSendData --> USB host   *)
(*                                                                         *)
(* ble_enable says which of the two empties the FIFO.  The callbacks of    *)
(* the BLE stack, the TMOS events, I2CDevTask and USBSendData all run in   *)
(* the main loop, one after the other (pc = "idle" between them); only the *)
(* USB interrupt cuts in, so a handler is split (pc) where it and the      *)
(* interrupt touch the same command slot.                                  *)
(***************************************************************************)
EXTENDS Naturals, Sequences, SequencesExt

CONSTANTS
  Capacity,    \* APP_TX_BUFFER_LENGTH
  ReplyLen,    \* bytes of a reply
  BlockLen,    \* bytes of a block of samples
  AppMtu,      \* APP_MTU_SIZE - 3, payload of a notification at first
  Mtus,        \* payloads a client may negotiate
  Packet,      \* MAX_TX_PACKET_SIZE
  MaxCommands, \* bound: commands of both hosts
  MaxBlocks,   \* bound: blocks of samples
  MaxLinks     \* bound: connections, of one client after the other

\* An error report is a head without data.
ErrorLen == 2

ASSUME LenAssumption ==
  /\ {Capacity, ReplyLen, BlockLen, AppMtu, Packet} \subseteq Nat \ {0}
  /\ Mtus \subseteq Nat \ {0}
  /\ ErrorLen <= Capacity
ASSUME BoundAssumption == {MaxCommands, MaxBlocks, MaxLinks} \subseteq Nat

(***************************************************************************)
(* Commands: CMD_DEV_CFG starts a measurement or, with pktcnt 0, ends it;  *)
(* CMD_I2C_PWR powers the converter on or off, neither of which measures;  *)
(* "ask" stands for the commands that only answer.                         *)
(***************************************************************************)
Op == {"cfg", "pwr", "ask"}
Command == [op : Op, arg : BOOLEAN, by : {"usb", "ble", "dev"}, link : Nat]

\* What a host can ask for; a command carries its sender, and a client's the
\* number of its connection.
Request == [op : {"cfg", "pwr"}, arg : BOOLEAN] \cup [op : {"ask"}, arg : {FALSE}]

From(req, by, l) == [op |-> req.op, arg |-> req.arg, by |-> by, link |-> l]

\* A byte of the stream: its number, and its place in its block.
Kind == {"reply", "data", "error"}
Byte == [n : Nat, at : Nat, len : Nat, kind : Kind]

VARIABLES
  connected,    \* peripheralConnList.connHandle is not GAP_CONNHANDLE_INIT
  peripheralMTU,
  ble_enable,
  app_cmd_len,  \* the slot is taken
  app_cmd_buf,
  inp,          \* SBP_PROCESS_INPDATA_EVT is set
  pc,           \* where the main loop is
  rx,           \* the command that a handler has looked at
  measuring,    \* cfg_i2c.pktcnt # 0
  timer,        \* timer 1 and its gate are open
  app_tx_fifo,
  ep1,          \* USB endpoint 1 is armed
  client,       \* the page: bytes its block still lacks, whose bytes, ...
  \* History:
  written,      \* bytes put into the FIFO
  base,         \* number of the last byte sent, or written off
  gap,          \* a transport got a byte that does not follow the last one
  link,         \* number of the present or last connection
  muted,        \* connections that ended with notifications off, since the last
                \* one that ended with them on
  orphan,       \* a connection was lost and nobody has acted on it yet
  report,       \* the error report to the client: none, due or sent
  used          \* commands and blocks so far

slot == <<app_cmd_len, app_cmd_buf, inp>>
radio == <<connected, peripheralMTU, ble_enable>>
sensor == <<measuring, timer>>
stream == <<app_tx_fifo, written, base>>
history == <<gap, link, muted, orphan, report>>
vars == <<radio, slot, pc, rx, sensor, stream, ep1, client, history, used>>

NoCommand == [op |-> "ask", arg |-> FALSE, by |-> "dev", link |-> 0]

(***************************************************************************)
(* The page collects bytes in smp_buf and takes a block off it when the    *)
(* length in its first byte is there.  want is what the block still lacks; *)
(* mixed: its bytes are not all of one block; astray: the length was read  *)
(* from the middle of a block; told: an error report was recognised        *)
(* since notifications were turned on.                                     *)
(***************************************************************************)
Page == [want : Nat, mixed : BOOLEAN, astray : BOOLEAN, told : BOOLEAN]

TypeOK ==
  /\ connected \in BOOLEAN
  /\ peripheralMTU \in Mtus \cup {AppMtu}
  /\ ble_enable \in BOOLEAN
  /\ app_cmd_len \in BOOLEAN /\ app_cmd_buf \in Command /\ inp \in BOOLEAN
  /\ pc \in {"idle", "copy", "decode", "clear", "arg", "len"}
  /\ rx \in Command
  /\ measuring \in BOOLEAN /\ timer \in BOOLEAN
  /\ app_tx_fifo \in Seq(Byte) /\ Len(app_tx_fifo) <= Capacity
  /\ ep1 \in BOOLEAN
  /\ client \in Page
  /\ written \in Nat /\ base \in 0 .. written
  /\ gap \in BOOLEAN /\ link \in 0 .. MaxLinks
  /\ muted \subseteq 1 .. link
  /\ orphan \in BOOLEAN /\ report \in {"none", "due", "sent"}
  /\ used \in [commands : 0 .. MaxCommands, blocks : 0 .. MaxBlocks]

Init ==
  /\ connected = FALSE
  /\ peripheralMTU = AppMtu
  /\ ble_enable = FALSE
  /\ app_cmd_len = FALSE /\ app_cmd_buf = NoCommand /\ inp = FALSE
  /\ pc = "idle"
  /\ rx = NoCommand
  /\ measuring = FALSE /\ timer = FALSE
  /\ app_tx_fifo = <<>>
  /\ ep1 = FALSE
  /\ client = [want |-> 0, mixed |-> FALSE, astray |-> FALSE, told |-> FALSE]
  /\ written = 0 /\ base = 0
  /\ gap = FALSE /\ link = 0
  /\ muted = {} /\ orphan = FALSE /\ report = "none"
  /\ used = [commands |-> 0, blocks |-> 0]

-----------------------------------------------------------------------------

(***************************************************************************)
(* The FIFO.                                                               *)
(***************************************************************************)
Fits(len) == len <= Capacity - Len(app_tx_fifo)

Block(kind, len) ==
  [k \in 1 .. len |-> [n |-> written + k, at |-> k, len |-> len, kind |-> kind]]

Put(kind, len) ==
  /\ app_tx_fifo' = app_tx_fifo \o Block(kind, len)
  /\ written' = written + len
  /\ UNCHANGED base

\* app_drv_fifo_flush: what was in the FIFO will not be sent.
Flush ==
  /\ app_tx_fifo' = <<>>
  /\ base' = written
  /\ UNCHANGED written

Chunk(max) ==
  SubSeq(app_tx_fifo, 1, IF Len(app_tx_fifo) > max THEN max ELSE Len(app_tx_fifo))

\* The bytes s were sent and taken off the FIFO.
Sent(s) ==
  /\ app_tx_fifo' = SubSeq(app_tx_fifo, Len(s) + 1, Len(app_tx_fifo))
  /\ base' = Last(s).n
  /\ gap' = (gap \/ Head(s).n # base + 1)
  /\ UNCHANGED written

-----------------------------------------------------------------------------
(***************************************************************************)
(* The USB interrupt, at any moment.                                       *)
(***************************************************************************)
Spend == /\ used.commands < MaxCommands
         /\ used' = [used EXCEPT !.commands = @ + 1]

\* DevEP1_OUT_Deal: a taken slot drops the command.
UsbCommand(req) ==
  /\ Spend
  /\ ~app_cmd_len
  /\ app_cmd_len' = TRUE
  /\ app_cmd_buf' = From(req, "usb", 0)
  /\ inp' = TRUE
  /\ UNCHANGED <<radio, pc, rx, sensor, stream, ep1, client, history>>

\* SET_CONTROL_LINE_STATE does not look at the slot.
UsbLineState(dtr) ==
  /\ Spend
  /\ app_cmd_len' = TRUE
  /\ app_cmd_buf' = From([op |-> "pwr", arg |-> dtr], "usb", 0)
  /\ inp' = TRUE
  /\ UNCHANGED <<radio, pc, rx, sensor, stream, ep1, client, history>>

UsbIn ==
  /\ ep1
  /\ ep1' = FALSE
  /\ UNCHANGED <<radio, slot, pc, rx, sensor, stream, client, history, used>>

-----------------------------------------------------------------------------
(***************************************************************************)
(* Callbacks of the BLE stack.                                             *)
(***************************************************************************)
Peripheral_LinkEstablished ==
  /\ pc = "idle"
  /\ ~connected
  /\ link < MaxLinks
  /\ link' = link + 1
  /\ connected' = TRUE
  /\ peripheralMTU' = AppMtu
  /\ UNCHANGED <<ble_enable, slot, pc, rx, sensor, stream, ep1, client, gap, muted,
                 orphan, report, used>>

\* ATT_MTU_UPDATED_EVENT.
MtuUpdated(mtu) ==
  /\ pc = "idle"
  /\ connected
  /\ peripheralMTU' = mtu
  /\ UNCHANGED <<connected, ble_enable, slot, pc, rx, sensor, stream, ep1, client,
                 history, used>>

\* Mutant of CccOn: the FIFO keeps what was written for the other host.
CccOnUnflushed ==
  /\ pc = "idle"
  /\ connected
  /\ ~ble_enable
  /\ ble_enable' = TRUE
  /\ base' = written
  /\ client' = [client EXCEPT !.told = FALSE]
  /\ UNCHANGED <<connected, peripheralMTU, slot, pc, rx, sensor, app_tx_fifo,
                 written, ep1, history, used>>

\* The client turns notifications on: what was left for USB is dropped.
CccOn ==
  /\ pc = "idle"
  /\ connected
  /\ ~ble_enable
  /\ ble_enable' = TRUE
  /\ Flush
  /\ client' = [client EXCEPT !.told = FALSE]
  /\ UNCHANGED <<connected, peripheralMTU, slot, pc, rx, sensor, ep1, history,
                 used>>

\* And off: the rest of the FIFO is the USB host's from now on.
CccOff ==
  /\ pc = "idle"
  /\ connected
  /\ ble_enable
  /\ ble_enable' = FALSE
  /\ report' = "none"
  /\ UNCHANGED <<connected, peripheralMTU, slot, pc, rx, sensor, stream, ep1,
                 client, gap, link, muted, orphan, used>>

\* ble_cmd_WriteAttrCB on the RX characteristic: the slot is looked at ...
BleWrite(req) ==
  /\ pc = "idle"
  /\ connected
  /\ Spend
  /\ IF app_cmd_len
     THEN UNCHANGED <<pc, rx>>
     ELSE /\ rx' = From(req, "ble", link)
          /\ pc' = "copy"
  /\ UNCHANGED <<radio, slot, sensor, stream, ep1, client, history>>

\* ... and taken, although the interrupt may have done so in between.
BleCopy ==
  /\ pc = "copy"
  /\ app_cmd_len' = TRUE
  /\ app_cmd_buf' = rx
  /\ inp' = TRUE
  /\ pc' = "idle"
  /\ UNCHANGED <<radio, rx, sensor, stream, ep1, client, history, used>>

\* Mutant of Peripheral_LinkTerminated: a command in the slot is respected.
LinkTerminatedPolite ==
  /\ pc = "idle"
  /\ connected
  /\ connected' = FALSE
  /\ \/ /\ ble_enable
        /\ ble_enable' = FALSE
        /\ measuring' = FALSE
        /\ Flush
        /\ app_cmd_buf' = IF app_cmd_len THEN app_cmd_buf
                          ELSE [op |-> "pwr", arg |-> FALSE, by |-> "dev", link |-> 0]
        /\ muted' = {}
        /\ orphan' = TRUE
        /\ report' = "none"
        /\ pc' = "len"
     \/ /\ ~ble_enable
        /\ muted' = muted \cup {link}
        /\ UNCHANGED <<ble_enable, measuring, stream, app_cmd_buf, orphan, report,
                       pc>>
  /\ UNCHANGED <<peripheralMTU, app_cmd_len, inp, rx, timer, ep1, client, gap, link,
                 used>>

(***************************************************************************)
(* The connection is gone, by whoever's will.  If notifications were on,   *)
(* the blocks stop, the FIFO is dropped and the device puts a power-off    *)
(* command into the slot, byte by byte: first the command, ...  If they    *)
(* were off nothing is done: what the client has written stays in the slot.*)
(***************************************************************************)
Peripheral_LinkTerminated ==
  /\ pc = "idle"
  /\ connected
  /\ connected' = FALSE
  /\ \/ /\ ble_enable
        /\ ble_enable' = FALSE
        /\ measuring' = FALSE
        /\ Flush
        /\ app_cmd_buf' = From([op |-> "pwr", arg |-> app_cmd_buf.arg], "dev", link)
        /\ muted' = {}
        /\ orphan' = TRUE
        /\ report' = "none"
        /\ pc' = "arg"
     \/ /\ ~ble_enable
        /\ muted' = muted \cup {link}
        /\ UNCHANGED <<ble_enable, measuring, stream, app_cmd_buf, orphan, report,
                       pc>>
  /\ UNCHANGED <<peripheralMTU, app_cmd_len, inp, rx, timer, ep1, client, gap, link,
                 used>>

\* ... then its argument, ...
PowerOffArg ==
  /\ pc = "arg"
  /\ app_cmd_buf' = [app_cmd_buf EXCEPT !.arg = FALSE]
  /\ pc' = "len"
  /\ UNCHANGED <<radio, app_cmd_len, inp, rx, sensor, stream, ep1, client,
                 history, used>>

\* Mutant of PowerOffLen: the event is not set.
PowerOffNoEvent ==
  /\ pc = "len"
  /\ app_cmd_len' = TRUE
  /\ pc' = "idle"
  /\ UNCHANGED <<radio, app_cmd_buf, inp, rx, sensor, stream, ep1, client,
                 history, used>>

\* ... then its length, whatever the interrupt has put there meanwhile.
PowerOffLen ==
  /\ pc = "len"
  /\ app_cmd_len' = TRUE
  /\ inp' = TRUE
  /\ pc' = "idle"
  /\ UNCHANGED <<radio, app_cmd_buf, rx, sensor, stream, ep1, client, history, used>>

-----------------------------------------------------------------------------
(***************************************************************************)
(* SBP_PROCESS_INPDATA_EVT: cmd_decode looks at the command's head ...     *)
(***************************************************************************)
ProcessCommand ==
  /\ pc = "idle"
  /\ inp
  /\ inp' = FALSE
  /\ IF app_cmd_len
     THEN rx' = app_cmd_buf /\ pc' = "decode"
     ELSE UNCHANGED rx /\ pc' = "clear"
  /\ UNCHANGED <<radio, app_cmd_len, app_cmd_buf, sensor, stream, ep1, client,
                 history, used>>

\* The reply goes into the FIFO unless that is full; CMD_I2C_PWR has none.
Reply(c) ==
  \/ c.op # "pwr" /\ Fits(ReplyLen) /\ Put("reply", ReplyLen)
  \/ c.op = "pwr" /\ UNCHANGED stream
  \/ ~Fits(ReplyLen) /\ UNCHANGED stream

\* What the command does to the sampling; a register that cannot be
\* initialised stops the measurement.
Carried(c) ==
  \/ c.op = "ask" /\ UNCHANGED sensor
  \/ /\ c.op = "cfg" /\ c.arg
     /\ measuring' \in BOOLEAN
     /\ timer' = measuring'
  \/ /\ c.op = "pwr" \/ (c.op = "cfg" /\ ~c.arg)
     /\ measuring' = FALSE
     /\ timer' = FALSE

\* ... and carries it out with the argument that is in the slot by now.
Decode ==
  LET c == [rx EXCEPT !.arg = app_cmd_buf.arg]
  IN /\ pc = "decode"
     /\ Carried(c)
     /\ Reply(c)
     /\ orphan' = (orphan /\ timer' /\ c.by # "usb")
     /\ pc' = "clear"
     /\ UNCHANGED <<radio, slot, rx, ep1, client, gap, link, muted, report, used>>

\* app_cmd_len = 0, whatever has come into the slot since.
ClearCommand ==
  /\ pc = "clear"
  /\ app_cmd_len' = FALSE
  /\ pc' = "idle"
  /\ UNCHANGED <<radio, app_cmd_buf, inp, rx, sensor, stream, ep1, client,
                 history, used>>

-----------------------------------------------------------------------------
\* Mutant of Overflow: the FIFO is not emptied for the report.
OverflowUnflushed ==
  /\ measuring' = FALSE
  /\ timer' = FALSE
  /\ \/ Fits(ErrorLen) /\ Put("error", ErrorLen)
     \/ ~Fits(ErrorLen) /\ UNCHANGED stream
  /\ report' = "due"

(***************************************************************************)
(* The FIFO has no room for the block and the BLE client is to blame: the  *)
(* measurement is stopped and the client gets an error report, with        *)
(* nothing before it.                                                      *)
(***************************************************************************)
Overflow ==
  /\ measuring' = FALSE
  /\ timer' = FALSE
  /\ app_tx_fifo' = Block("error", ErrorLen)
  /\ base' = written
  /\ written' = written + ErrorLen
  /\ report' = "due"

\* I2CDevTask with a block of samples: from the main loop, and from
\* SBP_PERIODIC_EVT.
I2CDevTask ==
  /\ pc = "idle"
  /\ measuring
  /\ timer
  /\ used.blocks < MaxBlocks
  /\ used' = [used EXCEPT !.blocks = @ + 1]
  /\ \/ Fits(BlockLen) /\ Put("data", BlockLen) /\ UNCHANGED <<sensor, report>>
     \/ ~Fits(BlockLen) /\ ble_enable /\ Overflow
     \/ ~Fits(BlockLen) /\ ~ble_enable /\ UNCHANGED <<sensor, stream, report>>
  /\ UNCHANGED <<radio, slot, pc, rx, ep1, client, gap, link, muted, orphan>>

-----------------------------------------------------------------------------
(***************************************************************************)
(* Sending.                                                                *)
(***************************************************************************)

\* The page takes one byte more.
TakeByte(page, byte) ==
  IF page.astray THEN page
  ELSE IF page.want = 0
       THEN [want |-> byte.len - 1, mixed |-> FALSE, astray |-> byte.at # 1,
             told |-> page.told]
       ELSE LET mixed == page.mixed \/ byte.len - byte.at # page.want - 1
                whole == page.want = 1 /\ ~mixed
            IN  [want |-> page.want - 1, mixed |-> mixed, astray |-> FALSE,
                 told |-> page.told \/ (whole /\ byte.kind = "error")]

Received(s) == FoldLeft(TakeByte, client, s)

Reported(s) ==
  IF \E i \in 1 .. Len(s) : s[i].kind = "error" /\ s[i].at = s[i].len
  THEN "sent" ELSE report

(***************************************************************************)
(* ble_cmd_notify, from SBP_PERIODIC_EVT: app_drv_fifo_rd, the indication, *)
(* and app_drv_fifo_rd_del if it was accepted.  If not (no memory, queue   *)
(* of the stack full) nothing changes.                                     *)
(***************************************************************************)
ble_cmd_notify ==
  /\ pc = "idle"
  /\ ble_enable
  /\ app_tx_fifo # <<>>
  /\ Sent(Chunk(peripheralMTU))
  /\ client' = Received(Chunk(peripheralMTU))
  /\ report' = Reported(Chunk(peripheralMTU))
  /\ UNCHANGED <<radio, slot, pc, rx, sensor, ep1, link, muted, orphan, used>>

USBSendData ==
  /\ pc = "idle"
  /\ ~ble_enable
  /\ ~ep1
  /\ app_tx_fifo # <<>>
  /\ Sent(Chunk(Packet))
  /\ ep1' = TRUE
  /\ UNCHANGED <<radio, slot, pc, rx, sensor, client, link, muted, orphan, report,
                 used>>

-----------------------------------------------------------------------------
MainThread ==
  \/ Peripheral_LinkEstablished
  \/ \E mtu \in Mtus : MtuUpdated(mtu)
  \/ CccOn
  \/ CccOff
  \/ \E req \in Request : BleWrite(req)
  \/ BleCopy
  \/ Peripheral_LinkTerminated
  \/ PowerOffArg
  \/ PowerOffLen
  \/ ProcessCommand
  \/ Decode
  \/ ClearCommand
  \/ I2CDevTask
  \/ ble_cmd_notify
  \/ USBSendData

UsbHost ==
  \/ \E req \in Request : UsbCommand(req)
  \/ \E dtr \in BOOLEAN : UsbLineState(dtr)
  \/ UsbIn

Next == MainThread \/ UsbHost

Spec == Init /\ [][Next]_vars

(***************************************************************************)
(* A handler that was begun goes on.  TMOS serves the event in every turn  *)
(* of the main loop, and SBP_PERIODIC_EVT comes back for ever: they are    *)
(* not starved by the handlers in between, but the stack may refuse a      *)
(* notification any number of times, though not for ever.                  *)
(***************************************************************************)
FairSpec ==
  /\ Spec
  /\ WF_vars(BleCopy \/ PowerOffArg \/ PowerOffLen \/ Decode \/ ClearCommand)
  /\ SF_vars(ProcessCommand)
  /\ SF_vars(ble_cmd_notify)

-----------------------------------------------------------------------------
(***************************************************************************)
(* Properties.                                                             *)
(***************************************************************************)

(***************************************************************************)
(* What each transport is given follows what was sent before, no byte      *)
(* twice and none left out, and a client is given nothing written before   *)
(* it turned notifications on: a notification that is refused, a change of *)
(* host, a lost connection and an overflow leave the FIFO with exactly the *)
(* bytes that are still to be sent.                                        *)
(***************************************************************************)
StreamContinues ==
  /\ ~gap
  /\ Len(app_tx_fifo) = written - base
  /\ \A i \in 1 .. Len(app_tx_fifo) : app_tx_fifo[i].n = base + i

(***************************************************************************)
(* A command that a BLE client has written is carried out while the        *)
(* connection over which it came lasts.  A client that goes with           *)
(* notifications on leaves no command behind, the power-off command takes  *)
(* its place, also the place of what an earlier client has left.  One that *)
(* goes with them off does leave its command: that is carried out after    *)
(* all, in the next client's session it may be.                            *)
(***************************************************************************)
MayRun(c) == c.by = "ble" => (connected /\ c.link = link) \/ c.link \in muted

NoLateCommand == pc = "decode" => MayRun(rx)

(***************************************************************************)
(* When a connection with notifications is lost the timer is stopped, or   *)
(* the USB host has sent a command that was carried out since.             *)
(***************************************************************************)
OrphanEnds == orphan ~> ~orphan

(***************************************************************************)
(* After an overflow the client is sent the error report, unless it leaves *)
(* or turns notifications off.                                             *)
(***************************************************************************)
ReportSent == report = "due" ~> report # "due"

(***************************************************************************)
(* The client recognises the error report that it was sent: "#define       *)
(* CMD_ERR_FLG 0x80 // send error cmd mask", and the page shows            *)
(* 'Error! (see logs)'.  It does not when the flush for the report cuts    *)
(* off the rest of a block of which the client has had a part: the report  *)
(* passes for that rest.                                                   *)
(***************************************************************************)
ReportUnderstood == report = "sent" => client.told

=============================================================================
