# SimplePowerProfiler: specification

TLA+ model of the firmware of SimplePowerProfiler, a family of USB and BLE
devices that read current and voltage converters (INA2xx, internal ADCs) and
stream the samples to a program on a PC or in a browser. Paths are relative to
`src/source/`; without a directory they are in `ch583/I2C2USB/src/`.

## 1. The system

One program per chip, all descended from the first (STM32F103); the host
programs talk the same protocol to each: blocks of `size, id, data`, where `id`
names a command (its reply has the same id, with bit 7 set on an error) or the
kind of samples.

| component | state | operations | talks to |
|---|---|---|---|
| sampling path (`i2c_dev.c`) | ring `i2c_buf` with `i2c_buf_wr`, `i2c_buf_rd`; `raddr`; `timer_flg`; `cfg_i2c`; `status` | `TMR1_IRQHandler`, `I2CDevStart`, `I2CDevTask`, `I2CDevSleep`, `I2CDevWakeUp`, settings | I2C bus, transmit FIFO |
| command decoder (`cmd_decode.c`) | `cfg_ina228` | `CMD_DEV_*` | sampling path, bus, flash |
| main loop (`Main.c`) | `old_send_len` | command slot, `I2CDevTask`, `USBSendData` | all of them |
| USB (`app_usb.c`) | `app_cmd_buf`, `app_cmd_len`, endpoint registers | `USB_IRQHandler`, `DevEP1_OUT_Deal` | host, main loop |
| transmit FIFO (`app_drv_fifo.c`) | `begin`, `end`, `data` | init, write, read, flush | sampling path, main loop |
| I2C driver (`i2cbus.c`) | hardware | word and 24-bit read, write, `I2CBusUtr` | converter |
| settings (`I2CDevReadSetings`, `I2CDevWriteSetings`, `crc16.c`) | one page of data flash, `cfg_i2c` | read at the start, compare, erase and write at `CMD_DEV_SCF` | sampling path |
| CH592 firmware (`ch592/INA2282USB`) | as above | near copy | |
| CH583 BLE firmware (`ch583/I2C2BLE/APP`) | as above, connection, `ble_enable`, FIFO | callbacks of the stack, events of TMOS, notification and deletion from the FIFO when it was accepted, stop and report on overflow | BLE client, USB host |
| BL702 firmware (`BL702/PowerProfiler/src`) | `i2c_buf`, mirror ring buffer, `ep_tx_busy_flag` | interrupts of timer, DMA and USB (which carries out commands), two tasks | host |
| BL702 INA229 firmware (`INA228_229/BL702`) | `data_buffer` and its two indices, `timer1`, `ina229_dev`, the question in the SPI's fifo | pipelined timer interrupt, start, stop, sleep, wake-up, `task_data_out` | SPI converter, host |
| STM32F103 firmware (`STM32F103/Main`) | ring, `Receive_Buffer`, `send_err` | one loop, USB callbacks, timer interrupt | host |
| STM32F103 settings (`rw_ini.c`) | a page of flash with records one behind the other | search, write half-word by half-word, erase | `main.c` |
| host programs (`Delphi7`, `ch583/WEB_USB`, BLE page) | reassembly buffer, awaited command | send, parse | device |

How they interact in the CH583 firmware:

```
 converter --I2C--> TMR1_IRQHandler --i2c_buf--> I2CDevTask --+
                        ^ timer_flg                           v
 host --OUT--> USB_IRQHandler --app_cmd_buf--> cmd_decode -> app_tx_fifo
 host <--IN--- EP1_Databuf <------------- USBSendData <-------+
```

Two interrupts preempt the main loop anywhere; nothing is locked. What is
shared is protected by order alone: `timer_flg` is a gate that the main loop
closes before it uses the bus or rewrites `cfg_i2c`; the interrupt owns
`i2c_buf_wr` and the task owns `i2c_buf_rd`; `app_cmd_len` says whose the
command slot is; the endpoint's response (ACK or NAK) says whose its buffer is.

### What makes it correct, and what is hard

* sampling path: no sample vanishes without being counted; a block holds
  consecutive samples of one measurement, one format, registers in the order of
  the configuration; it fits its array; a complete block is handed over. Hard:
  the interrupt never looks at the read index, the task works on a snapshot, the
  index arithmetic differs in the wrapped case, set-ups fail half way.
* bus: one user at a time. Hard: protected by a flag that each command must
  remember to close.
* FIFO: a queue, whole writes only, with free-running counters that wrap.
* command slot and endpoint: each command decoded once and in one piece, bytes
  in order, every transfer ended, every queued reply sent. Hard: the interrupt
  fills the slot at any moment, one kind of message without looking.
* BLE: bytes leave the FIFO once, and only when the stack took them; the FIFO and
  the command slot change hands between two hosts; the connection of a
  subscribed client, when lost, leaves no measurement and no command behind; an overflow
  is reported. Hard: the stack may
  refuse, the connection may go at any moment, the USB interrupt writes to the slot
  between the bytes of a command.
* BL702: what was written to the ring reaches the host, in frame; blocks of one
  measurement; the busy flag is given back. Hard: the ring has three writers and no
  lock, a write may be cut, commands run in the interrupt.
* STM32: one buffer for the command and its reply, an off-by-one in the block test.
* INA229: the sensor answers the question before; channels must stay in their places
  through set-ups, and the timer must not run on a sleeping sensor. Hard: the task is
  cut by the timer and by the USB interrupt, which starts and stops the measurement.
* settings: a restart finds the last ones saved or none, never a mixture and never older
  ones. Hard: power that goes between an erase and a write, between two half-words, or in
  the middle of one.
* host: a parser that finds its way back after a lost piece; a reply that comes
  after its timeout.

The list with lines is `hazards` in `PROJECT.json`.

## 2. Modules

| module | models |
|---|---|
| `SampleStream` | abstract: samples taken in order, handed over in blocks of consecutive samples, each block delivered or lost and counted |
| `SampleRing` | `i2c_dev.c`, the commands of `cmd_decode.c` that act on it, the order of the main loop |
| `MCSampleRing` | configurations for TLC |
| `SampleRing_proofs` | theorems about `SampleRing`: types, bus, accounting, length of blocks; in its second part what its blocks hold, and that it implements `SampleStream` |
| `ByteQueue` | abstract: bounded queue, whole writes |
| `DrvFifo`, `MCDrvFifo` | `app_drv_fifo.c` |
| `DrvFifo_proofs` | that it implements `ByteQueue` |
| `UsbLink`, `MCUsbLink` | `Main.c`, endpoint 1 of `app_usb.c`, how the host talks |
| `UsbLink_proofs` | theorems about `UsbLink` |
| `Stm32Loop`, `MCStm32Loop` | `STM32F103/Main`: `main.c`, the endpoints in `hw_config.c`, `usb_endp.c`, `usb_prop.c` |
| `Stm32Loop_proofs` | theorems about `Stm32Loop` |
| `BleLink`, `MCBleLink` | `ch583/I2C2BLE/APP`: `ble_cmd_service.c`, `peripheral.c`, the task and commands as far as they differ, and the client `ble_web/test_pp228.html` |
| `BleLink_proofs` | theorems about `BleLink` |
| `Bl702`, `MCBl702` | `BL702/PowerProfiler/src`: `ring_buffer.c`, `i2c_dev.c`, `adc_dma.c`, `cdc_acm_template.c`, and the endpoint of the driver `bflb_usb_v1.c` |
| `Bl702_proofs` | theorems about `Bl702`: what its blocks are made of, what becomes of their bytes, and types |
| `Ina229`, `MCIna229` | `INA228_229/BL702/PowerProfiler_ina229/src`: `ina229.c`, `usb_buffer.c`, the commands and line states that reach them |
| `Ina229_proofs` | theorems about `Ina229`; in its second part which samples a block holds |
| `SettingsStore` | abstract: what a restart finds of the settings saved |
| `IniStore`, `MCIniStore` | `STM32F103/Main/rw_ini.c` and its use in `main.c` |
| `EepromStore`, `MCEepromStore` | `I2CDevReadSetings`, `I2CDevWriteSetings`, `CMD_DEV_SCF` of the CH583 |
| `SettingsStore_proofs` | theorems about `IniStore` and `EepromStore`, and that both implement `SettingsStore` |

### SampleRing

The main loop is cut into steps (`pc`) wherever it touches what the interrupt
touches: `cmd` (a command is looked for), `start` (inside `I2CDevStart`, gate
closed), `bus` (inside a transfer), `task` (before `I2CDevTask`), `copy` (inside
its copying loop, one sample per step), `send` (before `app_drv_fifo_write`).
`TMR1_IRQHandler` may fire between any two of them when `timer_flg` is set.

| model | code |
|---|---|
| `cfg` | `cfg_i2c`: `pktcnt`, number of leading `rd[]` entries with a device, whether the period is refused by `I2CDevStart` |
| `rd24`, `timer_flg`, `raddr`, `i2c_buf*` | the fields of `i2c_dev` |
| `status` | `all_read_count`, `all_overflow_cnt` (both count blocks) |
| `tmp`, `task`, `i2c_blk` | the decoder's `tmp`, locals of `I2CDevTask`, the block |
| `run`, `taken`, `pos`, `accounted`, `delivered` | history: not in the code |

A value is abstracted to where it comes from (number, register, format,
measurement, read or left over from before). A failed register read leaves its slot as it was (`Stale`)
and counts as a sample, as in the code. `NewRd` is the code's rule for the read index: with the
writer wrapped round it is the number of samples left to copy from slot 0, hence
0 for a block that ends before the ring does. Set-up registers are written or
not (`initOk`); after a failure the code goes on with the next register but has
already stopped the timer, which is what `Start` does. In `CmdQuiet` and
`CmdPwrOff` the clearing of `pktcnt` and the closing of the gate are one step:
the interrupt does not read `pktcnt`, and what it stores in between is flushed
or never read.

`MaxLag` is the environment: how many samples the timer may take beyond a
complete block before the main loop comes round. 0 is a prompt main loop. The
real figure is set by the period, the length of a bus transfer in a command, and
the erasing of flash (`CMD_DEV_SCF`).

### DrvFifo

One step per call: begin and end both belong to the main loop. `Counter` stands
for 2^16 and `Size` for 2048. The code refuses a size that is not a power of two; what the
model asks for is that it divides `Counter`, so that a counter that starts anew goes on
at the same place. `app_drv_fifo_rd` and
`app_drv_fifo_rd_del` are those of the BLE firmware, which looks at the head of the
FIFO and takes it off in a second call.

### UsbLink

The main loop in the steps at which an interrupt makes a difference: the slot is
looked at (`cmd`), the command's head is taken (`decode`), the body is read and
the reply queued, the slot is given back (`clear`), a block may be queued
(`task`), the endpoint is looked at (`send`), loaded and armed (`arm`). A message
is its number and its kind; a byte is its number and whether it ends a reply. A reply that finds no room is dropped, as in `Main.c`.
A reset of the bus, or `CLEAR_FEATURE`, disarms the endpoint: its packet is lost.

The host sends at any moment (`Talk`). The web page is one such host: `SendCMD` waits
100 ms for its reply and then goes on, whatever the device does (`WEB_USB/pp.js:197-213`), `Stop`
sends two commands 5 ms apart (`:258-265`), and at `:420` it does not wait at all; the line
state changes when somebody opens the port. `Dealt` says that the last message is dealt
with: its reply has come, or there will be none and the slot is free again. It binds no
host; `hasty`, history, is whether one has sent before that. What is claimed of every host is
that no message is decoded twice or after a later one; that none is lost, of those that
were never hasty.

### Stm32Loop

The firmware all the others descend from; sampling and USB are one loop, so one
module has both. `pc` is `arm` (top of the loop, `CDC_Receive_DATA`), `look` (the
flags are tested), `start` (`InitExtDevice`, gate closed), `bus` (a register
command's transfer), `reply`, `clear` (between `CDC_Send_DATA` and
`Receive_length = 0`), `copy`. `TIM2_IRQHandler` and the USB callbacks come
between any two steps. `ep1` and `ep3` are the endpoints' hardware, `packet_sent`
what the program knows of the first. Commands are `cfg`, `reg` (GRG, SRG) and
`ask` (those that only answer). A command shorter than its head says is not
modelled: no host program sends one.

`PktRoom` stands for the 31 samples of a packet; `PktLimit` is the limit the code
applies, twice that. The host sends at any moment, as in `UsbLink`. Here a command is
dealt with (`Dealt`) when its reply has come and the loop has gone past the one
statement between sending the reply and clearing the command (`clear`): a host that
reacts faster than that is `hasty`, and can lose a command although it has waited for
its reply. USB frames make it improbable, not impossible.

### BleLink

In this firmware the callbacks of the BLE stack, the events of TMOS,
`I2CDevTask` and `USBSendData` all run in the main loop one after the other;
`pc = "idle"` is the place between two of them. Only the USB interrupt cuts in. It
touches the command slot and the endpoint, so a handler is one step unless the slot
is in it:

| `pc` | the handler is |
|---|---|
| `copy` | in `ble_cmd_WriteAttrCB`, between the test of `app_cmd_len` and the copy |
| `decode`, `clear` | in `cmd_decode`, after it looked at the head; before `app_cmd_len = 0` |
| `arg`, `len` | in `Peripheral_LinkTerminated`, which writes a power-off command to the slot: before its argument, before its length |

`ble_enable` (the client's notification switch) says who empties the FIFO:
`ble_cmd_notify` or `USBSendData`. Commands are `cfg` (start, or stop with `pktcnt`
0), `pwr` (which never measures and has no reply) and `ask`, the rest. A
notification that is refused changes nothing, so it is no step: `ble_cmd_notify` is
the one that was accepted. Zero-length packets of the USB side are in `UsbLink`, the
ring and its accounting in `SampleRing`, whose lines this firmware repeats.

The client is abstracted to what its collecting of blocks (`smp_buf`) depends on:
how many bytes the current block lacks (`want`), whether its bytes come from more
than one block (`mixed`), whether the length was read from the middle of one
(`astray`), and whether it has recognised an error report (`told`).

`gap`, `link`, `muted`, `orphan`, `report`, `base` and `written` are history. `link` counts
every connection, whatever its notifications; `muted` are those that ended with notifications
off, and whose commands nothing has replaced since.

Two things that the code does, and that the properties do not forbid: a client that leaves
with notifications off, turned off or never on, stops nothing (`if(ble_enable)` in the
termination handler), neither the measurement nor the command it has in the slot (finding 8);
and the bytes left in the FIFO when notifications are turned off go to the USB host.

### Bl702

Interrupts of this chip do not nest: each is one step. The main loop is
`task_I2C` followed by `usb_dc_send_from_ringbuffer`. It is cut wherever an interrupt
may change what it has read: around the indices of `i2c_buf` (`pick`, `copy`,
`index`), and inside `Ring_Buffer_Write` (`room`, `store`, `advance`, `mirror`) and
`Ring_Buffer_Read` (`rsize`, `rcopy`, `rmirror`), whose fields are read and written
in the order of the source. `USE_LOCK_RNG` is 0 in `usb_buffer.h`, so there is no lock.
`Length`, `Empty`, `Fill`, `Advance` and `FlipWrite` are the arithmetic of `ring_buffer.c`
in unsigned words of `Word` values, with mirrors and indices that may have been read at
different moments.

Commands are carried out and answered inside the USB interrupt. They are `start`,
`fail` (a set-up register cannot be written), `refuse` (the period), `stop`, `ask` (the rest), `adc_on` and
`adc_off`. The driver sends a transfer packet by packet and calls back at its end;
a reset of the bus forgets it and calls nobody.

`overlap`, `cut`, `restarted` and `stale` are history. `overlap` says that an
interrupt wrote to the ring while the main loop was in one of the places of
`InRing`; TLC finds a violation of `NothingLost` when any of these is left out,
and none at `rcopy`, where the main loop has taken the number of bytes and reads only
what was there.

### Ina229

The timer interrupt of this firmware is pipelined: it reads the word that the sensor
answers to the question of the tick before, and asks the next (`asked`). Commands and
line states run to their end inside the USB interrupt, so each is one step; the main loop's
`task_data_out` is cut where an interrupt may change what it has read: `task` (before it),
`pick` (indices read), `copy` (a word at a time), `index` (before the read index is written
back), `write` (before the write to the USB ring), `count` (before the counter). The ring and the
CDC files repeat those of `Bl702` line by line: here the ring takes a block as a whole or
not at all, and a reset of the bus in the middle of a transfer is left to `Bl702`.

A value is where it comes from: number, register, measurement. `Slots` stands for the 1024
words of `data_buffer` and `BlkCnt` for the 40 of a block. `count` are the counters of the
status, `rd_cnt` and `to_cnt`: `cmd_cfg.h:90-91` calls them counters of samples, but what
`task_data_out` counts (`usb_buffer.c:97-101`), and the model with it, is blocks. Not in the model: a power-off before
the first `ina229_init`, which would use `timer1` before it is set (`ina229.c:427`).
`restarted` and the numbers of the samples are history.

### SettingsStore, IniStore, EepromStore

`SettingsStore` says what is promised: `saved` is what a restart would find, and only
saving changes it, to the configuration in use or to nothing; a good answer means that it is
there. The two stores keep it in different ways.

`IniStore`: a page of records (start marker, configuration, end marker), each half-word
programmed by a step of its own, with the power going between any two, or in the middle of
one, which leaves it half programmed (`Spoiled`). A half-word is known by what the code
looks for: erased, a marker, or a part of a certain configuration, so a mixture of two
would show. An erase is done or not: what the page looks like when the power goes in the
middle of it is not in the repository. `Found` is `ReadIniBlk`, with no check of what
is between the markers, because the code has none.

`EepromStore`: one page with a checksum; `Compare`, `Erase`, `Write` and their errors
are the calls of `FLASH_EEPROM_CMD`. An erase that was cut off leaves any part of the page
erased. The checksum is taken to be ideal; that an erased page does not pass it holds for
the code's polynomial and seed. A request that is too short, or that does not ask for the
settings to be saved, is only answered and is no step.

## 3. Runs

| run | question | bounds | result |
|---|---|---|---|
| `sampling_prompt` | does the path keep its promise when the main loop keeps up? | ring 7, blocks up to 3 (2 in 24 bits), 9 samples, 2 set-ups | `NoSilentLoss`, and `SampleRing` implements `SampleStream` |
| `sampling_lapped` | what survives when the reader lags, is lapped, and reads fail? | ring 6, two registers, 9 samples, any lag | `BlockConsecutive`, `ChannelPhase`, `FreshBlock`, `BlockFits`, `BusExclusive`; `BlockCollected` under fairness |
| `wrap_loss` | is a lag of one sample harmless? | ring 5 | violated: samples skipped and not counted |
| `fifo` | is it a queue across wraps? | 4 places, counters of 8 values, writes up to 5 | implements `ByteQueue` |
| `usb` | is the stream whole, is any message met twice or out of order whenever the host sends, and does one that waits lose any? | packets of 2, FIFO of 5, 3 messages, 2 blocks, 1 reset | `WireInOrder`, `NoCommandLost`; `TransferEnds`, `ReplyArrives` under fairness |
| `stm32_prompt` | do replies, errors and samples get along in one loop and one endpoint? | ring 4, packets of 2, blocks of 1 and 2, 6 samples, 3 commands, 1 reset | `AllAccounted`, `GoodSamples`, `BusExclusive`, `NoCommandLost`, `EndpointKept`; `CommandAnswered`, `ErrorReported` under fairness |
| `ble_sessions` | do two hosts share slot and FIFO, and what does a lost connection leave behind? | FIFO 4, replies 2, blocks 3, notifications of 3 and 2, packets of 2, 2 commands, 3 blocks, 2 connections | `StreamContinues`, `NoLateCommand`; `OrphanEnds`, `ReportSent` under fairness |
| `ble_overflow` | does the page understand the error report? | the same | `ReportUnderstood` violated |
| `bl702` | is the unlocked ring sound as long as no interrupt writes inside an operation? | ring 5, transfers of 3, packets of 2, 4 slots, blocks of 2 samples and a head, 5 samples, 1 ADC block, 2 commands, 1 reset | `NothingLost`, `FramingKept`, `FreshBlock`; `Delivered` under fairness |
| `ina229` | what does a pipelined reader keep when it is lapped, restarted and put to sleep? | buffer 6, blocks of 4, 11 samples, 3 commands | `SamplingNeedsSensor`, `ChannelPhase`, `FreshBlock`, `StaleBounded`, `Gapless`, `StatusCounts`; `Delivered` under fairness |
| `ini_store` | does the page keep its promise, wherever the power goes, half-words left half programmed included? | 3 records of 2 half-words and markers, 3 configurations | `WholeRecord`, `OnlyErased`, implements `SettingsStore` but for the answer behind a spoiled start marker; `Heals` under fairness |
| `eeprom_store` | does one page with a checksum keep the promise when flash fails and power goes? | 3 words, 3 configurations | `EepromStore` implements `SettingsStore` |

The type invariants are proved (section 4) and not repeated in the runs. The one that is not
is that of `BleLink`; adding `TypeOK` to the INVARIANTS of `ble_sessions` checks it.

Why the bounds suffice. The ring wraps at least once in every run (more samples
than slots), blocks fall on both sides of its end and across it, and the sizes
are chosen so that the block does not divide the ring. Two set-ups are
a measurement, its end, and the next one, in the state the first left. In
`sampling_prompt` the ring exceeds two blocks, as it does in the code (2 * 60 <
256): the refinement needs it. `sampling_lapped` takes more samples than
the ring has slots before any is collected, and three more: enough to lap a reader that
stands behind samples its last block stepped over. The measure of a lap in `NotLapped`
counts them (`First`); measured from the read index alone it would let a block through
whose first samples were overwritten, which shows from nine samples on. In the FIFO the counters wrap twice
as slowly as the places, as the smallest case of 2^16 over 2048. In `UsbLink`
the packet, the reply and the block are lengths that fill packets, straddle them
and do not divide the FIFO; three messages are one being decoded, one in the slot
and one that finds it taken. In `stm32_prompt` three commands are a measurement,
one that meets it, and the next set-up; the ring wraps, and blocks of one and two
end on and off its edge. In `ble_sessions` one notification is as long as a block and
one shorter, so blocks leave whole and in pieces; the FIFO holds a block and no more
than a part of the next, so it overflows with one block waiting; two connections are
one that is lost and one that comes after it, two commands are one in the slot and one
that finds it taken or overwrites it. In `bl702` two blocks overfill
the ring, and a block and a reply fill it exactly, so writes are cut; the transfer is longer than a packet and does
not divide the ring, so indices go round at every phase; five samples go round the four
slots. In `ina229` neither of buffer and block divides the other, as 1024 and 40; eleven samples
lap the buffer with a block under way, three commands are two measurements and what ends or
disturbs them. In `ini_store` a page fills up, is erased and fills up again, with
broken-off records anywhere in it; three configurations are the last, the one before and
one that comes up again if an older record does. The runs have no bound but these: saves and
power cuts are not counted.

Deadlock is checked in the runs of the CH583 and STM32 modules and of the two stores: some step of the main
loop is always possible. It is not in those of `Ina229`, whose samples and commands may be used up, of `BleLink`, where the commands and
connections of the run may be used up with nothing left to do, and of `Bl702`, whose main
loop waits for `ep_tx_busy_flag`: after a reset of the bus in the middle of a transfer
the code leaves the flag set for good. That is what the source does, and nothing in the
repository promises otherwise, so it is listed as a hazard and `Delivered` claims nothing
after a reset.

Fairness. `SampleRing!FairSpec` is weak fairness of the main loop: no call in it
waits without a limit (`i2c_wait_status` counts down), and interrupts return. The
timer gets none: a measurement need not tick. `UsbLink!FairSpec` adds weak
fairness of `HostIn`: a host with the port open polls the endpoint. Neither
`HostReset` nor a message of the host is fair. `TransferEnds` needs the traffic to
pause: a stream of nothing but full packets has no end of transfer, and the run
bounds the blocks. `Stm32Loop!FairSpec` is the same two: its loop never waits,
its host fetches what is ready. `CommandAnswered` holds by the order of the tests
in the loop, `ErrorReported` because the commands of the run, which go before
errors, are bounded. `BleLink!FairSpec`: a handler that has begun goes on (weak), TMOS
serves the event of a command and the periodic one in turn with everything else, so
`ProcessCommand` and `ble_cmd_notify` are not starved by the handlers between which they
run (strong); for `ble_cmd_notify` this says moreover that the stack does not refuse
for ever. Nothing a host does is fair. `Bl702!FairSpec`: the main loop runs on, the host
fetches what is ready and configures the device after a reset. `Ina229!FairSpec`: the main loop runs on
(weak fairness of `task_data_out`). `IniStore!FairSpec`: the program runs on as long as there
is power; that there is, and that the host goes on saving, are premises of `Heals`.

In `Stm32Loop`, `CommandAnswered`, `ErrorReported` and the part of `NoCommandLost` that says that none is lost are
claimed up to a reset of the bus only: the code leaves `packet_sent` at 0 when a reset takes
the packet away. The first and the last are claimed for a host that was never hasty;
`ErrorReported`, and that no command is decoded twice or after a later one, for every host.

## 4. What is proved

Every theorem is about all values of the constants that satisfy the named assumptions
in the modules; assumptions of a theorem's own are given with it.

### CH583: sampling

`SampleRing_proofs`:

* `TypeCorrect`: `Spec => []TypeOK`. The read index stays in the ring because a
  block does not exceed what the snapshot found (`NewRdInSlot`, from `PendingBounds`).
* `BusIsExclusive`: with `UtrLive = FALSE`, `Spec => []BusExclusive`. Inductive
  as it stands, with the types: each step that enters `start` or `bus` closes the
  gate, and only `Start` and `BusDone` open it as they leave.
* `PromptLosesNothing`: with `MaxLag = 0`, `Spec => []NoSilentLoss`. The invariant
  `NoSilentLoss` speaks only of the moments between two blocks. `AccountInv`
  extends it to the copying: `AllInRing` (no block under way), `BlockUnderWay`
  (`pos` has moved, the read index not yet), `BlockDone` (the index has
  moved, the counters not yet); `AtMostABlock` says that the timer is never
  ahead of a complete block, which is what makes the wrapped rule
  of `NewRd` exact (`NewRdExact`: when exactly a block is pending, the rule gives
  the write index); `GateInv` says when the gate can be open.
* `BlocksFit`: with `FrdLive = FALSE`, `Spec => []BlockFits`, with no assumption on
  the lag. `FormatInv` ties the clamp, applied at the set-up, to the format at
  the time of collecting: the format cannot change while the gate is open.

The second part of it, where the timer may be ahead of the reader by any amount:

* `BlocksAreConsecutive`: `Spec => []BlockConsecutive`. `NumberInv` is three facts: a
  slot written `Age` ticks ago holds the sample of that tick (`SlotInv`); the timer is
  ahead of `pos` by what the indices say, or by a whole lap more (`LapsInv`); the
  block is the run of samples from `First` on, unless it was lapped (`BlockInv`).
  The disjunction in `LapsInv` is what a wrapped `NewRd` leaves of the exact count.
* `BlocksAreFresh`: with `FrdLive = FALSE`, `Spec => []FreshBlock`. The reader never leaves
  the slots written since the set-up (`RegionInv`: below `taken`, before the first lap), it
  collects with the gate open only (`OpenInv`), and those slots are of this measurement.
* `PlaceNamesRegister`: `Spec => []ChannelPhase`. `PhaseInv`: the register to read and the
  slot to write advance together, modulo the number of registers, and a block starts at a
  multiple, because the task leaves the read index at the end of a block or at 0.
* `PromptImplementsStream`: with `MaxLag = 0` and `TwoBlocks` (the ring holds two of the
  longest blocks: 2 * 60 and 256 in the code), `Spec => StreamSpec`: every step of the rings,
  indices and interrupts is a step of `SampleStream` or changes nothing it speaks of. `PathInv`
  joins the invariants above with `WholeBlock`: the snapshot a block is taken
  from holds all of it.

### CH583: FIFO and USB

`DrvFifo_proofs`:

* `TypeCorrect`, and `FifoImplementsQueue`: `Spec => QueueSpec`. The inductive invariant
  is the types with `fifo_length <= Size`: the truncated difference of the counters is the
  number of bytes as long as it does not exceed the buffer (`LengthIs`, `LengthGrows`,
  `LengthShrinks`). `PlaceTurn` says that a counter that starts anew names the same places, because
  `Size` divides its range; with it `StoredKeeps` and `StoredPuts` show that a write
  appends, `ReadDrops` that a read takes from the head.

`UsbLink_proofs`:

* `TypeCorrect`, with no assumption on the host.
* `WireStaysInOrder`: what has been sent, what is in the endpoint and what is in the FIFO,
  one behind the other, are the bytes written, in order; without a reset all of them (`WireInv`).
* `NoCommandIsLost`, with no assumption on the host: the messages decoded are in order, and
  one in the slot that is not taken up is younger than all of them (`OnceInv`). As long
  as the slot is taken, the answer that makes a message dealt with is nowhere on its way
  (`SlotTaken`), so a host that was never hasty has not overwritten it (`PatientInv`).

### STM32F103

`Stm32Loop_proofs`:

* `BusIsExclusive`: the gate is shut at `start` and `bus` (`GateInv`), with no
  further assumption: here every command shuts it.
* `EndpointIsKept`: the action property `EndpointKept`, from `EndpointInv`:
  `packet_sent` implies an empty endpoint and stands from the test in the loop to the
  next `CDC_Send_DATA`, resets included.
* `NoCommandIsLost`: `Spec => []NoCommandLost`. `SlotInv`: while a command waits or is
  worked on its reply is not in the endpoint and `answered` differs from `sent`, so a host
  that was never hasty has not overwritten the buffer. For every other host,
  `OnceInv`: a command not yet taken up is younger than all that were decoded.
* Under `ShortBlocks` (no configuration asks for more than a packet holds; finding 3
  says why it is needed): `TypeCorrect`, with the block never
  longer than `send_pkt`, and `CountIsSent`: the counter of samples read is the number of
  samples given to the endpoint.
* Under `ShortBlocks` and `FetchedInTime` (a block, the lag and one slot are less
  than the ring: with blocks of 30, a host late by 224 samples):
  `TimelyLosesNothing`, `AllAccounted`, which is `CountIsSent` and that every sample taken
  is counted or still waits. `AccountInv` adds that during a copy
  more samples wait than the block lacks, so the read index never passes the
  write index.
* Under the same: `BlocksAreGood`, `GoodSamples`. `RingInv` numbers the samples that wait by
  their distance from the read index, and says that only the last of them may be one
  whose read failed, and only with the timer stopped. More samples wait than the block lacks,
  hence the last is never copied: the strict comparison in the test for a block is
  what keeps a failed read from the host.

### BLE and BL702

`BleLink_proofs`:

* `NoCommandOutlives`: a client's command in the slot, or in a handler, is of the present connection
  or of one that ended with notifications off (`LinkInv`, `MayRun`); a connection ends between two
  handlers, and if notifications were on the power-off command takes the place of what is in
  the slot, also of what an earlier client left there.
* `StreamIsContinuous`: the FIFO holds the bytes from `base + 1` to `written` (`StreamInv`).

`Bl702_proofs`, for a ring, packet, transfer, block and unsigned word of any size:

* `BlocksAreFresh`: the action property `FreshBlock`. `SlotInv`:
  unless a flush came in the middle of `task_I2C`, either the timer has come round and every
  slot is of this measurement (`Round`), or the reader and all it has set out to take are behind the
  timer (`Behind`).
* `NothingIsLost`, `FramingIsKept`: the invariants `NothingLost` and `FramingKept`, from
  `PipeInv`, which holds until an interrupt writes inside an operation of the main loop or the
  bus is reset (`CleanInv`). `Numbered(p)` is the place of byte `p` of the stream: the last
  one the host took, then the endpoint or `write_buffer` (`Transit`), then the cell of the ring that
  the mirrors and indices make the one for it. `StreamInv` says that the bytes of these
  places follow each other from the host to the end of the ring; `RingInv`, that mirrors and
  indices agree with the number of bytes held, with the mirrors as they will be when a flip
  that is due is done (`ReadSide`, `WriteSide`); `OpInv`, that what an operation has read is
  still so; `TransferInv`, that there is one transfer at a time. `LengthIs`, `WriteMoves` and
  `ReadMoves` are the arithmetic of the two mirrors; `FillIs` and `TakenOutIs` what the copies
  across the end of the ring put in and take out; `ReceivedIs` what the host makes of a packet.
* `TypeCorrect`: `Spec => []TypeOK` without that premise. However the interrupts cut
  into the operations, no index leaves the ring and no mirror is other than 0 or 1; the word
  width is needed for this (`readIndex += length` is an unsigned sum, `ring_buffer.c:415`).

`Ina229_proofs`, for every even buffer and block:

* `TypesHold`. `Filled` says how much of the block is there at each place of
  `task_data_out`.
* `SensorNeeded`: a step that lets the sensor sleep stops the timer first, and only
  `ina229_start` sets it going, behind its test.
* `ChannelsInPlace`: `Question` ties the question in the SPI's fifo to the place it will be
  stored at; `Phases` says that places of the buffer and of the block hold words of their own
  channel.
* `BlocksFresh`: unless a start came in the middle of `task_data_out`, what the task takes
  was written since (`Fresh`).
* `CountsAddUp`: `Tally`, which ties the counters to the place of the program.
* `BlocksGapless`: `NumberInv`. A place written `Age` ticks ago holds the sample of that tick
  (`Numbered`), the read index stands behind the last sample handed over as long as the buffer was never full
  (`ReaderAt`), and the block in hand is a run of samples whose rest is not overwritten before
  it is copied (`BlockRun`).
* `StaleIsBounded`: `StaleInv`. Words of an earlier measurement can be handed over only until
  the timer has come round. Until then, either the read index is below the words of this
  measurement, or those handed over and those from the index to the end of the buffer (`Rest`)
  together stay below the bound (`ReaderSafe`); for a block in hand the same, with one block more (`CopySafe`).

### Settings

`SettingsStore_proofs`. About `IniStore`, for every page, record and set of configurations; the invariant is
`Frontier`: the records in use are the first ones of the page; every half-word behind them is
erased, and behind `at` in the one being written.

* `TypeCorrect`; `OnlyErasedWritten` (`ClearIsErased`: a
  record whose start marker is erased is erased as a whole, because the marker is programmed first); `RecordsAreWhole`
  (`EndedIsWhole`: an end marker is programmed last).
* `PageImplementsStore`: no older settings come up again, because a record is added behind
  all others or after an erase; what is answered is found, as long as every
  record in use has its start marker (`MarkersWhole`), so that the search comes to the last.

About `EepromStore`, for every number of words and set of configurations (its definitions come in
by an instance named `Eeprom`, which shares the constants and variables of the same names):

* `EepromTypeCorrect`, and `EepromImplementsStore`: `Eeprom!Spec => Eeprom!StoreSpec`. `EepromInv`: the
  words before `at` are those of the configuration in use. Hence a page that is written word by word
  holds nothing, or that configuration (`WrittenWord`), and what an erase leaves, cut off or
  not, holds what it held before or nothing (`SpoiledLoses`). Unlike `IniStore` it needs no premise.

The inductive invariants were checked with TLC on instances like those above before they
were proved. Each theorem that states a property of a run is listed in `PROJECT.json`; every
invariant, action property and refinement of the passing runs is stated by one.

Only model-checked: liveness
(`BlockCollected`, `TransferEnds`, `ReplyArrives`, `CommandAnswered`, `ErrorReported`,
`OrphanEnds`, `ReportSent`, `Delivered` of `Bl702` and of `Ina229`, `Heals`), which is beyond the proof system; and the
types of `BleLink`, whose client is what a fold over the bytes of a notification makes of
it: that needs induction over the bytes, which the provers cannot do.

## 5. Findings

The first and the fourth are runs that TLC finds violated, `wrap_loss` and `ble_overflow`.
The others were seen while the modules were written; for each it is said which change to a module or
configuration makes TLC show it.

1. `i2c_dev.c:345`, `:363`: samples lost without a count (run `wrap_loss`). With
   blocks of 20, as `ina228_start` sets up, slots 240 to 255 and 4 of the next
   round make a block; the block before it ends at slot 240. If by then the
   writer has wrapped, the task leaves 0 instead of 240 and 16 samples are gone.
   The converter's channels stay in step only if the registers divide the ring.
2. `cmd_decode.c:202`: `CMD_DEV_UTR` does not close the gate: with `UtrLive = TRUE`
   `BusExclusive` is violated.
3. `STM32F103/Main/main.c:315`, `:331`: `pktcnt` is limited to 62, the bytes of
   `send_pkt.data.ui`, not its 31 entries. The copy runs over the
   end of `send_pkt`; of the outcomes of that, which depend on what the linker put behind
   it, the model has the mildest. `CDC_Send_DATA` then refuses the block, nobody
   looks at its result, and the samples count as sent; `to_cnt`, the counter of samples
   not sent, is never incremented. A configuration longer than `PktRoom` (5 of 4, say)
   violates `CountedIsSent`.
4. `ch583/I2C2BLE/APP/i2c_dev.c:414`: on an overflow the FIFO is flushed and the error
   report written. The FIFO is sent in pieces, so the client may have had the first piece of a
   block whose rest is thrown away; the page counts bytes, takes the report for the
   rest, and does not stop (run `ble_overflow`). Nor does it empty `smp_buf` on a new
   connection.
5. `BL702/PowerProfiler/src/usb_buffer.h:14`: without the lock, an answer or an ADC
   block written by an interrupt between the main loop's computation of the room and its update of
   the write index destroys bytes that both callers were told are written. `NothingLost` is violated
   if it does not exempt `overlap`.
6. `INA228_229/BL702/PowerProfiler_ina229/src/cmd_decode.c:224`: a start with the sensor asleep or
   not found is answered with `enable` 1 ("1 = start", `cmd_cfg.h:137`), and nothing is
   measured (`ina229_start` without effect, in the model).
7. `STM32F103/Main/rw_ini.c:26`: the search for "the last block written" ends at a start
   marker that a power cut left half programmed, the search for a clear one does not:
   settings saved after it are answered and not found until the page has been filled and
   erased. Without its premise `MarkersWhole`, `StoreSpec` is violated; that the page then
   heals is `Heals`.
8. `ch583/I2C2BLE/APP/peripheral.c:563`: the termination handler replaces the command in the
   slot only `if(ble_enable)`, but a client need not have subscribed to write one
   (`ble_cmd_service.c:285-296`). The command of a client that writes and leaves with
   notifications off is carried out when the connection is gone, in the next client's session it
   may be, and a measurement it starts is then nobody's. Without `c.link \in muted` in `MayRun`,
   `NoLateCommand` is violated.

## 6. Not modelled, and why

* Values, units, clock and period arithmetic of `I2CDevStart`: no control depends
  on them but the refusal of a short period.
* Contents of replies, enumeration, descriptors: no property is about them. That
  `I2CBusUtr` returns 0 for success where its caller expects the opposite
  (`cmd_decode.c:200`) and that the port test of `CMD_I2C_PWR` clears the other outputs
  (`:283`) are seen by reading; a model would only repeat the statement.
* `CMD_DEV_FRD` while measuring is part of `sampling_prompt` (it does not disturb
  the accounting) but not of `sampling_lapped`: blocks then can mix formats and
  exceed their limit, as `hazards` notes.
* Flash below the half-word or word: a page of the STM32 whose erase was cut off, and bits that
  read differently each time.
* I2C and SPI drivers: registers of peripherals whose behaviour is not in the
  repository. A transfer succeeds or fails.
* CH592 firmware: a near copy of the CH583 one.
* Host programs beyond the way they take blocks off the stream (`Bl702`, `BleLink`):
  forms, plots, timeouts, and the order of their requests. `UsbLink` and `Stm32Loop` let the
  host send whenever it likes, which covers them.
* The BLE stack and the vendor SDKs: modelled only as the firmware meets them.
* The BL702 DAC and the BLE device information service: no state of the measurement.

## 7. Order of reading, and what could follow

`SampleStream`, `SampleRing`; `ByteQueue`, `DrvFifo`; `UsbLink`; `Stm32Loop`; `BleLink`;
`Bl702`, `Ina229`; `SettingsStore`, `IniStore`, `EepromStore`. What could follow: the composition of `SampleRing`,
`DrvFifo` and `UsbLink` into one specification whose host receives what
`SampleStream` promises.
