---------------------------- MODULE MCSampleRing ----------------------------
(***************************************************************************)
(* Instances of SampleRing for TLC.                                        *)
(***************************************************************************)
EXTENDS SampleRing

Measure(n, regs) == [pktcnt |-> n, regs |-> regs, tooFast |-> FALSE]
Refused(n, regs) == [pktcnt |-> n, regs |-> regs, tooFast |-> TRUE]

\* One register; blocks below, at and above the limits; the stop command;
\* a refused period; no register to read.
OneRegister == {Measure(0, 1), Measure(3, 1), Refused(2, 1), Measure(2, 0)}
OneRegisterEcad == Measure(2, 1)

\* Two registers, read in turn; blocks of 4 samples of 16 bits or 2 of 24.
TwoRegisters == {Measure(4, 2), Refused(2, 2)}
TwoRegistersEcad == Measure(2, 2)

\* A single measurement.
OneMeasurement == {Measure(2, 1)}
=============================================================================
