---------------------------- MODULE MCStm32Loop ----------------------------
EXTENDS Stm32Loop

Plain == [pktcnt |-> 1, regs |-> 2, tooFast |-> FALSE]
Pair == [pktcnt |-> 2, regs |-> 1, tooFast |-> FALSE]
Refused == [pktcnt |-> 2, regs |-> 1, tooFast |-> TRUE]

MCConfigs == {Plain, Pair, Refused}
=============================================================================
