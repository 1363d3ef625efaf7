---------------------------- MODULE SampleStream ----------------------------
(***************************************************************************)
(* What the acquisition path of the CH58x firmware promises its host, free *)
(* of rings, indices and interrupts.                                       *)
(*                                                                         *)
(* While a measurement runs, samples are taken one after the other and are *)
(* handed over in blocks of pkt consecutive samples.  A block is either    *)
(* delivered or lost as a whole, and every lost block is counted.  A       *)
(* restart begins a new measurement with the counters at zero.             *)
(***************************************************************************)
EXTENDS Naturals, Sequences

VARIABLES
  pkt,        \* samples per block; 0: no block is handed over
  taken,      \* samples taken since the measurement began
  next,       \* number of the first sample not yet handed over
  delivered,  \* numbers of the samples delivered, in the order of delivery
  lost        \* blocks lost and counted

vars == <<pkt, taken, next, delivered, lost>>

TypeOK ==
  /\ pkt \in Nat
  /\ taken \in Nat
  /\ next \in Nat
  /\ delivered \in Seq(Nat)
  /\ lost \in Nat

\* A block size may be left from before the power came on.
Init ==
  /\ pkt \in Nat
  /\ taken = 0
  /\ next = 0
  /\ delivered = <<>>
  /\ lost = 0

\* The numbers of the samples of the block that begins at n.
Block(n) == [k \in 1 .. pkt |-> n + k - 1]

BlockReady ==
  /\ pkt > 0
  /\ next + pkt <= taken

Take ==
  /\ pkt > 0
  /\ taken' = taken + 1
  /\ UNCHANGED <<pkt, next, delivered, lost>>

Deliver ==
  /\ BlockReady
  /\ delivered' = delivered \o Block(next)
  /\ next' = next + pkt
  /\ UNCHANGED <<pkt, taken, lost>>

Lose ==
  /\ BlockReady
  /\ next' = next + pkt
  /\ lost' = lost + 1
  /\ UNCHANGED <<pkt, taken, delivered>>

Stop ==
  /\ pkt' = 0
  /\ UNCHANGED <<taken, next, delivered, lost>>

Start ==
  /\ pkt' \in Nat \ {0}
  /\ taken' = 0
  /\ next' = 0
  /\ delivered' = <<>>
  /\ lost' = 0

\* A set-up that ends without a measurement.
Clear ==
  /\ pkt' = 0
  /\ taken' = 0
  /\ next' = 0
  /\ delivered' = <<>>
  /\ lost' \in {0, lost}

Next ==
  \/ Take
  \/ Deliver
  \/ Lose
  \/ Stop
  \/ Clear
  \/ Start

Spec == Init /\ [][Next]_vars
=============================================================================
