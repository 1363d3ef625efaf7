------------------------------ MODULE MCIna229 ------------------------------
(***************************************************************************)
(* Instance of Ina229 for TLC: six slots, blocks of four samples, and      *)
(* interrupts enough to lap the buffer.                                    *)
(***************************************************************************)
EXTENDS Ina229
=============================================================================
