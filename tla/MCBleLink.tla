----------------------------- MODULE MCBleLink -----------------------------
(***************************************************************************)
(* Instances of BleLink for TLC: notifications shorter and longer than a   *)
(* block, a FIFO that two blocks fill.                                     *)
(***************************************************************************)
EXTENDS BleLink
=============================================================================
