----------------------------- MODULE MCUsbLink -----------------------------
(***************************************************************************)
(* Instances of UsbLink for TLC: packets of two bytes, blocks and replies  *)
(* that fill packets, straddle them and find the FIFO full.                *)
(***************************************************************************)
EXTENDS UsbLink
=============================================================================
