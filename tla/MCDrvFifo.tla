----------------------------- MODULE MCDrvFifo -----------------------------
(***************************************************************************)
(* Instance of DrvFifo for TLC: a buffer of four bytes, counters that wrap *)
(* every second time the places do.                                        *)
(***************************************************************************)
EXTENDS DrvFifo
=============================================================================
