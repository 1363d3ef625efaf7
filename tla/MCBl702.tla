------------------------------ MODULE MCBl702 ------------------------------
(***************************************************************************)
(* Instance of Bl702 for TLC: a ring  that two blocks overfill, transfers  *)
(* that end on a full packet and not, four slots for samples.              *)
(***************************************************************************)
EXTENDS Bl702
=============================================================================
