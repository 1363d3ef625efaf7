-------------------------- MODULE MCEepromStore --------------------------
(***************************************************************************)
(* Instance of EepromStore for TLC: three words, three configurations.     *)
(***************************************************************************)
EXTENDS EepromStore
=============================================================================
