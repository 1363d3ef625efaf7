----------------------------- MODULE MCIniStore -----------------------------
(***************************************************************************)
(* Instance of IniStore for TLC: a page of three records of two            *)
(* half-words, three configurations.                                       *)
(***************************************************************************)
EXTENDS IniStore
=============================================================================
