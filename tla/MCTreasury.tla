----------------------------- MODULE MCTreasury -----------------------------
(***************************************************************************)
(* Finite instances of Treasury for TLC.                                   *)
(***************************************************************************)
EXTENDS Treasury
=============================================================================
