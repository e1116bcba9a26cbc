------------------------------ MODULE MCRelay ------------------------------
(***************************************************************************)
(* A finite instance of Relay for TLC.                                     *)
(***************************************************************************)
EXTENDS Relay, TLC

MCKinds == {"relay", "fee"}
MCSets  == {{"relay"}, {"fee"}}
=============================================================================
