------------------------------ MODULE MCSweeps ------------------------------
(***************************************************************************)
(* A finite instance of Sweeps for TLC.                                    *)
(***************************************************************************)
EXTENDS Sweeps
=============================================================================
