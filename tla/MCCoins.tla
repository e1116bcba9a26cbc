------------------------------ MODULE MCCoins ------------------------------
(***************************************************************************)
(* A finite instance of Coins for TLC: sizes and rates scaled down so that *)
(* dust, change and both ceilings are met by coins of a few units.         *)
(***************************************************************************)
EXTENDS Coins

MCMedian  == <<1, 2, 0, 0>>
MCCeiling == [s \in Shapes |-> IF s = "sweep" THEN 2 ELSE 3]
MCCustody == [s \in Shapes |-> IF s = "sweep" THEN 3 ELSE 4]
=============================================================================
