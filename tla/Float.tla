------------------------------- MODULE Float --------------------------------
(***************************************************************************)
(* What the books of an asset promise: they follow the coin.  Coin is      *)
(* paid out of both at once; float the books do not know enters them whole *)
(* and once; nothing else ever moves one without the other.                *)
(***************************************************************************)
EXTENDS Naturals

VARIABLES
  held,   \* the coin at addresses of the platform
  booked  \* the custody account of the ledger

Open ==
  /\ booked' = held
  /\ UNCHANGED held

Pay == \E n \in 1..booked :
  /\ held' = held - n
  /\ booked' = booked - n

Init == held \in Nat /\ booked \in 0..held

Next == Open \/ Pay

Spec == Init /\ [][Next]_<<held, booked>>
=============================================================================
