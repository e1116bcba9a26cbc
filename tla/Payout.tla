------------------------------- MODULE Payout -------------------------------
(***************************************************************************)
(* What the service promises the wallet: a withdrawal it was asked for is  *)
(* paid at most once, and the one outcome the wallet is told is the truth  *)
(* for ever.  Money told to be returned never leaves, money told to have   *)
(* left has left.                                                          *)
(***************************************************************************)
CONSTANT Requests

VARIABLES
  asked,  \* the withdrawals the service has taken on
  paid,   \* those whose money has left the treasury
  told    \* what the wallet was told of each

Open(r) == told[r] = "nothing"

Ask(r) ==
  /\ r \notin asked
  /\ asked' = asked \cup {r}
  /\ UNCHANGED <<paid, told>>

Pay(r) ==
  /\ r \in asked \ paid /\ Open(r)
  /\ paid' = paid \cup {r}
  /\ UNCHANGED <<asked, told>>

Complete(r) ==
  /\ r \in paid /\ Open(r)
  /\ told' = [told EXCEPT ![r] = "completed"]
  /\ UNCHANGED <<asked, paid>>

GiveBack(r) ==
  /\ r \in asked \ paid /\ Open(r)
  /\ told' = [told EXCEPT ![r] = "failed"]
  /\ UNCHANGED <<asked, paid>>

Init ==
  /\ asked = {} /\ paid = {}
  /\ told = [r \in Requests |-> "nothing"]

Next ==
  \/ \E r \in Requests : Ask(r) \/ Pay(r) \/ Complete(r) \/ GiveBack(r)

Spec == Init /\ [][Next]_<<asked, paid, told>>
=============================================================================
