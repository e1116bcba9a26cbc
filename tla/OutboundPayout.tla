--------------------------- MODULE OutboundPayout ---------------------------
(***************************************************************************)
(* The outbound machine implements Payout, as seen from the chain and from *)
(* the outbox.                                                             *)
(***************************************************************************)
EXTENDS Outbound

Withdrawals == {r \in Rows : Purpose[r] = "withdrawal"}

\* The outcome the outbox tells the wallet; it is no outcome of Payout when the
\* events contradict or repeat one another.
Told(r) ==
  CASE events[r]["completed"] = 0 /\ events[r]["failed"] = 0 -> "nothing"
    [] events[r]["completed"] = 1 /\ events[r]["failed"] = 0 -> "completed"
    [] events[r]["completed"] = 0 /\ events[r]["failed"] = 1 -> "failed"
    [] OTHER                                                 -> "contradiction"

Promise == INSTANCE Payout WITH
  Requests <- Withdrawals,
  asked    <- {r \in Withdrawals : state[r] # "absent"},
  paid     <- {tx[1] : tx \in landed} \cap Withdrawals,
  told     <- [r \in Withdrawals |-> Told(r)]

\* Every behaviour of the driver, seen from outside, is one the wallet was
\* promised: no double payment, no refund of what landed or may land, one
\* truthful outcome.  About worker.ts, on a chain that takes nothing back.
KeepsThePromise == Promise!Spec
=============================================================================
