----------------------------- MODULE MCOutbound -----------------------------
(***************************************************************************)
(* Finite instances of Outbound for TLC.                                   *)
(***************************************************************************)
EXTENDS OutboundClaims, OutboundPayout, TLC

CONSTANTS w1, w2, s1, t1, p1

MCPurpose ==
  [r \in Rows |-> CASE r \in {w1, w2} -> "withdrawal"
                    [] r = s1         -> "sweep"
                    [] r = t1         -> "gas_topup"
                    [] OTHER          -> "token_sweep"]

\* Withdrawals and top-ups spend the treasury, sweeps a deposit address.
MCFrom == [r \in Rows |-> IF r \in {w1, w2, t1} THEN "treasury" ELSE "deposit"]

MCDependsOn == [r \in Rows |-> IF r = p1 THEN t1 ELSE NoRow]

\* Ticks are interchangeable, and so are two withdrawals.
Symmetry ==
  Permutations(Workers) \cup Permutations(Operators) \cup Permutations({w1, w2})
=============================================================================
