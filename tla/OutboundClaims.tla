--------------------------- MODULE OutboundClaims ---------------------------
(***************************************************************************)
(* What comments, messages and the README of the source say of the         *)
(* outbound machine, and the machine of Outbound does not do.  Each is the *)
(* single property of a run that TLC refutes.                              *)
(***************************************************************************)
EXTENDS Outbound

\* README.md:44 and worker.ts:23, on a crash before the commit: "the signature
\* is discarded unbroadcast and the next tick starts again from a fresh nonce
\* read".  A row left in `building` is read by inFlightOnChain and advanced,
\* never built again.
CrashBeforeCommitIsRetried ==
  \A r \in Rows : state[r] = "building" ~> state[r] # "building"

\* adjudicate.ts:5: "Refunding a payment that then lands pays the user twice";
\* README.md:72: "Absence never refunds".  proveDead reads the receipt and then
\* the nonce, and the payment itself can be what moves the nonce in between.
RefundedNeverLands == \A r \in Rows : state[r] = "failed" => ~Landed(r)
=============================================================================
