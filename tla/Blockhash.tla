----------------------------- MODULE Blockhash -----------------------------
(***************************************************************************)
(* The Solana adapter, solana.ts, for one row: a transfer is valid while   *)
(* the blockhash it names is among the last Life ones, and that is all     *)
(* there is to prove it dead by.  Blocks are processed on a fork that may  *)
(* be left, and finalized behind it; every call of the node is a step.     *)
(*                                                                         *)
(* A blockhash is the height of its block, a balance what it is at some    *)
(* height, and one node answers every call.  Addresses and the wire format *)
(* are left out.                                                           *)
(***************************************************************************)
EXTENDS Integers

CONSTANTS
  Life,       \* blocks a blockhash is valid for
  Depth,      \* spec.confirmations; a block that deep is final
  Rent,       \* what a live account may not fall below
  Fees,       \* what getFeeForMessage may answer
  MaxFee,     \* bounds.maxFeeWei
  Amount,     \* what a payment pays
  Openings,   \* what the source may hold at first
  Extra,      \* a deposit that may still come
  MaxTip      \* bound: height of the chain

ASSUME BlockhashAssumption ==
  /\ Life \in Nat \ {0} /\ Depth \in Nat \ {0} /\ Rent \in Nat
  /\ Fees \subseteq Nat \ {0} /\ MaxFee \in Nat /\ Amount \in Nat \ {0}
  /\ Openings \subseteq Nat /\ Extra \in Nat \ {0} /\ MaxTip \in Nat \ {0}

VARIABLES
  shape,       \* payment or sweep
  \* the chain
  tip, final,  \* the last processed block and the last finalized one
  opening,     \* what the source holds at first
  deposited,   \* the block of the deposit; 0 while there is none
  included,    \* the block that has the row's transaction, 0 for none
  failed,      \* whether it was applied and did not deliver
  \* the row
  state, value, fee, hash, sent,
  \* a call of the adapter
  pc, fresh,
  undone       \* what a verdict rests on, or was asked before, is no longer so

network == <<tip, final, opening, deposited, included, failed>>
row     == <<state, value, fee, hash, sent>>
vars    == <<shape, network, row, pc, fresh, undone>>

Landed == included > 0 /\ ~failed

BalanceAt(h) ==
  opening + (IF deposited \in 1..h THEN Extra ELSE 0)
    - (IF included \notin 1..h THEN 0 ELSE IF failed THEN fee ELSE value + fee)

\* 'confirmed' is somewhere between the finalized block and the tip.
Confirmed == final..tip

(***************************************************************************)
(* The quote.                                                              *)
(***************************************************************************)
BaseFee == {f \in Fees : f <= MaxFee}

Locks(v, f) ==
  /\ state' = "planned" /\ value' = v /\ fee' = f
  /\ UNCHANGED <<shape, network, hash, sent, pc, fresh, undone>>

EstimateFee ==
  /\ shape = "payment" /\ state = "none"
  /\ \E f \in BaseFee : Locks(Amount, f)

\* From the finalized balance, and to the last lamport.
SweepQuote ==
  /\ shape = "sweep" /\ state = "none"
  /\ \E f \in BaseFee : BalanceAt(final) > f /\ Locks(BalanceAt(final) - f, f)

(***************************************************************************)
(* build: the blockhash, the balance and the rent are asked for at once.   *)
(***************************************************************************)
\* Mutant: the blockhash of a block that is not final yet.
LatestBlockhash_Processed == tip
LatestBlockhash == final

BuildBlockhash ==
  /\ pc = "idle" /\ state = "planned"
  /\ pc' = "build" /\ fresh' = LatestBlockhash
  /\ UNCHANGED <<shape, network, row, undone>>

Payable(b) == b = value + fee \/ b >= value + fee + Rent

\* Too little, or a residue that may not stay behind, is put off.
Build ==
  /\ pc = "build"
  /\ \E h \in Confirmed :
       IF Payable(BalanceAt(h))
       THEN state' = "signed" /\ hash' = fresh
       ELSE UNCHANGED <<state, hash>>
  /\ pc' = "idle" /\ fresh' = 0
  /\ UNCHANGED <<shape, network, value, fee, sent, undone>>

(***************************************************************************)
(* The bytes.                                                              *)
(***************************************************************************)
Expiry == hash + Life

\* Preflight refuses an expired blockhash; bytes that were processed already are
\* a success.
Broadcast ==
  /\ pc = "idle" /\ state \in {"signed", "broadcast"}
  /\ tip <= Expiry \/ included > 0
  /\ state' = "broadcast" /\ sent' = TRUE
  /\ UNCHANGED <<shape, network, value, fee, hash, pc, fresh, undone>>

\* Mutant: a block that is not final settles.
StatusOf_Processed ==
  IF included = 0 THEN "unknown" ELSE IF failed THEN "rejected" ELSE "confirmed"

\* Applied and failed is rejected at any depth; the depth of the rest counts.
StatusOf ==
  IF included = 0 THEN "unknown"
  ELSE IF failed THEN "rejected"
  ELSE IF included <= final \/ tip - included >= Depth THEN "confirmed" ELSE "pending"

\* The driver, or an operator who confirms.
Advance ==
  /\ pc = "idle" /\ state \in {"broadcast", "stuck"}
  /\ \/ StatusOf = "confirmed" /\ state' = "confirmed"
     \/ StatusOf = "rejected" /\ state' = "failed"
  /\ UNCHANGED <<shape, network, value, fee, hash, sent, pc, fresh, undone>>

GoStuck ==
  /\ pc = "idle" /\ state \in {"signed", "broadcast"}
  /\ state' = "stuck"
  /\ UNCHANGED <<shape, network, value, fee, hash, sent, pc, fresh, undone>>

\* proveDead, the status first.
ProveStatus ==
  /\ pc = "idle" /\ state = "stuck"
  /\ \/ StatusOf = "rejected" /\ state' = "failed" /\ UNCHANGED pc
     \/ StatusOf = "unknown" /\ pc' = "prove" /\ UNCHANGED state
  /\ UNCHANGED <<shape, network, value, fee, hash, sent, fresh, undone>>

\* isBlockhashValid, at 'finalized'.
IsBlockhashValid == hash <= final /\ final <= Expiry

ProveBlockhash ==
  /\ pc = "prove"
  /\ IF IsBlockhashValid
     THEN UNCHANGED state /\ undone' = FALSE
     ELSE state' = "dead" /\ UNCHANGED undone
  /\ pc' = "idle"
  /\ UNCHANGED <<shape, network, value, fee, hash, sent, fresh>>

(***************************************************************************)
(* The chain.                                                              *)
(***************************************************************************)
Block ==
  /\ tip < MaxTip /\ tip - final < Depth
  /\ tip' = tip + 1
  /\ \E d \in BOOLEAN :
       /\ d => deposited = 0
       /\ deposited' = IF d THEN tip + 1 ELSE deposited

EmptyBlock ==
  /\ Block
  /\ UNCHANGED <<shape, final, opening, included, failed, row, pc, fresh, undone>>

\* Bytes that were sent are included while their blockhash lives, and deliver
\* only where the balance allows it.
Include ==
  /\ sent /\ included = 0
  /\ hash <= tip /\ tip < Expiry
  /\ Block
  /\ included' = tip + 1
  /\ failed' \in BOOLEAN /\ (~Payable(BalanceAt(tip)) => failed')
  /\ undone' = (undone \/ pc = "prove")
  /\ UNCHANGED <<shape, final, opening, row, pc, fresh>>

Finalize ==
  /\ final < tip
  /\ final' = final + 1
  /\ UNCHANGED <<shape, tip, opening, deposited, included, failed, row, pc, fresh, undone>>

\* The fork is left for another that shares its blocks up to h.
Rollback ==
  /\ \E h \in final..(tip - 1) :
       /\ tip' = h
       /\ deposited' = IF deposited > h THEN 0 ELSE deposited
       /\ included' = IF included > h THEN 0 ELSE included
       /\ failed' = (failed /\ included <= h)
       /\ undone' = (undone \/ (failed /\ included > h))
  /\ UNCHANGED <<shape, final, opening, row, pc, fresh>>

Init ==
  /\ shape \in {"payment", "sweep"}
  /\ tip = 1 /\ final = 1
  /\ opening \in Openings /\ deposited = 0 /\ included = 0 /\ failed = FALSE
  /\ state = "none" /\ value = 0 /\ fee = 0 /\ hash = 0 /\ sent = FALSE
  /\ pc = "idle" /\ fresh = 0 /\ undone = FALSE

Next ==
  \/ EstimateFee \/ SweepQuote \/ BuildBlockhash \/ Build
  \/ Broadcast \/ Advance \/ GoStuck \/ ProveStatus \/ ProveBlockhash
  \/ EmptyBlock \/ Include \/ Finalize \/ Rollback

Spec == Init /\ [][Next]_vars

(***************************************************************************)
(* Properties.                                                             *)
(***************************************************************************)
\* Every variable keeps its type, and no fork leaves a finalized block.
TypeOK ==
  /\ shape \in {"payment", "sweep"}
  /\ tip \in 1..MaxTip /\ final \in 1..tip
  /\ opening \in Openings /\ deposited \in 0..tip /\ included \in 0..tip /\ failed \in BOOLEAN
  /\ state \in {"none", "planned", "signed", "broadcast", "stuck", "confirmed", "failed", "dead"}
  /\ value \in Nat /\ fee \in Nat /\ hash \in 0..MaxTip /\ sent \in BOOLEAN
  /\ pc \in {"idle", "build", "prove"} /\ fresh \in 0..MaxTip /\ undone \in BOOLEAN

\* A row that was proved dead or failed never delivers, on any fork, unless the
\* bytes were included behind the proof's first question or the block that
\* applied them was left ("a proof that can be reversed is not one to refund on").
DeadNeverDelivers ==
  state \in {"dead", "failed"} /\ ~undone =>
    ~Landed /\ (failed \/ final >= Expiry)

\* A confirmed row has delivered, on every fork there may still be.
ConfirmedIsFinal == state = "confirmed" => Landed /\ included <= final
=============================================================================
