------------------------------- MODULE Intake -------------------------------
(***************************************************************************)
(* The event intake, POST /v1/events of server.ts: a withdrawal the wallet *)
(* asks for (withdrawals.ts), gas for a deployer (deployerfunding.ts) and  *)
(* the erasure of a user (erasure.ts), each behind the inbox of outbox.ts. *)
(* The relays that deliver are at least once: any event comes any number   *)
(* of times, in any order, to several requests at once, and a request may  *)
(* die at any await.                                                       *)
(*                                                                         *)
(* A payload that is refused before anything is read or written (bad       *)
(* signature, malformed, another network, an amount out of range, a chain  *)
(* without an adapter) changes nothing and is left out.  What becomes of a *)
(* row is Outbound; here the driver settles it in one step.                *)
(***************************************************************************)
EXTENDS Integers, FiniteSets

CONSTANTS
  Events,      \* event ids; several may ask for one thing
  Topic,       \* per event: withdrawal, deploy or deleted
  Key,         \* per event: the idempotency key of the row it asks for
  Subject,     \* per event: the withdrawal, the token, or the user deleted
  UserOf,      \* per withdrawal: its user
  Offers,      \* sets of events that may be sent together
  Requests,    \* requests that may be handled at once
  TopUpMaxPerToken,
  MaxFaults    \* bound: requests that die, or meet a service that does not answer

Withdrawals == {Subject[e] : e \in {x \in Events : Topic[x] = "withdrawal"}}
Tokens      == {Subject[e] : e \in {x \in Events : Topic[x] = "deploy"}}
Users       == {UserOf[w] : w \in Withdrawals}
Keys        == {Key[e] : e \in {x \in Events : Topic[x] # "deleted"}}
About(k)    == CHOOSE s \in Withdrawals \cup Tokens : \E e \in Events : Key[e] = k /\ Subject[e] = s

ASSUME IntakeAssumption ==
  /\ Offers \subseteq SUBSET Events
  /\ TopUpMaxPerToken \in Nat /\ MaxFaults \in Nat
  /\ IsFiniteSet(Requests) /\ Requests # {}
  /\ Topic \in [Events -> {"withdrawal", "deploy", "deleted"}]
  \* A withdrawal is the id the wallet gave it, a token is an address.
  /\ Withdrawals \cap Tokens = {}
  \* The key of a withdrawal is its own, that of a top-up its token's and attempt's.
  /\ \A e, f \in Events : Key[e] = Key[f] => Topic[e] = Topic[f] /\ Subject[e] = Subject[f]
  /\ \A e, f \in Events :
       Topic[e] = "withdrawal" /\ Topic[f] = "withdrawal" /\ Subject[e] = Subject[f] => Key[e] = Key[f]

VARIABLES
  offered,     \* the events sent, one of Offers
  provisioned, \* the chain has a treasury
  inbox,       \* the events received
  row,         \* per key: absent, planned, signed, confirmed or failed
  named,       \* per key: whether the row names its user: no, yes, or late, when it
               \* was planned after the erasure of that user
  refunds,     \* per withdrawal: the refunds announced without a row
  erased,      \* the users that were erased
  at,          \* per request: where it is, and the event it handles
  faults

tables == <<inbox, row, named, refunds, erased>>
vars   == <<offered, provisioned, tables, at, faults>>

Idle     == [pc |-> "idle", event |-> "none"]
Event(h) == at[h].event

Goto(h, pc) == at' = [at EXCEPT ![h].pc = pc]
Answer(h)   == at' = [at EXCEPT ![h] = Idle]

(***************************************************************************)
(* withInbox: a transaction whose first statement claims the event.        *)
(***************************************************************************)
\* Another transaction that has claimed the event makes this one wait.
Free(e) == \A h \in Requests : at[h].pc \in {"source", "refuse", "plan"} => Event(h) # e

\* Mutant: the event is recorded before it is handled.
ClaimInbox_Recorded(e) == inbox' = inbox \cup {e}
ClaimInbox(e) == UNCHANGED inbox

First(topic) ==
  CASE topic = "withdrawal" -> "claim" [] topic = "deploy" -> "count" [] OTHER -> "erase"

\* handleEvent, up to the first await of the topic's handler.
Receive(h, e) ==
  /\ at[h].pc = "idle" /\ e \in offered
  /\ at' = [at EXCEPT ![h] = [pc |-> First(Topic[e]), event |-> e]]
  /\ UNCHANGED <<offered, provisioned, tables, faults>>

(***************************************************************************)
(* handleWithdrawalRequested.                                              *)
(***************************************************************************)
Claim(h) ==
  LET e == Event(h) IN
  /\ at[h].pc = "claim" /\ Free(e)
  /\ IF e \in inbox
     THEN Answer(h) /\ UNCHANGED inbox
     ELSE Goto(h, "source") /\ ClaimInbox(e)
  /\ UNCHANGED <<offered, provisioned, row, named, refunds, erased, faults>>

\* requireTreasury; the transaction stays open across the call to custody.
ResolveSource(h) ==
  /\ at[h].pc = "source"
  /\ Goto(h, IF provisioned THEN "plan" ELSE "refuse")
  /\ UNCHANGED <<offered, provisioned, tables, faults>>

Refund(w) == refunds' = [refunds EXCEPT ![w] = @ + 1]

\* Mutant: the refund commits on its own, and the inbox row does not.
RefuseUnpayable_NotReceived(h) ==
  /\ at[h].pc = "refuse"
  /\ Refund(Subject[Event(h)])
  /\ Answer(h)
  /\ UNCHANGED <<offered, provisioned, inbox, row, named, erased, faults>>

\* No treasury: settlement.outbound.failed, refundable, and no row.
RefuseUnpayable(h) ==
  /\ at[h].pc = "refuse"
  /\ Refund(Subject[Event(h)])
  /\ inbox' = inbox \cup {Event(h)}
  /\ Answer(h)
  /\ UNCHANGED <<offered, provisioned, row, named, erased, faults>>

\* planOutbound: a row unless the key has one.
PlanOutbound(e) ==
  LET new == row[Key[e]] = "absent" IN
  /\ row' = [row EXCEPT ![Key[e]] = IF new THEN "planned" ELSE @]
  /\ named' = [named EXCEPT ![Key[e]] =
       IF ~new \/ Topic[e] # "withdrawal" THEN @
       ELSE IF UserOf[Subject[e]] \in erased THEN "late" ELSE "yes"]
  /\ inbox' = inbox \cup {e}

PlanWithdrawal(h) ==
  /\ at[h].pc = "plan"
  /\ PlanOutbound(Event(h))
  /\ Answer(h)
  /\ UNCHANGED <<offered, provisioned, refunds, erased, faults>>

(***************************************************************************)
(* handleDeployFundingRequested: what is read is read before the           *)
(* transaction, and a refusal leaves no trace.                             *)
(***************************************************************************)
\* Mutant: what was not broadcast yet does not count.
TopUpsFor_Sent(t) == {k \in Keys : About(k) = t /\ row[k] \in {"signed", "confirmed"}}
TopUpsFor(t) == {k \in Keys : About(k) = t /\ row[k] \notin {"absent", "failed"}}

CountTopUps(h) ==
  /\ at[h].pc = "count"
  /\ IF Cardinality(TopUpsFor(Subject[Event(h)])) < TopUpMaxPerToken
     THEN Goto(h, "fee") ELSE Answer(h)
  /\ UNCHANGED <<offered, provisioned, tables, faults>>

\* requireTreasury and estimateFee.
EstimateFee(h) ==
  /\ at[h].pc = "fee"
  /\ IF provisioned THEN Goto(h, "topup") ELSE Answer(h)
  /\ UNCHANGED <<offered, provisioned, tables, faults>>

PlanTopUp(h) ==
  /\ at[h].pc = "topup"
  /\ IF Event(h) \in inbox THEN UNCHANGED <<inbox, row, named>> ELSE PlanOutbound(Event(h))
  /\ Answer(h)
  /\ UNCHANGED <<offered, provisioned, refunds, erased, faults>>

(***************************************************************************)
(* eraseUser: in flight or not, a row loses its user and keeps the rest.   *)
(***************************************************************************)
RowsOf(u) == {k \in Keys : About(k) \in Withdrawals /\ UserOf[About(k)] = u}

\* Mutant: what is in flight is left for a later pass.
Erasable_Settled(u) == {k \in RowsOf(u) : row[k] \in {"confirmed", "failed"}}
Erasable(u) == RowsOf(u)

EraseUser(h) ==
  LET u == Subject[Event(h)] IN
  /\ at[h].pc = "erase"
  /\ IF Event(h) \in inbox
     THEN UNCHANGED <<inbox, named, erased>>
     ELSE /\ inbox' = inbox \cup {Event(h)}
          /\ named' = [k \in Keys |-> IF k \in Erasable(u) THEN "no" ELSE named[k]]
          /\ erased' = erased \cup {u}
  /\ Answer(h)
  /\ UNCHANGED <<offered, provisioned, row, refunds, faults>>

(***************************************************************************)
(* A request dies or a call of it fails, and its transaction rolls back;   *)
(* an operator provisions; the driver settles a row (Outbound).            *)
(***************************************************************************)
Fail(h) ==
  /\ at[h].pc # "idle" /\ faults < MaxFaults
  /\ faults' = faults + 1
  /\ Answer(h)
  /\ UNCHANGED <<offered, provisioned, tables>>

Provision ==
  /\ ~provisioned /\ provisioned' = TRUE
  /\ UNCHANGED <<offered, tables, at, faults>>

Drive(k) ==
  /\ \/ row[k] = "planned" /\ row' \in {[row EXCEPT ![k] = s] : s \in {"signed", "failed"}}
     \/ row[k] = "signed" /\ row' \in {[row EXCEPT ![k] = s] : s \in {"confirmed", "failed"}}
  /\ UNCHANGED <<offered, provisioned, inbox, named, refunds, erased, at, faults>>

Init ==
  /\ offered \in Offers /\ provisioned \in BOOLEAN
  /\ inbox = {} /\ row = [k \in Keys |-> "absent"] /\ named = [k \in Keys |-> "no"]
  /\ refunds = [w \in Withdrawals |-> 0] /\ erased = {}
  /\ at = [h \in Requests |-> Idle] /\ faults = 0

Handle(h) ==
  \/ Claim(h) \/ ResolveSource(h) \/ RefuseUnpayable(h) \/ PlanWithdrawal(h)
  \/ CountTopUps(h) \/ EstimateFee(h) \/ PlanTopUp(h) \/ EraseUser(h)

Next ==
  \/ \E h \in Requests : Handle(h) \/ Fail(h) \/ \E e \in Events : Receive(h, e)
  \/ Provision
  \/ \E k \in Keys : Drive(k)

Spec == Init /\ [][Next]_vars

\* The wallet's relay delivers what was not accepted again and again, a request
\* that is handled goes on, and the driver settles what is planned.
Fairness ==
  /\ \A e \in Events : Topic[e] = "withdrawal" =>
       SF_vars(\E h \in Requests : e \notin inbox /\ Receive(h, e))
  /\ \A h \in Requests : SF_vars(Handle(h))
  /\ \A k \in Keys : WF_vars(Drive(k))

FairSpec == Spec /\ Fairness

(***************************************************************************)
(* Properties.                                                             *)
(***************************************************************************)
EventsOf(w) == {e \in Events : Topic[e] = "withdrawal" /\ Subject[e] = w}
RowOf(w)    == row[Key[CHOOSE e \in EventsOf(w) : TRUE]]

TypeOK ==
  /\ offered \in Offers /\ provisioned \in BOOLEAN /\ inbox \subseteq Events
  /\ row \in [Keys -> {"absent", "planned", "signed", "confirmed", "failed"}]
  /\ named \in [Keys -> {"no", "yes", "late"}] /\ refunds \in [Withdrawals -> Nat] /\ erased \subseteq Users
  /\ faults \in 0..MaxFaults
  /\ \A h \in Requests :
       \/ at[h] = Idle
       \/ /\ Event(h) \in Events
          /\ at[h].pc \in CASE Topic[Event(h)] = "withdrawal" -> {"claim", "source", "refuse", "plan"}
                            [] Topic[Event(h)] = "deploy" -> {"count", "fee", "topup"}
                            [] OTHER -> {"erase"}

\* A withdrawal is answered, by a payment or a refund, no more often than the
\* wallet asked for it: "a redelivery is a duplicate and cannot refund twice".
OneAnswerPerEvent ==
  \A w \in Withdrawals :
    refunds[w] + (IF RowOf(w) = "absent" THEN 0 ELSE 1)
      <= Cardinality(inbox \cap EventsOf(w))

\* The top-ups of a token never exceed its allowance by more than the requests
\* that counted at once: the count is not in the transaction that plans.
AllowanceIsBounded ==
  \A t \in Tokens :
    Cardinality({k \in Keys : About(k) = t /\ row[k] \in {"planned", "signed", "confirmed"}})
      <= TopUpMaxPerToken + Cardinality(Requests) - 1

\* No row names a user who was erased, in flight or not, save one that a late
\* event planned after the erasure: that is erased by nobody.
ErasedIsForgotten ==
  \A w \in Withdrawals : UserOf[w] \in erased => \A k \in RowsOf(UserOf[w]) : named[k] # "yes"

\* Whatever dies while it is handled, a withdrawal the wallet asks for is paid or
\* given back in the end ("losing one would mean a user whose balance is reserved
\* and whose payment is never built").
EveryRequestIsAnswered ==
  \A w \in Withdrawals : EventsOf(w) \cap offered # {} =>
    <>(RowOf(w) \in {"confirmed", "failed"} \/ refunds[w] > 0)
=============================================================================
