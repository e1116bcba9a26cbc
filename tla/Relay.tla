-------------------------------- MODULE Relay --------------------------------
(***************************************************************************)
(* The two jobs that work off a backlog of the database, under the         *)
(* schedule of Jobs: the outbox relay (outbox.ts, createRelay), which      *)
(* POSTs every event to the subscriptions of its topic, and the fee        *)
(* journal (fees.ts, bookFee), which books what a confirmed transaction    *)
(* cost.  Every query and POST is a step, two replicas may be in a pass of *)
(* the same job at once, and either may die at any of them.                *)
(*                                                                         *)
(* There is one topic; envelopes, signatures and the client's circuit      *)
(* breaker (a refusal without a call) are left out.  A subscriber dedupes  *)
(* on the event id and the ledger on the idempotency key: both are remote. *)
(***************************************************************************)
EXTENDS Jobs

CONSTANTS
  Events,         \* the events written, as naturals in the order of occurred_at
  Subscriptions,
  BatchSize,      \* events of one pass
  Fees,           \* confirmed transactions with a fee
  MaxPairs        \* bound: events written, times active subscriptions

ASSUME RelayAssumption ==
  /\ Kinds = {"relay", "fee"}
  /\ Events \subseteq Nat /\ IsFiniteSet(Events)
  /\ BatchSize \in Nat \ {0} /\ MaxPairs \in Nat

VARIABLES
  outbox,      \* per event: absent, waiting or published
  active,      \* the active subscriptions
  delivery,    \* the pairs <<event, subscription>> with delivered_at
  heard,       \* the pairs a subscriber has processed
  owed,        \* the pairs whose subscription was active since the event was written
  pass,        \* per replica: where its relay pass is
  entries,     \* per fee: the entries the ledger posted for it
  booked,      \* per fee: ledger_entry_id, 0 for null
  journal      \* per replica: where its fee pass is

relay == <<outbox, active, delivery, heard, owed, pass>>
fees  == <<entries, booked, journal>>
vars  == <<jobs, relay, fees>>

Idle == [pc |-> "idle", batch |-> {}, event |-> 0, subs |-> {}, sub |-> "none"]
Rest == [pc |-> "idle", todo |-> {}, fee |-> "none", entry |-> 0]

Event(r) == pass[r].event

Go(r, p) == pass' = [pass EXCEPT ![r] = p]

(***************************************************************************)
(* The outside: events are written with the change they report, and        *)
(* subscriptions come and go, one of the mishaps (looked at where the      *)
(* relay is).                                                              *)
(***************************************************************************)
Written == {e \in Events : outbox[e] # "absent"}

Bounded(es, ss) == Cardinality(es) * Cardinality(ss) <= MaxPairs

\* The commit of a withOutbox; events may commit out of the order of occurred_at.
EmitInto(e) ==
  /\ "relay" \in set
  /\ outbox[e] = "absent" /\ Bounded(Written \cup {e}, active)
  /\ outbox' = [outbox EXCEPT ![e] = "waiting"]
  /\ owed' = owed \cup ({e} \X active)
  /\ UNCHANGED <<jobs, active, delivery, heard, pass, fees>>

Subscribe(s) ==
  /\ "relay" \in set
  /\ Mishap
  /\ IF s \in active
     THEN active' = active \ {s} /\ owed' = {p \in owed : p[2] # s}
     ELSE /\ Bounded(Written, active \cup {s})
          /\ active' = active \cup {s} /\ UNCHANGED owed
  /\ UNCHANGED <<queue, outbox, delivery, heard, pass, fees>>

(***************************************************************************)
(* createRelay.                                                            *)
(***************************************************************************)
Waiting == {e \in Events : outbox[e] = "waiting"}

\* order by occurred_at, limit BatchSize.
Batch == {e \in Waiting : Cardinality({f \in Waiting : f < e}) < BatchSize}

StartRelay(r) ==
  /\ Claim(r, "relay")
  /\ Go(r, [Idle EXCEPT !.pc = "next", !.batch = Batch])
  /\ UNCHANGED <<outbox, active, delivery, heard, owed, fees>>

ReadSubscriptions(r) ==
  /\ pass[r].pc = "next"
  /\ \E e \in pass[r].batch :
       /\ \A f \in pass[r].batch : e <= f
       /\ Go(r, [pass[r] EXCEPT !.pc = "deliver", !.batch = @ \ {e}, !.event = e, !.subs = active])
  /\ UNCHANGED <<jobs, outbox, active, delivery, heard, owed, fees>>

\* The loop is over, or the signal is aborted since the lease is another's.
EndRelay(r) ==
  /\ pass[r].pc = "next"
  /\ pass[r].batch = {} \/ ~Holds(r, "relay")
  /\ Complete(r, "relay")
  /\ Go(r, Idle)
  /\ UNCHANGED <<outbox, active, delivery, heard, owed, fees>>

\* The claim of a delivery; one that was delivered is passed over.
Deliver(r) ==
  /\ pass[r].pc = "deliver"
  /\ \E s \in pass[r].subs :
       IF <<Event(r), s>> \in delivery
       THEN Go(r, [pass[r] EXCEPT !.subs = @ \ {s}])
       ELSE Go(r, [pass[r] EXCEPT !.pc = "post", !.sub = s])
  /\ UNCHANGED <<jobs, outbox, active, delivery, heard, owed, fees>>

Skip(r) == [pass[r] EXCEPT !.pc = "deliver", !.subs = @ \ {pass[r].sub}, !.sub = "none"]

\* Mutant: a refused POST is recorded as delivered.
Post_AnyAnswer(r) ==
  LET p == <<Event(r), pass[r].sub>> IN
  /\ pass[r].pc = "post"
  /\ \/ heard' = heard \cup {p} /\ UNCHANGED mishaps
     \/ Mishap /\ UNCHANGED heard
  /\ Go(r, [pass[r] EXCEPT !.pc = "record"])
  /\ UNCHANGED <<queue, outbox, active, delivery, owed, fees>>

\* The POST: accepted, refused, or accepted with the answer lost.
Post(r) ==
  LET p == <<Event(r), pass[r].sub>> IN
  /\ pass[r].pc = "post"
  /\ \/ /\ heard' = heard \cup {p} /\ UNCHANGED mishaps
        /\ Go(r, [pass[r] EXCEPT !.pc = "record"])
     \/ /\ Mishap
        /\ heard' \in {heard, heard \cup {p}}
        /\ Go(r, Skip(r))
  /\ UNCHANGED <<queue, outbox, active, delivery, owed, fees>>

\* delivered_at; an update that fails is caught like a failed POST.
Record(r) ==
  /\ pass[r].pc = "record"
  /\ \/ delivery' = delivery \cup {<<Event(r), pass[r].sub>>} /\ UNCHANGED mishaps
     \/ Mishap /\ UNCHANGED delivery
  /\ Go(r, Skip(r))
  /\ UNCHANGED <<queue, outbox, active, heard, owed, fees>>

\* Mutant: an event is offered once, whoever refused it.
Outstanding_Once(e) == {}
Outstanding(e) == {s \in active : <<e, s>> \notin delivery}

\* The heartbeat, and on to the next event.
Beat(r) == [Idle EXCEPT !.pc = "next", !.batch = pass[r].batch]

\* The count, over the subscriptions of now.
Count(r) ==
  /\ pass[r].pc = "deliver" /\ pass[r].subs = {}
  /\ Go(r, IF Outstanding(Event(r)) = {} THEN [pass[r] EXCEPT !.pc = "publish"] ELSE Beat(r))
  /\ UNCHANGED <<jobs, outbox, active, delivery, heard, owed, fees>>

Publish(r) ==
  /\ pass[r].pc = "publish"
  /\ outbox' = [outbox EXCEPT ![Event(r)] = "published"]
  /\ Go(r, Beat(r))
  /\ UNCHANGED <<jobs, active, delivery, heard, owed, fees>>

RelayPass(r) ==
  \/ ReadSubscriptions(r) \/ EndRelay(r) \/ Deliver(r) \/ Post(r) \/ Record(r)
  \/ Count(r) \/ Publish(r)

(***************************************************************************)
(* The fee journal.                                                        *)
(***************************************************************************)
Unbooked == {f \in Fees : booked[f] = 0}

StartFees(r) ==
  /\ Claim(r, "fee")
  /\ journal' = [journal EXCEPT ![r] = [Rest EXCEPT !.pc = "next", !.todo = Unbooked]]
  /\ UNCHANGED <<relay, entries, booked>>

EndFees(r) ==
  /\ journal[r].pc = "next"
  /\ journal[r].todo = {} \/ ~Holds(r, "fee")
  /\ Complete(r, "fee")
  /\ journal' = [journal EXCEPT ![r] = Rest]
  /\ UNCHANGED <<relay, entries, booked>>

\* Mutant: the idempotency key names the pass and not the row.
PostEntry_PerPass(f) == {Cardinality(entries[f]) + 1}

\* The key is the row's: the ledger posts once and answers with the entry it has.
PostEntry(f) == IF entries[f] = {} THEN {1} ELSE entries[f]

Drop(r, f) == [journal EXCEPT ![r] = [Rest EXCEPT !.pc = "next", !.todo = journal[r].todo \ {f}]]

\* bookFee until the ledger has answered; a failure is logged, the row is left.
PostFee(r) ==
  /\ journal[r].pc = "next"
  /\ \E f \in journal[r].todo, posted \in BOOLEAN :
       /\ entries' = IF posted THEN [entries EXCEPT ![f] = @ \cup PostEntry(f)] ELSE entries
       /\ \/ /\ posted /\ UNCHANGED mishaps
             /\ \E n \in PostEntry(f) :
                  journal' = [journal EXCEPT ![r].pc = "update", ![r].fee = f, ![r].entry = n]
          \/ Mishap /\ journal' = Drop(r, f)
  /\ UNCHANGED <<queue, relay, booked>>

\* The update, where ledger_entry_id is null.
RecordEntry(r) ==
  /\ journal[r].pc = "update"
  /\ LET f == journal[r].fee IN
     /\ booked' = [booked EXCEPT ![f] = IF @ = 0 THEN journal[r].entry ELSE @]
     /\ journal' = Drop(r, f)
  /\ UNCHANGED <<jobs, relay, entries>>

FeePass(r) == EndFees(r) \/ PostFee(r) \/ RecordEntry(r)

(***************************************************************************)
(* What interrupts a pass, and the specification.                          *)
(***************************************************************************)
\* A query of the relay throws, or its heartbeat; the delivery's own are caught.
FailRelay(r) ==
  /\ pass[r].pc \in {"next", "deliver", "publish"}
  /\ Throw(r, "relay")
  /\ Go(r, Idle)
  /\ UNCHANGED <<outbox, active, delivery, heard, owed, fees>>

Crash(r) ==
  /\ Die(r)
  /\ Go(r, Idle)
  /\ journal' = [journal EXCEPT ![r] = Rest]
  /\ UNCHANGED <<outbox, active, delivery, heard, owed, entries, booked>>

Init ==
  /\ JobsInit
  /\ outbox = [e \in Events |-> "absent"] /\ active \in SUBSET Subscriptions
  /\ delivery = {} /\ heard = {} /\ owed = {}
  /\ pass = [r \in Replicas |-> Idle]
  /\ entries = [f \in Fees |-> {}] /\ booked = [f \in Fees |-> 0]
  /\ journal = [r \in Replicas |-> Rest]

Next ==
  \/ JobsStep /\ UNCHANGED <<relay, fees>>
  \/ \E e \in Events : EmitInto(e)
  \/ \E s \in Subscriptions : Subscribe(s)
  \/ \E r \in Replicas :
       StartRelay(r) \/ RelayPass(r) \/ StartFees(r) \/ FeePass(r) \/ FailRelay(r) \/ Crash(r)

Spec == Init /\ [][Next]_vars

\* What is ready is claimed by some replica, and of the passes that are under way
\* some one goes on: nothing is asked of a replica that another overtakes.
Fairness ==
  /\ JobsFairness
  /\ WF_vars(\E r \in Replicas : StartRelay(r)) /\ WF_vars(\E r \in Replicas : RelayPass(r))

FairSpec == Spec /\ Fairness

(***************************************************************************)
(* Properties.                                                             *)
(***************************************************************************)
TypeOK ==
  /\ JobsTypeOK
  /\ outbox \in [Events -> {"absent", "waiting", "published"}]
  /\ active \subseteq Subscriptions
  /\ delivery \subseteq Events \X Subscriptions /\ heard \subseteq Events \X Subscriptions
  /\ owed \subseteq Events \X Subscriptions
  /\ booked \in [Fees -> Nat]
  /\ \A r \in Replicas :
       /\ pass[r].pc # "idle" <=> "relay" \in running[r]
       /\ journal[r].pc # "idle" <=> "fee" \in running[r]

\* An event that is published was processed by every subscriber that was active
\* since it was written, whatever passes overlapped, died or lost an answer.
PublishedIsHeard ==
  \A p \in owed : outbox[p[1]] = "published" => p \in heard

\* The network fee of a transaction is one entry of the ledger, and the one its
\* row names, through lost answers, retries and two passes at once.
FeeIsBookedOnce ==
  \A f \in Fees : Cardinality(entries[f]) <= 1 /\ booked[f] \in {0} \cup entries[f]

\* As long as the row of the relay keeps coming back, there is always a time at
\* which no active subscriber misses an event that was written while it was.
KeepsComing(k) == []<>(job[k] \notin {"absent", "dead"})

EveryEventIsHeard == KeepsComing("relay") => []<>(owed \subseteq heard)
=============================================================================
