---------------------------- MODULE RelayProofs ----------------------------
(***************************************************************************)
(* Theorems about the relay, the fee journal and the schedule under both,  *)
(* for every set of replicas, events, subscriptions and fees.              *)
(***************************************************************************)
EXTENDS Relay, FiniteSetTheorems, TLAPS

(***************************************************************************)
(* The schedule: a step of a job is one of these steps of the queue.       *)
(***************************************************************************)
QueueStep ==
  \/ \E r \in Replicas :
       \/ Boot(r) \/ Die(r)
       \/ \E k \in Kinds :
            SeedRecurring(r, k) \/ Claim(r, k) \/ Complete(r, k) \/ Throw(r, k) \/ Reschedule(r, k)
  \/ \E k \in Kinds : Expire(k)
  \/ UNCHANGED queue

LEMMA QueueMoves == [Next]_vars => QueueStep
  <1> SUFFICES ASSUME [Next]_vars PROVE QueueStep
    OBVIOUS
  <1>k. "relay" \in Kinds /\ "fee" \in Kinds
    BY RelayAssumption
  <1>1. CASE JobsStep
    BY <1>1 DEF JobsStep, QueueStep
  <1>2. CASE \E e \in Events : EmitInto(e)
    BY <1>2 DEF EmitInto, QueueStep, jobs
  <1>3. CASE \E s \in Subscriptions : Subscribe(s)
    BY <1>3 DEF Subscribe, QueueStep
  <1>4. ASSUME NEW r \in Replicas, StartRelay(r) \/ StartFees(r) \/ EndRelay(r) \/ EndFees(r)
        PROVE  QueueStep
    BY <1>4, <1>k DEF StartRelay, StartFees, EndRelay, EndFees, QueueStep
  <1>5. ASSUME NEW r \in Replicas, FailRelay(r) \/ Crash(r) PROVE QueueStep
    BY <1>5, <1>k DEF FailRelay, Crash, QueueStep
  <1>6. ASSUME NEW r \in Replicas,
               \/ ReadSubscriptions(r) \/ Deliver(r) \/ Post(r) \/ Record(r) \/ Count(r) \/ Publish(r)
               \/ PostFee(r) \/ RecordEntry(r)
        PROVE  UNCHANGED queue
    BY <1>6 DEF ReadSubscriptions, Deliver, Post, Record, Count, Publish, PostFee, RecordEntry, jobs
  <1>7. CASE UNCHANGED vars
    BY <1>7 DEF vars, jobs, QueueStep
  <1> QED
    BY <1>1, <1>2, <1>3, <1>4, <1>5, <1>6, <1>7 DEF Next, RelayPass, FeePass, QueueStep

\* What the schedule needs of the types.
QueueType ==
  /\ set \in SUBSET Kinds /\ up \in SUBSET Replicas
  /\ job \in [Kinds -> {"absent", "ready", "dead"} \cup Replicas]
  /\ seeding \in [Replicas -> SUBSET Kinds]

LEMMA QueueTypeStep == ASSUME QueueType, QueueStep PROVE QueueType'
  <1> USE DEF QueueType
  <1>1. ASSUME NEW r \in Replicas, Boot(r) \/ Die(r) PROVE QueueType'
    BY <1>1 DEF Boot, Die
  <1>2. ASSUME NEW r \in Replicas, NEW k \in Kinds, SeedRecurring(r, k) \/ Claim(r, k)
        PROVE  QueueType'
    BY <1>2 DEF SeedRecurring, Claim
  <1>3. ASSUME NEW r \in Replicas, NEW k \in Kinds, Complete(r, k) \/ Throw(r, k) \/ Reschedule(r, k)
        PROVE  QueueType'
    BY <1>3 DEF Complete, Throw, Reschedule
  <1>4. ASSUME NEW k \in Kinds, Expire(k) PROVE QueueType'
    BY <1>4 DEF Expire
  <1>5. CASE UNCHANGED queue
    BY <1>5 DEF queue
  <1> QED
    BY <1>1, <1>2, <1>3, <1>4, <1>5 DEF QueueStep

\* A row that goes missing has somebody who brings it back.
LEMMA ScheduleStep ==
  ASSUME QueueType, QueueStep, ScheduleIsKept
  PROVE  ScheduleIsKept'
  <1> SUFFICES ASSUME NEW k \in Kinds, k \in set, job'[k] = "absent", up' = Replicas, ~lost'
               PROVE  \E r \in Replicas : <<r, k>> \in rearming' \/ k \in seeding'[r]
    <2>1. set' = set
      BY DEF QueueStep, Boot, Die, SeedRecurring, Claim, Complete, Throw, Reschedule, Expire, queue
    <2> QED
      BY <2>1 DEF ScheduleIsKept, QueueType
  <1> USE DEF QueueType, ScheduleIsKept
  <1>1. ASSUME NEW r \in Replicas, Boot(r)
        PROVE  k \in seeding'[r]
    BY <1>1 DEF Boot
  <1>2. ASSUME NEW r \in Replicas PROVE ~Die(r)
    BY DEF Die
  <1>3. ASSUME NEW r \in Replicas, NEW j \in Kinds, SeedRecurring(r, j)
        PROVE  \E q \in Replicas : <<q, k>> \in rearming' \/ k \in seeding'[q]
    <2>1. j # k
      BY <1>3 DEF SeedRecurring
    <2> QED
      BY <1>3, <2>1 DEF SeedRecurring
  <1>4. ASSUME NEW r \in Replicas, NEW j \in Kinds, Claim(r, j) \/ Throw(r, j)
        PROVE  \E q \in Replicas : <<q, k>> \in rearming' \/ k \in seeding'[q]
    BY <1>4, JobsAssumption DEF Claim, Throw
  <1>5. ASSUME NEW r \in Replicas, NEW j \in Kinds, Complete(r, j)
        PROVE  \E q \in Replicas : <<q, k>> \in rearming' \/ k \in seeding'[q]
    <2>1. CASE j = k /\ Holds(r, j)
      BY <1>5, <2>1 DEF Complete
    <2>2. CASE ~(j = k /\ Holds(r, j))
      <3>1. job'[k] = job[k] /\ rearming \subseteq rearming'
        BY <1>5, <2>2 DEF Complete
      <3>2. UNCHANGED <<set, seeding, up, lost>>
        BY <1>5 DEF Complete
      <3> QED
        BY <3>1, <3>2
    <2> QED
      BY <2>1, <2>2
  <1>6. ASSUME NEW r \in Replicas, NEW j \in Kinds, Reschedule(r, j)
        PROVE  \E q \in Replicas : <<q, k>> \in rearming' \/ k \in seeding'[q]
    <2>1. j # k /\ job'[k] = job[k]
      BY <1>6 DEF Reschedule
    <2>2. \A q \in Replicas : <<q, k>> \in rearming => <<q, k>> \in rearming'
      BY <1>6, <2>1 DEF Reschedule
    <2>3. UNCHANGED <<set, seeding, up>> /\ (lost => lost')
      BY <1>6 DEF Reschedule
    <2> QED
      BY <2>1, <2>2, <2>3
  <1>7. ASSUME NEW j \in Kinds, Expire(j)
        PROVE  \E q \in Replicas : <<q, k>> \in rearming' \/ k \in seeding'[q]
    BY <1>7 DEF Expire
  <1>8. CASE UNCHANGED queue
    BY <1>8 DEF queue
  <1> QED
    BY <1>1, <1>2, <1>3, <1>4, <1>5, <1>6, <1>7, <1>8 DEF QueueStep

\* A job whose row is gone is about to be enqueued again, by a boot or after a
\* completion, unless an enqueue was lost or a replica is down.
THEOREM ScheduleIsKeptHolds == Spec => []ScheduleIsKept
  <1>1. Init => QueueType /\ ScheduleIsKept
    BY JobsAssumption DEF Init, JobsInit, QueueType, ScheduleIsKept
  <1>2. QueueType /\ ScheduleIsKept /\ [Next]_vars => (QueueType /\ ScheduleIsKept)'
    BY QueueMoves, QueueTypeStep, ScheduleStep
  <1> QED
    BY <1>1, <1>2, PTL DEF Spec

(***************************************************************************)
(* The relay.                                                              *)
(***************************************************************************)
Passes ==
  [pc    : {"idle", "next", "deliver", "post", "record", "publish"},
   batch : SUBSET Events, event : Events \cup {0},
   subs  : SUBSET Subscriptions, sub : Subscriptions \cup {"none"}]

RelayType ==
  /\ outbox \in [Events -> {"absent", "waiting", "published"}]
  /\ active \in SUBSET Subscriptions
  /\ delivery \subseteq Events \X Subscriptions
  /\ heard \subseteq Events \X Subscriptions
  /\ owed \subseteq Events \X Subscriptions
  /\ pass \in [Replicas -> Passes]

\* What a pass has in its hands: events that were written, an answer that was
\* given, an event that nobody who is owed it misses.
PassOK(p) ==
  /\ \A e \in p.batch : outbox[e] # "absent"
  /\ p.pc \in {"deliver", "post", "record", "publish"} => p.event \in Events /\ outbox[p.event] # "absent"
  /\ p.pc \in {"post", "record"} => p.sub \in Subscriptions
  /\ p.pc = "record" => <<p.event, p.sub>> \in heard
  /\ p.pc = "publish" => \A w \in owed : w[1] = p.event => w \in heard

\* Only what was heard is recorded, and only an active subscription is owed an
\* event that was written.
TableInv ==
  /\ delivery \subseteq heard
  /\ \A p \in owed : p[2] \in active /\ outbox[p[1]] # "absent"
  /\ PublishedIsHeard

RelayInv == RelayType /\ TableInv /\ \A r \in Replicas : PassOK(pass[r])

\* What a pass knows stays true while answers are added and events leave no table.
LEMMA Onward ==
  ASSUME RelayInv, UNCHANGED <<outbox, active, owed>>,
         heard \subseteq heard', heard' \subseteq Events \X Subscriptions,
         delivery' \subseteq heard', NEW r \in Replicas, NEW p \in Passes, Go(r, p), PassOK(p)'
  PROVE  RelayInv'
  <1>1. pass' \in [Replicas -> Passes] /\ pass'[r] = p
        /\ \A q \in Replicas \ {r} : pass'[q] = pass[q]
    BY DEF RelayInv, RelayType, Go
  <1>2. RelayType'
    BY <1>1 DEF RelayInv, RelayType
  <1>3. TableInv'
    BY DEF RelayInv, TableInv, PublishedIsHeard
  <1>4. \A q \in Replicas \ {r} : PassOK(pass[q])'
    BY <1>1 DEF RelayInv, PassOK
  <1> QED
    BY <1>1, <1>2, <1>3, <1>4 DEF RelayInv

\* One step of one pass that touches no table.
LEMMA Going ==
  ASSUME RelayInv, UNCHANGED <<outbox, active, delivery, heard, owed>>,
         NEW r \in Replicas, NEW p \in Passes, Go(r, p), PassOK(p)
  PROVE  RelayInv'
  <1>1. PassOK(p)'
    BY DEF PassOK
  <1> QED
    BY <1>1, Onward DEF RelayInv, RelayType, TableInv

LEMMA IdlePass ==
  /\ Idle \in Passes /\ Idle.pc = "idle" /\ Idle.batch = {}
  BY DEF Idle, Passes

\* The records a pass moves on with.
LEMMA MovedPass ==
  ASSUME NEW b \in Passes
  PROVE  /\ \A c \in {"idle", "next", "deliver", "post", "record", "publish"} :
              LET q == [b EXCEPT !.pc = c] IN
              /\ q \in Passes /\ q.pc = c /\ q.batch = b.batch /\ q.event = b.event
              /\ q.subs = b.subs /\ q.sub = b.sub
         /\ \A S \in SUBSET Events :
              LET q == [b EXCEPT !.batch = S] IN
              /\ q \in Passes /\ q.pc = b.pc /\ q.batch = S /\ q.event = b.event
              /\ q.subs = b.subs /\ q.sub = b.sub
  BY DEF Passes

LEMMA RelayInit == Init => RelayInv
  <1> SUFFICES ASSUME Init PROVE RelayInv
    OBVIOUS
  <1> USE DEF Init
  <1>1. RelayType
    BY IdlePass DEF RelayType
  <1>2. TableInv
    BY DEF TableInv, PublishedIsHeard
  <1>3. \A r \in Replicas : PassOK(pass[r])
    BY IdlePass DEF PassOK
  <1> QED
    BY <1>1, <1>2, <1>3 DEF RelayInv

\* A step that takes no pass further: an event is written, a subscription comes
\* or goes, the schedule or the journal moves.
LEMMA TablesStep ==
  ASSUME RelayInv,
         (\E e \in Events : EmitInto(e)) \/ (\E s \in Subscriptions : Subscribe(s)) \/ UNCHANGED relay
  PROVE  RelayInv'
  <1> USE DEF RelayInv, RelayType, TableInv, PassOK, PublishedIsHeard
  <1>1. ASSUME NEW e \in Events, EmitInto(e) PROVE RelayInv'
    <2>1. UNCHANGED <<active, delivery, heard, pass>> /\ outbox[e] = "absent"
      BY <1>1 DEF EmitInto
    <2>2. outbox' = [outbox EXCEPT ![e] = "waiting"] /\ owed' = owed \cup ({e} \X active)
      BY <1>1 DEF EmitInto
    <2>3. RelayType'
      BY <2>1, <2>2
    <2>4. TableInv'
      BY <2>1, <2>2
    <2>5. \A r \in Replicas : PassOK(pass[r])'
      BY <2>1, <2>2 DEF Passes
    <2> QED
      BY <2>3, <2>4, <2>5
  <1>2. ASSUME NEW s \in Subscriptions, Subscribe(s) PROVE RelayInv'
    <2>1. UNCHANGED <<outbox, delivery, heard, pass>>
      BY <1>2 DEF Subscribe
    <2>2. owed' \subseteq owed /\ active' \in SUBSET Subscriptions
      BY <1>2 DEF Subscribe
    <2>3. \A p \in owed' : p[2] \in active'
      BY <1>2, <2>2 DEF Subscribe
    <2> QED
      BY <2>1, <2>2, <2>3
  <1>3. CASE UNCHANGED relay
    BY <1>3 DEF relay
  <1> QED
    BY <1>1, <1>2, <1>3

\* A pass that starts, and one that ends or dies.
LEMMA EdgeStep ==
  ASSUME RelayInv, NEW r \in Replicas,
         StartRelay(r) \/ EndRelay(r) \/ FailRelay(r) \/ Crash(r)
  PROVE  RelayInv'
  <1>1. CASE StartRelay(r)
    <2> DEFINE p == [Idle EXCEPT !.pc = "next", !.batch = Batch]
    <2>1. Batch \in SUBSET Events /\ \A e \in Batch : outbox[e] # "absent"
      BY DEF Batch, Waiting
    <2>2. p \in Passes /\ p.pc = "next" /\ p.batch = Batch
      BY <2>1 DEF Idle, Passes
    <2>3. Go(r, p) /\ UNCHANGED <<outbox, active, delivery, heard, owed>>
      BY <1>1 DEF StartRelay
    <2> HIDE DEF p
    <2>4. PassOK(p)
      BY <2>1, <2>2 DEF PassOK
    <2> QED
      BY <2>2, <2>3, <2>4, Going
  <1>2. CASE EndRelay(r) \/ FailRelay(r) \/ Crash(r)
    <2>1. Go(r, Idle) /\ UNCHANGED <<outbox, active, delivery, heard, owed>>
      BY <1>2 DEF EndRelay, FailRelay, Crash
    <2>2. PassOK(Idle)
      BY IdlePass DEF PassOK
    <2> QED
      BY <2>1, <2>2, Going, IdlePass
  <1> QED
    BY <1>1, <1>2

\* The loop: the subscriptions of an event are read, and offered one by one.
LEMMA LoopStep ==
  ASSUME RelayInv, NEW r \in Replicas, ReadSubscriptions(r) \/ Deliver(r) \/ Count(r)
  PROVE  RelayInv'
  <1>p. pass[r] \in Passes /\ PassOK(pass[r])
    BY DEF RelayInv, RelayType
  <1>1. CASE ReadSubscriptions(r)
    <2>1. PICK e \in pass[r].batch :
            Go(r, [pass[r] EXCEPT !.pc = "deliver", !.batch = @ \ {e}, !.event = e, !.subs = active])
      BY <1>1 DEF ReadSubscriptions
    <2> DEFINE p == [pass[r] EXCEPT !.pc = "deliver", !.batch = @ \ {e}, !.event = e, !.subs = active]
    <2>2. p \in Passes /\ p.pc = "deliver" /\ p.batch = pass[r].batch \ {e} /\ p.event = e
      BY <1>p DEF Passes, RelayInv, RelayType
    <2>3. Go(r, p) /\ UNCHANGED <<outbox, active, delivery, heard, owed>>
      BY <1>1, <2>1 DEF ReadSubscriptions
    <2> HIDE DEF p
    <2>4. PassOK(p)
      BY <1>p, <2>2 DEF Passes, PassOK
    <2> QED
      BY <2>2, <2>3, <2>4, Going
  <1>2. CASE Deliver(r)
    <2>1. PICK s \in pass[r].subs :
            IF <<Event(r), s>> \in delivery
            THEN Go(r, [pass[r] EXCEPT !.subs = @ \ {s}])
            ELSE Go(r, [pass[r] EXCEPT !.pc = "post", !.sub = s])
      BY <1>2 DEF Deliver
    <2>2. pass[r].pc = "deliver" /\ s \in Subscriptions
      BY <1>2, <1>p DEF Deliver, Passes
    <2>3. UNCHANGED <<outbox, active, delivery, heard, owed>>
      BY <1>2 DEF Deliver
    <2> DEFINE a == [pass[r] EXCEPT !.subs = @ \ {s}]
               b == [pass[r] EXCEPT !.pc = "post", !.sub = s]
    <2>4. a \in Passes /\ a.pc = "deliver" /\ a.batch = pass[r].batch /\ a.event = pass[r].event
      BY <1>p, <2>2 DEF Passes
    <2>5. b \in Passes /\ b.pc = "post" /\ b.batch = pass[r].batch /\ b.event = pass[r].event /\ b.sub = s
      BY <1>p, <2>2 DEF Passes
    <2>6. Go(r, a) \/ Go(r, b)
      BY <2>1
    <2> HIDE DEF a, b
    <2>7. PassOK(a) /\ PassOK(b)
      BY <1>p, <2>2, <2>4, <2>5 DEF PassOK
    <2> QED
      BY <2>3, <2>4, <2>5, <2>6, <2>7, Going
  <1>3. CASE Count(r)
    <2> DEFINE a == [pass[r] EXCEPT !.pc = "publish"]
    <2>1. pass[r].pc = "deliver" /\ UNCHANGED <<outbox, active, delivery, heard, owed>>
      BY <1>3 DEF Count
    <2>2. a \in Passes /\ a.pc = "publish" /\ a.batch = pass[r].batch /\ a.event = pass[r].event
      BY <1>p DEF Passes
    <2>3. Beat(r) \in Passes /\ Beat(r).pc = "next" /\ Beat(r).batch = pass[r].batch
      BY <1>p DEF Beat, Idle, Passes
    <2>4. (Outstanding(Event(r)) = {} /\ Go(r, a)) \/ Go(r, Beat(r))
      BY <1>3 DEF Count
    <2> HIDE DEF a
    <2>5. CASE Outstanding(Event(r)) = {} /\ Go(r, a)
      <3>1. \A w \in owed : w[1] = Event(r) => w \in heard
        <4> SUFFICES ASSUME NEW w \in owed, w[1] = Event(r) PROVE w \in heard
          OBVIOUS
        <4>1. w = <<Event(r), w[2]>> /\ w[2] \in active
          BY DEF RelayInv, RelayType, TableInv
        <4>2. <<Event(r), w[2]>> \in delivery
          BY <2>5, <4>1 DEF Outstanding
        <4> QED
          BY <4>1, <4>2 DEF RelayInv, TableInv
      <3>2. PassOK(a)
        BY <1>p, <2>1, <2>2, <3>1 DEF PassOK, Event
      <3> QED
        BY <2>1, <2>2, <2>5, <3>2, Going
    <2>6. CASE Go(r, Beat(r))
      <3>1. PassOK(Beat(r))
        BY <1>p, <2>3 DEF PassOK
      <3> QED
        BY <2>1, <2>3, <2>6, <3>1, Going
    <2> QED
      BY <2>4, <2>5, <2>6
  <1> QED
    BY <1>1, <1>2, <1>3

\* The POST and the record of its answer.
LEMMA PostStep ==
  ASSUME RelayInv, NEW r \in Replicas, Post(r) \/ Record(r)
  PROVE  RelayInv'
  <1> DEFINE w == <<Event(r), pass[r].sub>>
  <1>p. pass[r] \in Passes /\ PassOK(pass[r])
    BY DEF RelayInv, RelayType
  <1>1. w \in Events \X Subscriptions
    BY <1>p DEF Post, Record, PassOK, Event
  <1>a. Skip(r) \in Passes /\ Skip(r).pc = "deliver"
        /\ Skip(r).batch = pass[r].batch /\ Skip(r).event = pass[r].event
    BY <1>p DEF Skip, Passes
  <1>2. PICK skip \in Passes : skip = Skip(r) /\ skip.pc = "deliver"
          /\ skip.batch = pass[r].batch /\ skip.event = pass[r].event
    BY <1>a
  <1> DEFINE answered == [pass[r] EXCEPT !.pc = "record"]
  <1>b. answered \in Passes /\ answered.pc = "record" /\ answered.batch = pass[r].batch
        /\ answered.event = pass[r].event /\ answered.sub = pass[r].sub
    BY <1>p DEF Passes
  <1>3. PICK done \in Passes : done = [pass[r] EXCEPT !.pc = "record"] /\ done.pc = "record"
          /\ done.batch = pass[r].batch /\ done.event = pass[r].event /\ done.sub = pass[r].sub
    BY <1>b
  <1>4. UNCHANGED <<outbox, active, owed>> /\ pass[r].pc \in {"post", "record"}
    BY DEF Post, Record
  <1>5. heard \subseteq Events \X Subscriptions /\ delivery \subseteq heard
    BY DEF RelayInv, RelayType, TableInv
  <1>6. PassOK(skip)'
    BY <1>p, <1>2, <1>4 DEF PassOK
  <1>7. CASE Post(r)
    <2>1. heard' \in {heard, heard \cup {w}} /\ delivery' = delivery
      BY <1>7 DEF Post
    <2>2. heard \subseteq heard' /\ heard' \subseteq Events \X Subscriptions /\ delivery' \subseteq heard'
      BY <1>1, <1>5, <2>1
    <2>3. (w \in heard' /\ Go(r, done)) \/ Go(r, skip)
      BY <1>2, <1>3, <1>7 DEF Post
    <2>4. CASE w \in heard' /\ Go(r, done)
      <3>1. PassOK(done)'
        BY <1>p, <1>3, <1>4, <2>4 DEF PassOK, Event
      <3> QED
        BY <1>4, <2>2, <2>4, <3>1, Onward
    <2>5. CASE Go(r, skip)
      BY <1>4, <1>6, <2>2, <2>5, Onward
    <2> QED
      BY <2>3, <2>4, <2>5
  <1>8. CASE Record(r)
    <2>1. heard' = heard /\ delivery' \subseteq delivery \cup {w} /\ Go(r, skip)
      BY <1>2, <1>8 DEF Record
    <2>2. w \in heard
      BY <1>p, <1>8 DEF Record, PassOK, Event
    <2> QED
      BY <1>4, <1>5, <1>6, <2>1, <2>2, Onward
  <1> QED
    BY <1>7, <1>8

LEMMA PublishStep ==
  ASSUME RelayInv, NEW r \in Replicas, Publish(r)
  PROVE  RelayInv'
  <1>p. pass[r] \in Passes /\ PassOK(pass[r]) /\ RelayType /\ TableInv
    BY DEF RelayInv, RelayType
  <1>1. Beat(r) \in Passes /\ Beat(r).pc = "next" /\ Beat(r).batch = pass[r].batch
    BY <1>p DEF Beat, Idle, Passes
  <1>2. UNCHANGED <<active, delivery, heard, owed>> /\ Go(r, Beat(r))
    BY DEF Publish
  <1>3. outbox' = [outbox EXCEPT ![Event(r)] = "published"] /\ Event(r) \in Events
    BY <1>p DEF Publish, PassOK, Event
  <1>4. pass' \in [Replicas -> Passes] /\ pass'[r] = Beat(r)
        /\ \A q \in Replicas \ {r} : pass'[q] = pass[q]
    BY <1>p, <1>1, <1>2 DEF Go, RelayType
  <1>5. \A e \in Events : outbox[e] # "absent" => outbox'[e] # "absent"
    BY <1>p, <1>3 DEF RelayType
  <1>6. RelayType'
    BY <1>p, <1>2, <1>3, <1>4 DEF RelayType
  <1>7. TableInv'
    <2>1. \A w \in owed : w[1] \in Events
      BY <1>p DEF RelayType
    <2>2. \A w \in owed : w[1] = Event(r) => w \in heard
      BY <1>p DEF PassOK, Publish, Event
    <2>3. \A w \in owed : w[1] # Event(r) => outbox'[w[1]] = outbox[w[1]]
      BY <1>p, <1>3, <2>1 DEF RelayType
    <2> QED
      BY <1>p, <1>2, <1>5, <2>1, <2>2, <2>3 DEF TableInv, PublishedIsHeard
  <1>8. \A q \in Replicas : PassOK(pass[q])'
    <2>1. PassOK(pass[r])'
      BY <1>p, <1>1, <1>4, <1>5 DEF PassOK, Passes
    <2>2. ASSUME NEW q \in Replicas \ {r} PROVE PassOK(pass[q])'
      <3>1. PassOK(pass[q]) /\ pass[q] \in Passes /\ pass'[q] = pass[q]
        BY <1>p, <1>4 DEF RelayInv, RelayType
      <3> QED
        BY <3>1, <1>2, <1>5 DEF PassOK, Passes
    <2> QED
      BY <2>1, <2>2
  <1> QED
    BY <1>6, <1>7, <1>8 DEF RelayInv

LEMMA RelayStep == RelayInv /\ [Next]_vars => RelayInv'
  <1> SUFFICES ASSUME RelayInv, [Next]_vars PROVE RelayInv'
    OBVIOUS
  <1>1. CASE (\E e \in Events : EmitInto(e)) \/ (\E s \in Subscriptions : Subscribe(s))
    BY <1>1, TablesStep
  <1>2. CASE (JobsStep /\ UNCHANGED <<relay, fees>>) \/ UNCHANGED vars
    BY <1>2, TablesStep DEF vars
  <1>3. ASSUME NEW r \in Replicas, RelayPass(r) \/ StartRelay(r) \/ FailRelay(r) \/ Crash(r)
        PROVE  RelayInv'
    BY <1>3, EdgeStep, LoopStep, PostStep, PublishStep DEF RelayPass
  <1>4. ASSUME NEW r \in Replicas, StartFees(r) \/ FeePass(r) PROVE RelayInv'
    <2>1. UNCHANGED relay
      BY <1>4 DEF StartFees, FeePass, EndFees, PostFee, RecordEntry
    <2> QED
      BY <2>1, TablesStep
  <1> QED
    BY <1>1, <1>2, <1>3, <1>4 DEF Next

\* An event that is published was processed by every subscriber that was active
\* since it was written, whatever passes overlapped, died or lost an answer.
THEOREM PublishedIsHeardHolds == Spec => []PublishedIsHeard
  <1>1. RelayInv => PublishedIsHeard
    BY DEF RelayInv, TableInv
  <1> QED
    BY <1>1, RelayInit, RelayStep, PTL DEF Spec

(***************************************************************************)
(* The fee journal.                                                        *)
(***************************************************************************)
Journals ==
  [pc : {"idle", "next", "update"}, todo : SUBSET Fees, fee : Fees \cup {"none"}, entry : {0, 1}]

\* The ledger has at most the one entry of the key, a row names it or nothing,
\* and a pass about to write an entry down has been given it.
JournalInv ==
  /\ entries \in [Fees -> {{}, {1}}]
  /\ booked \in [Fees -> {0, 1}]
  /\ \A f \in Fees : booked[f] = 1 => entries[f] = {1}
  /\ journal \in [Replicas -> Journals]
  /\ \A r \in Replicas :
       journal[r].pc = "update" =>
         journal[r].fee \in Fees /\ journal[r].entry = 1 /\ entries[journal[r].fee] = {1}

LEMMA RestJournal == Rest \in Journals /\ Rest.pc = "idle"
  BY DEF Rest, Journals

LEMMA JournalEdge ==
  ASSUME JournalInv, NEW r \in Replicas, StartFees(r) \/ EndFees(r) \/ Crash(r)
  PROVE  JournalInv'
  <1> DEFINE p == [Rest EXCEPT !.pc = "next", !.todo = Unbooked]
  <1>1. p \in Journals /\ p.pc = "next"
    BY DEF Rest, Journals, Unbooked
  <1>2. journal' = [journal EXCEPT ![r] = p] \/ journal' = [journal EXCEPT ![r] = Rest]
    BY DEF StartFees, EndFees, Crash
  <1>3. UNCHANGED <<entries, booked>>
    BY DEF StartFees, EndFees, Crash
  <1> HIDE DEF p
  <1> QED
    BY <1>1, <1>2, <1>3, RestJournal DEF JournalInv

LEMMA PostFeeStep ==
  ASSUME JournalInv, NEW r \in Replicas, PostFee(r)
  PROVE  JournalInv'
  <1>p. journal[r] \in Journals /\ journal[r].pc = "next"
    BY DEF JournalInv, PostFee
  <1>1. PICK f \in journal[r].todo, posted \in BOOLEAN :
          /\ entries' = IF posted THEN [entries EXCEPT ![f] = @ \cup PostEntry(f)] ELSE entries
          /\ \/ /\ posted /\ UNCHANGED mishaps
                /\ \E n \in PostEntry(f) :
                     journal' = [journal EXCEPT ![r].pc = "update", ![r].fee = f, ![r].entry = n]
             \/ Mishap /\ journal' = Drop(r, f)
    BY DEF PostFee
  <1>2. f \in Fees /\ UNCHANGED booked
    BY <1>p DEF PostFee, Journals
  <1>3. PostEntry(f) = {1} /\ entries[f] \cup {1} = {1}
    BY <1>2 DEF PostEntry, JournalInv
  <1>4. entries' \in [Fees -> {{}, {1}}] /\ (posted => entries'[f] = {1})
    BY <1>1, <1>2, <1>3 DEF JournalInv
  <1>5. \A g \in Fees : entries[g] = {1} => entries'[g] = {1}
    BY <1>1, <1>2, <1>3 DEF JournalInv
  <1>6. PICK next : next = [Rest EXCEPT !.pc = "next", !.todo = journal[r].todo \ {f}]
    OBVIOUS
  <1>7. next \in Journals /\ next.pc = "next"
    BY <1>p, <1>6 DEF Rest, Journals
  <1>8. CASE posted /\ \E n \in PostEntry(f) :
               journal' = [journal EXCEPT ![r].pc = "update", ![r].fee = f, ![r].entry = n]
    <2> DEFINE upd == [pc |-> "update", todo |-> journal[r].todo, fee |-> f, entry |-> 1]
    <2>1. journal' = [journal EXCEPT ![r].pc = "update", ![r].fee = f, ![r].entry = 1]
      BY <1>3, <1>8
    <2>2. journal'[r] = upd
      BY <2>1, <1>p DEF JournalInv, Journals
    <2>3. upd \in Journals /\ upd.pc = "update" /\ upd.fee = f /\ upd.entry = 1
      BY <1>p, <1>2 DEF Journals
    <2>4. DOMAIN journal' = Replicas /\ journal' = [q \in Replicas |-> journal'[q]]
      BY <2>1 DEF JournalInv
    <2>5. \A q \in Replicas \ {r} : journal'[q] = journal[q]
      BY <2>1 DEF JournalInv
    <2> HIDE DEF upd
    <2>6. journal' \in [Replicas -> Journals]
      BY <2>2, <2>3, <2>4, <2>5 DEF JournalInv
    <2> QED
      <3>1. \A q \in Replicas :
              journal'[q].pc = "update" =>
                journal'[q].fee \in Fees /\ journal'[q].entry = 1 /\ entries'[journal'[q].fee] = {1}
        <4> SUFFICES ASSUME NEW q \in Replicas, journal'[q].pc = "update"
                     PROVE  journal'[q].fee \in Fees /\ journal'[q].entry = 1
                            /\ entries'[journal'[q].fee] = {1}
          OBVIOUS
        <4>1. CASE q = r
          BY <1>2, <1>4, <1>8, <2>2, <2>3, <4>1
        <4>2. CASE q # r
          BY <1>5, <2>5, <4>2 DEF JournalInv
        <4> QED
          BY <4>1, <4>2
      <3>2. \A g \in Fees : booked'[g] = 1 => entries'[g] = {1}
        BY <1>2, <1>5 DEF JournalInv
      <3> QED
        BY <1>2, <1>4, <2>6, <3>1, <3>2 DEF JournalInv
  <1>9. CASE journal' = Drop(r, f)
    <2>1. journal' = [journal EXCEPT ![r] = next]
      BY <1>6, <1>9 DEF Drop
    <2> QED
      BY <1>2, <1>4, <1>5, <1>7, <2>1 DEF JournalInv
  <1> QED
    BY <1>1, <1>8, <1>9

LEMMA RecordEntryStep ==
  ASSUME JournalInv, NEW r \in Replicas, RecordEntry(r)
  PROVE  JournalInv'
  <1> DEFINE f == journal[r].fee
             next == [Rest EXCEPT !.pc = "next", !.todo = journal[r].todo \ {f}]
  <1>1. f \in Fees /\ journal[r].entry = 1 /\ entries[f] = {1} /\ journal[r] \in Journals
    BY DEF JournalInv, RecordEntry
  <1>2. next \in Journals /\ next.pc = "next"
    BY <1>1 DEF Rest, Journals
  <1>3. journal' = [journal EXCEPT ![r] = next] /\ UNCHANGED entries
    BY DEF RecordEntry, Drop
  <1>4. booked' = [booked EXCEPT ![f] = IF @ = 0 THEN 1 ELSE @]
    BY <1>1 DEF RecordEntry
  <1> HIDE DEF f, next
  <1> QED
    BY <1>1, <1>2, <1>3, <1>4 DEF JournalInv

LEMMA JournalStep == JournalInv /\ [Next]_vars => JournalInv'
  <1> SUFFICES ASSUME JournalInv, [Next]_vars PROVE JournalInv'
    OBVIOUS
  <1>1. ASSUME NEW r \in Replicas, StartFees(r) \/ FeePass(r) \/ Crash(r) PROVE JournalInv'
    BY <1>1, JournalEdge, PostFeeStep, RecordEntryStep DEF FeePass
  <1>2. CASE UNCHANGED fees
    BY <1>2 DEF fees, JournalInv
  <1>3. ASSUME NEW r \in Replicas, StartRelay(r) \/ RelayPass(r) \/ FailRelay(r)
        PROVE  UNCHANGED fees
    BY <1>3 DEF StartRelay, RelayPass, FailRelay, ReadSubscriptions, EndRelay, Deliver, Post, Record,
                Count, Publish
  <1>4. CASE (\E e \in Events : EmitInto(e)) \/ (\E s \in Subscriptions : Subscribe(s)) \/ UNCHANGED vars
    BY <1>2, <1>4 DEF EmitInto, Subscribe, vars
  <1> QED
    BY <1>1, <1>2, <1>3, <1>4 DEF Next

\* The network fee of a transaction is one entry of the ledger, and the one its
\* row names, through lost answers, retries and two passes at once.
THEOREM FeeIsBookedOnceHolds == Spec => []FeeIsBookedOnce
  <1>1. Init => JournalInv
    BY RestJournal DEF Init, JournalInv
  <1>2. JournalInv => FeeIsBookedOnce
    <2>1. Cardinality({}) <= 1 /\ Cardinality({1}) <= 1
      BY FS_EmptySet, FS_Singleton
    <2> QED
      BY <2>1 DEF JournalInv, FeeIsBookedOnce
  <1> QED
    BY <1>1, <1>2, JournalStep, PTL DEF Spec
=============================================================================
