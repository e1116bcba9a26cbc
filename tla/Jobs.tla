-------------------------------- MODULE Jobs --------------------------------
(***************************************************************************)
(* The schedule of the recurring jobs, jobs.ts and the wiring of index.ts: *)
(* a row per job that boot seeds, a replica claims under a lease, and the  *)
(* completion of a pass deletes and re-arms.  Replicas die and come back,  *)
(* leases run out under a pass that still runs, the enqueue that re-arms a *)
(* job may fail, and it is only logged.                                    *)
(*                                                                         *)
(* What a pass does is the module that extends this one; it says when a    *)
(* pass ends and conjoins its own steps.  The queue and its runner are     *)
(* @cloudsforge/jobs, as jobs.ts and index.ts use them.  When a row is due *)
(* is left out: a row that is there is claimed at some time.               *)
(***************************************************************************)
EXTENDS Integers, FiniteSets

CONSTANTS
  Kinds,        \* the recurring jobs modelled
  Sets,         \* which of them may be there together
  Replicas,
  MaxAttempts,  \* passes that may throw before the row is dead
  MaxMishaps    \* bound: deaths, leases that run out under a pass, calls that
                \* fail, and whatever else a module counts among them

ASSUME JobsAssumption ==
  /\ Sets \subseteq SUBSET Kinds /\ Replicas # {}
  /\ Replicas \cap {"absent", "ready", "dead"} = {} /\ MaxAttempts \in Nat \ {0}
  /\ MaxMishaps \in Nat

VARIABLES
  set,       \* the jobs that exist here; the run looks at one and at another
  job,       \* per kind: absent, ready, dead, or the replica that has the lease
  attempts,  \* per kind: passes of this row that threw
  seeding,   \* per replica: what its boot has still to enqueue
  up,        \* the replicas that run
  running,   \* per replica: the kinds it is in a pass of
  rearming,  \* completions whose enqueue has not landed
  lost,      \* whether an enqueue failed
  mishaps

queue == <<set, job, attempts, seeding, up, running, rearming, lost>>
jobs  == <<queue, mishaps>>

Mishap == mishaps < MaxMishaps /\ mishaps' = mishaps + 1

Holds(r, k) == job[k] = r

(***************************************************************************)
(* Boot.                                                                   *)
(***************************************************************************)
Boot(r) ==
  /\ r \notin up
  /\ up' = up \cup {r} /\ seeding' = [seeding EXCEPT ![r] = set]
  /\ UNCHANGED <<set, job, attempts, running, rearming, lost, mishaps>>

\* One enqueue of seedRecurring: 'keep' leaves a row that is there as it is, a
\* dead one too.
SeedRecurring(r, k) ==
  /\ r \in up /\ k \in seeding[r]
  /\ seeding' = [seeding EXCEPT ![r] = @ \ {k}]
  /\ job' = [job EXCEPT ![k] = IF @ = "absent" THEN "ready" ELSE @]
  /\ UNCHANGED <<set, attempts, up, running, rearming, lost, mishaps>>

\* The runner starts once its set is seeded.
Started(r) == r \in up /\ seeding[r] = {}

(***************************************************************************)
(* One pass, seen from the queue.                                          *)
(***************************************************************************)
Claim(r, k) ==
  /\ Started(r) /\ k \notin running[r]
  /\ job[k] = "ready"
  /\ job' = [job EXCEPT ![k] = r]
  /\ running' = [running EXCEPT ![r] = @ \cup {k}]
  /\ UNCHANGED <<set, attempts, seeding, up, rearming, lost, mishaps>>

\* The lease runs out: of a pass that still runs, or of a replica that died.
Expire(k) ==
  /\ job[k] \in Replicas
  /\ job' = [job EXCEPT ![k] = "ready"]
  /\ IF k \in running[job[k]]
     THEN Mishap
     ELSE UNCHANGED mishaps
  /\ UNCHANGED <<set, attempts, seeding, up, running, rearming, lost>>

Leave(r, k) == running' = [running EXCEPT ![r] = @ \ {k}]

\* Mutant: the handler enqueues its own next pass, and the runner deletes that.
Complete_SelfEnqueue(r, k) ==
  /\ Leave(r, k)
  /\ IF Holds(r, k)
     THEN job' = [job EXCEPT ![k] = "absent"] /\ attempts' = [attempts EXCEPT ![k] = 0]
     ELSE UNCHANGED <<job, attempts>>
  /\ UNCHANGED <<set, rearming, seeding, up, lost, mishaps>>

\* The handler returned: the runner deletes the row and reports it, unless the
\* lease went to somebody else.
Complete(r, k) ==
  /\ Leave(r, k)
  /\ IF Holds(r, k)
     THEN /\ job' = [job EXCEPT ![k] = "absent"]
          /\ attempts' = [attempts EXCEPT ![k] = 0]
          /\ rearming' = rearming \cup {<<r, k>>}
     ELSE UNCHANGED <<job, attempts, rearming>>
  /\ UNCHANGED <<set, seeding, up, lost, mishaps>>

\* The handler threw: another attempt, or a dead row that nothing re-arms.
Throw(r, k) ==
  /\ Mishap
  /\ Leave(r, k)
  /\ IF Holds(r, k)
     THEN /\ attempts' = [attempts EXCEPT ![k] = @ + 1]
          /\ job' = [job EXCEPT ![k] = IF attempts[k] + 1 < MaxAttempts THEN "ready" ELSE "dead"]
     ELSE UNCHANGED <<job, attempts>>
  /\ UNCHANGED <<set, seeding, up, rearming, lost>>

(***************************************************************************)
(* rescheduleRecurring: the enqueue after a completion.                    *)
(***************************************************************************)
Reschedule(r, k) ==
  /\ <<r, k>> \in rearming
  /\ rearming' = rearming \ {<<r, k>>}
  /\ \/ /\ job' = [job EXCEPT ![k] = IF @ = "absent" THEN "ready" ELSE @]
        /\ UNCHANGED <<lost, mishaps>>
     \/ Mishap /\ lost' = TRUE /\ UNCHANGED job
  /\ UNCHANGED <<set, attempts, seeding, up, running>>

Die(r) ==
  /\ r \in up /\ Mishap
  /\ up' = up \ {r}
  /\ seeding' = [seeding EXCEPT ![r] = {}]
  /\ running' = [running EXCEPT ![r] = {}]
  /\ rearming' = {p \in rearming : p[1] # r}
  /\ UNCHANGED <<set, job, attempts, lost>>

JobsInit ==
  /\ set \in Sets /\ job = [k \in Kinds |-> "absent"]
  /\ attempts = [k \in Kinds |-> 0]
  /\ seeding = [r \in Replicas |-> {}] /\ up = {}
  /\ running = [r \in Replicas |-> {}] /\ rearming = {}
  /\ lost = FALSE /\ mishaps = 0

\* What the queue does without a pass.
JobsStep ==
  \/ \E r \in Replicas : Boot(r) \/ (\E k \in Kinds : SeedRecurring(r, k) \/ Reschedule(r, k))
  \/ \E k \in Kinds : Expire(k)

\* Some dead replica is started again and some boot goes on, some completion is
\* acted on, and the lease of a pass that is gone runs out.
JobsFairness ==
  /\ WF_jobs(\E r \in Replicas : Boot(r) \/ \E k \in Kinds : SeedRecurring(r, k))
  /\ WF_jobs(\E r \in Replicas, k \in Kinds : Reschedule(r, k))
  /\ WF_jobs(\E k \in Kinds : Expire(k) /\ job[k] \in Replicas /\ k \notin running[job[k]])

(***************************************************************************)
(* Properties.                                                             *)
(***************************************************************************)
JobsTypeOK ==
  /\ set \in Sets /\ job \in [Kinds -> {"absent", "ready", "dead"} \cup Replicas]
  /\ attempts \in [Kinds -> 0..MaxAttempts]
  /\ seeding \in [Replicas -> SUBSET Kinds] /\ up \subseteq Replicas
  /\ running \in [Replicas -> SUBSET Kinds] /\ rearming \subseteq Replicas \X Kinds
  /\ lost \in BOOLEAN /\ mishaps \in 0..MaxMishaps

\* A job whose row is gone is about to be enqueued again, by the boot of a
\* replica or after a completion ("jobs that must exist whether or not anything
\* enqueued them"); what else there is is an enqueue that was lost, or a
\* replica that died and is not back.
ScheduleIsKept ==
  \A k \in set : job[k] = "absent" =>
    \/ \E r \in Replicas : <<r, k>> \in rearming \/ k \in seeding[r]
    \/ up # Replicas \/ lost
=============================================================================
