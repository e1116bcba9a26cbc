---------------------------- MODULE IntakeProofs ----------------------------
(***************************************************************************)
(* Theorems about the event intake, for every set of events, requests,     *)
(* keys and users, and for any number of deliveries and faults.            *)
(***************************************************************************)
EXTENDS Intake, FiniteSetTheorems, TLAPS

Open == {"source", "refuse", "plan"}

Calls ==
  [pc    : {"idle", "claim", "source", "refuse", "plan", "count", "fee", "topup", "erase"},
   event : Events \cup {"none"}]

\* A request is at a place of its event's topic.
Placed(c) ==
  /\ c.pc # "idle" => c.event \in Events
  /\ c.pc \in {"claim"} \cup Open => Topic[c.event] = "withdrawal"
  /\ c.pc \in {"count", "fee", "topup"} => Topic[c.event] = "deploy"
  /\ c.pc = "erase" => Topic[c.event] = "deleted"

Tables ==
  /\ offered \in SUBSET Events /\ inbox \in SUBSET Events /\ IsFiniteSet(inbox)
  /\ row \in [Keys -> {"absent", "planned", "signed", "confirmed", "failed"}]
  /\ named \in [Keys -> {"no", "yes", "late"}]
  /\ refunds \in [Withdrawals -> Nat]
  /\ at \in [Requests -> Calls]
  /\ \A h \in Requests : Placed(at[h])

\* The claim of an event that a transaction holds is its own: the event was not
\* received before, and no other transaction holds it.
Claimed ==
  \A h \in Requests : at[h].pc \in Open =>
    /\ Event(h) \notin inbox
    /\ \A g \in Requests \ {h} : at[g].pc \in Open => Event(g) # Event(h)

Inv == Tables /\ Claimed /\ OneAnswerPerEvent /\ ErasedIsForgotten

(***************************************************************************)
(* Keys.                                                                   *)
(***************************************************************************)
LEMMA KeyFacts ==
  ASSUME NEW e \in Events, Topic[e] # "deleted"
  PROVE  Key[e] \in Keys /\ About(Key[e]) = Subject[e]
  <1>1. Topic[e] \in {"withdrawal", "deploy"}
    BY IntakeAssumption
  <1>2. Subject[e] \in Withdrawals \cup Tokens
    BY <1>1 DEF Withdrawals, Tokens
  <1>3. \E f \in Events : Key[f] = Key[e] /\ Subject[f] = About(Key[e])
    BY <1>2 DEF About
  <1>4. About(Key[e]) = Subject[e]
    BY <1>3, IntakeAssumption
  <1> QED
    BY <1>4 DEF Keys

\* The row of a withdrawal is that of any of its events, and of no other's.
LEMMA RowFacts ==
  ASSUME NEW w \in Withdrawals
  PROVE  /\ Key[CHOOSE e \in EventsOf(w) : TRUE] \in Keys
         /\ \A e \in Events : Topic[e] # "deleted" =>
              (Key[e] = Key[CHOOSE f \in EventsOf(w) : TRUE] <=> e \in EventsOf(w))
  <1> DEFINE c == CHOOSE e \in EventsOf(w) : TRUE
  <1>1. EventsOf(w) # {}
    BY DEF EventsOf, Withdrawals
  <1>2. c \in EventsOf(w)
    BY <1>1
  <1>3. c \in Events /\ Topic[c] = "withdrawal" /\ Subject[c] = w
    BY <1>2 DEF EventsOf
  <1> HIDE DEF c
  <1>4. Key[c] \in Keys
    BY <1>3, KeyFacts
  <1>5. \A e \in Events : Topic[e] # "deleted" => (Key[e] = Key[c] <=> e \in EventsOf(w))
    BY <1>3, IntakeAssumption DEF EventsOf
  <1> QED
    BY <1>4, <1>5 DEF c

LEMMA Counting ==
  ASSUME Tables, NEW e \in Events, NEW w
  PROVE  /\ IsFiniteSet(inbox \cup {e})
         /\ Cardinality(inbox \cap EventsOf(w)) \in Nat
         /\ Cardinality((inbox \cup {e}) \cap EventsOf(w)) \in Nat
         /\ Cardinality((inbox \cup {e}) \cap EventsOf(w)) >= Cardinality(inbox \cap EventsOf(w))
         /\ e \in EventsOf(w) /\ e \notin inbox =>
              Cardinality((inbox \cup {e}) \cap EventsOf(w)) = Cardinality(inbox \cap EventsOf(w)) + 1
  <1> DEFINE A == inbox \cap EventsOf(w)
             B == (inbox \cup {e}) \cap EventsOf(w)
  <1>1. IsFiniteSet(inbox \cup {e})
    BY FS_AddElement DEF Tables
  <1>2. IsFiniteSet(A) /\ IsFiniteSet(B)
    BY <1>1, FS_Subset DEF Tables
  <1>3. A \subseteq B
    OBVIOUS
  <1>4. CASE e \in EventsOf(w) /\ e \notin inbox
    <2>1. B = A \cup {e} /\ e \notin A
      BY <1>4
    <2>2. Cardinality(B) = Cardinality(A) + 1
      BY <1>2, <2>1, FS_AddElement
    <2> QED
      BY <1>1, <1>2, <2>2, FS_CardinalityType
  <1>5. CASE ~(e \in EventsOf(w) /\ e \notin inbox)
    <2>1. B = A
      BY <1>5
    <2>2. Cardinality(A) \in Nat /\ Cardinality(B) = Cardinality(A)
      BY <1>2, <2>1, FS_CardinalityType
    <2> QED
      BY <1>1, <1>5, <2>2
  <1> QED
    BY <1>4, <1>5

(***************************************************************************)
(* The steps.                                                              *)
(***************************************************************************)
LEMMA InvInit == Init => Inv
  <1> SUFFICES ASSUME Init PROVE Inv
    OBVIOUS
  <1> USE DEF Init
  <1>1. Tables
    BY IntakeAssumption, FS_EmptySet DEF Tables, Calls, Idle, Placed, Open
  <1>2. Claimed
    BY DEF Claimed, Open, Idle
  <1>3. OneAnswerPerEvent
    <2>1. ASSUME NEW w \in Withdrawals
          PROVE  refunds[w] + (IF RowOf(w) = "absent" THEN 0 ELSE 1) <= Cardinality(inbox \cap EventsOf(w))
      <3>1. RowOf(w) = "absent" /\ refunds[w] = 0
        BY RowFacts DEF RowOf
      <3>2. inbox \cap EventsOf(w) = {}
        OBVIOUS
      <3> QED
        BY <3>1, <3>2, FS_EmptySet
    <2> QED
      BY <2>1 DEF OneAnswerPerEvent
  <1>4. ErasedIsForgotten
    BY DEF ErasedIsForgotten
  <1> QED
    BY <1>1, <1>2, <1>3, <1>4 DEF Inv

\* The request that takes the step, and the others that stand still.
LEMMA Moving ==
  ASSUME Tables, NEW h \in Requests, NEW c \in Calls, at' = [at EXCEPT ![h] = c]
  PROVE  at' \in [Requests -> Calls] /\ at'[h] = c /\ \A g \in Requests \ {h} : at'[g] = at[g]
  BY DEF Tables

\* What changes a request alone: a place outside a transaction, or a claim that
\* is free, or an answer.
LEMMA QuietStep ==
  ASSUME Inv, UNCHANGED tables, offered' = offered, NEW h \in Requests, NEW c \in Calls,
         at' = [at EXCEPT ![h] = c], Placed(c),
         c.pc \in Open =>
           \/ at[h].pc \in Open /\ c.event = Event(h)
           \/ c.event \notin inbox /\ Free(c.event)
  PROVE  Inv'
  <1>1. at' \in [Requests -> Calls] /\ at'[h] = c /\ \A g \in Requests \ {h} : at'[g] = at[g]
    BY Moving DEF Inv
  <1>2. Tables'
    BY <1>1 DEF Inv, Tables, tables, Placed
  <1>3. Claimed'
    BY <1>1 DEF Inv, Claimed, tables, Event, Free, Open
  <1>4. OneAnswerPerEvent' /\ ErasedIsForgotten'
    BY DEF Inv, OneAnswerPerEvent, ErasedIsForgotten, tables, RowOf
  <1> QED
    BY <1>2, <1>3, <1>4 DEF Inv

LEMMA IdleCall == Idle \in Calls /\ Placed(Idle) /\ Idle.pc \notin Open
  BY DEF Idle, Calls, Placed, Open

\* Goto, as the record a request moves on with.
LEMMA Going ==
  ASSUME Tables, NEW h \in Requests, NEW p \in {"source", "refuse", "plan", "fee", "topup"}, Goto(h, p)
  PROVE  \E c \in Calls : c.pc = p /\ c.event = Event(h) /\ at' = [at EXCEPT ![h] = c]
  <1> DEFINE c == [pc |-> p, event |-> Event(h)]
  <1>1. at[h] \in Calls
    BY DEF Tables
  <1>2. [at[h] EXCEPT !.pc = p] = c
    BY <1>1 DEF Calls, Event
  <1>3. at' = [at EXCEPT ![h] = c]
    BY <1>2 DEF Goto
  <1> QED
    BY <1>1, <1>3 DEF Calls, Event

\* A request that ends, with its event received or not.
LEMMA Ending ==
  ASSUME Inv, NEW h \in Requests, at[h].pc \in Open \cup {"topup", "erase"}, Answer(h),
         inbox' \in {inbox, inbox \cup {Event(h)}}
  PROVE  /\ Event(h) \in Events
         /\ inbox' \in SUBSET Events /\ IsFiniteSet(inbox')
         /\ at' \in [Requests -> Calls] /\ \A g \in Requests : Placed(at[g])'
         /\ Claimed'
  <1>1. Event(h) \in Events /\ Placed(at[h])
    BY DEF Inv, Tables, Placed, Event, Open
  <1>2. at' \in [Requests -> Calls] /\ at'[h] = Idle /\ \A g \in Requests \ {h} : at'[g] = at[g]
    BY Moving, IdleCall DEF Inv, Answer
  <1>3. \A g \in Requests : Placed(at[g])'
    BY <1>2, IdleCall DEF Inv, Tables, Placed
  <1>4. inbox' \in SUBSET Events /\ IsFiniteSet(inbox')
    BY <1>1, FS_AddElement DEF Inv, Tables
  <1>5. \A g \in Requests \ {h} : at[g].pc \in Open => Event(g) # Event(h)
    <2>1. CASE at[h].pc \in Open
      BY <2>1 DEF Inv, Claimed
    <2>2. CASE at[h].pc \in {"topup", "erase"}
      BY <1>1, <2>2 DEF Inv, Tables, Placed, Event, Open
    <2> QED
      BY <2>1, <2>2
  <1>6. Claimed'
    BY <1>2, <1>5, IdleCall DEF Inv, Claimed, Event
  <1> QED
    BY <1>1, <1>2, <1>3, <1>4, <1>6

\* Events that are received can only make the count larger.
LEMMA Received ==
  ASSUME Inv, NEW e \in Events, inbox' \in {inbox, inbox \cup {e}},
         NEW w \in Withdrawals, refunds'[w] = refunds[w],
         RowOf(w)' = "absent" <=> RowOf(w) = "absent"
  PROVE  (refunds[w] + (IF RowOf(w) = "absent" THEN 0 ELSE 1) <= Cardinality(inbox \cap EventsOf(w)))'
  <1>1. refunds[w] + (IF RowOf(w) = "absent" THEN 0 ELSE 1) <= Cardinality(inbox \cap EventsOf(w))
    BY DEF Inv, OneAnswerPerEvent
  <1>2. refunds[w] \in Nat
    BY DEF Inv, Tables
  <1>3. /\ Cardinality(inbox \cap EventsOf(w)) \in Nat
        /\ Cardinality((inbox \cup {e}) \cap EventsOf(w)) \in Nat
        /\ Cardinality((inbox \cup {e}) \cap EventsOf(w)) >= Cardinality(inbox \cap EventsOf(w))
    BY Counting DEF Inv
  <1>4. EventsOf(w)' = EventsOf(w)
    BY DEF EventsOf
  <1>5. Cardinality(inbox' \cap EventsOf(w)) \in Nat
        /\ Cardinality(inbox' \cap EventsOf(w)) >= Cardinality(inbox \cap EventsOf(w))
    BY <1>3
  <1>6. refunds[w] + (IF RowOf(w) = "absent" THEN 0 ELSE 1) <= Cardinality(inbox' \cap EventsOf(w))
    <2> DEFINE here == IF RowOf(w) = "absent" THEN 0 ELSE 1
    <2>1. here \in Nat
      OBVIOUS
    <2> HIDE DEF here
    <2>2. refunds[w] + here <= Cardinality(inbox' \cap EventsOf(w))
      <3>1. refunds[w] + here <= Cardinality(inbox \cap EventsOf(w))
        BY <1>1 DEF here
      <3> QED
        BY <1>2, <1>3, <1>5, <2>1, <3>1
    <2> QED
      BY <2>2 DEF here
  <1> QED
    BY <1>4, <1>6

LEMMA RefuseStep ==
  ASSUME Inv, NEW h \in Requests, RefuseUnpayable(h)
  PROVE  Inv'
  <1> DEFINE e == Event(h)
  <1>1. Placed(at[h]) /\ at[h].pc = "refuse" /\ e \notin inbox
    BY DEF Inv, Tables, Claimed, RefuseUnpayable, Open
  <1>2. e \in Events /\ Topic[e] = "withdrawal"
    BY <1>1 DEF Placed, Event, Open
  <1>3. inbox' = inbox \cup {e} /\ Answer(h) /\ UNCHANGED <<offered, row, named, erased>>
        /\ refunds' = [refunds EXCEPT ![Subject[e]] = @ + 1]
    BY DEF RefuseUnpayable, Refund
  <1>4. Tables' /\ Claimed'
    <2>0. Subject[e] \in Withdrawals /\ refunds \in [Withdrawals -> Nat]
      BY <1>2 DEF Withdrawals, Inv, Tables
    <2>1. refunds' \in [Withdrawals -> Nat]
      BY <1>3, <2>0
    <2>2. inbox' \in SUBSET Events /\ IsFiniteSet(inbox') /\ at' \in [Requests -> Calls]
          /\ (\A g \in Requests : Placed(at[g])') /\ Claimed'
      BY <1>1, <1>3, Ending DEF Open
    <2> QED
      BY <1>3, <2>1, <2>2 DEF Inv, Tables
  <1>5. OneAnswerPerEvent'
    <2> SUFFICES ASSUME NEW w \in Withdrawals
                 PROVE  (refunds[w] + (IF RowOf(w) = "absent" THEN 0 ELSE 1)
                           <= Cardinality(inbox \cap EventsOf(w)))'
      BY DEF OneAnswerPerEvent
    <2>1. RowOf(w)' = RowOf(w)
      BY <1>3 DEF RowOf
    <2>2. CASE w # Subject[e]
      <3>1. refunds'[w] = refunds[w]
        BY <1>3, <2>2 DEF Inv, Tables
      <3> QED
        BY <1>2, <1>3, <2>1, <3>1, Received
    <2>3. CASE w = Subject[e]
      <3>1. refunds'[w] = refunds[w] + 1 /\ refunds[w] \in Nat
        BY <1>3, <2>3 DEF Inv, Tables
      <3>2. e \in EventsOf(w)
        BY <1>2, <2>3 DEF EventsOf
      <3>3. /\ Cardinality(inbox \cap EventsOf(w)) \in Nat
            /\ Cardinality((inbox \cup {e}) \cap EventsOf(w)) = Cardinality(inbox \cap EventsOf(w)) + 1
        BY <1>1, <1>2, <3>2, Counting DEF Inv
      <3>4. refunds[w] + (IF RowOf(w) = "absent" THEN 0 ELSE 1) <= Cardinality(inbox \cap EventsOf(w))
        BY DEF Inv, OneAnswerPerEvent
      <3>5. (refunds[w] + 1) + (IF RowOf(w) = "absent" THEN 0 ELSE 1)
              <= Cardinality((inbox \cup {e}) \cap EventsOf(w))
        BY <3>1, <3>3, <3>4
      <3>6. EventsOf(w)' = EventsOf(w)
        BY DEF EventsOf
      <3> QED
        BY <1>3, <2>1, <3>1, <3>5, <3>6
    <2> QED
      BY <2>2, <2>3
  <1>6. ErasedIsForgotten'
    BY <1>3 DEF Inv, ErasedIsForgotten
  <1> QED
    BY <1>4, <1>5, <1>6 DEF Inv

\* A row planned for an event of nobody, or of the withdrawal it pays.
LEMMA PlanStep ==
  ASSUME Inv, NEW h \in Requests,
         \/ PlanWithdrawal(h)
         \/ PlanTopUp(h) /\ Event(h) \notin inbox
  PROVE  Inv'
  <1> DEFINE e == Event(h)
  <1>1. Placed(at[h]) /\ at[h].pc \in {"plan", "topup"} /\ e \notin inbox
    BY DEF Inv, Tables, Claimed, PlanWithdrawal, PlanTopUp, Open
  <1>2. e \in Events /\ Topic[e] # "deleted" /\ Key[e] \in Keys /\ About(Key[e]) = Subject[e]
    <2>1. e \in Events /\ Topic[e] \in {"withdrawal", "deploy"}
      BY <1>1 DEF Placed, Event, Open
    <2> QED
      BY <2>1, KeyFacts
  <1>3. PlanOutbound(e) /\ Answer(h) /\ UNCHANGED <<offered, refunds, erased>>
    BY DEF PlanWithdrawal, PlanTopUp
  <1>4. /\ inbox' = inbox \cup {e}
        /\ row' = [row EXCEPT ![Key[e]] = IF row[Key[e]] = "absent" THEN "planned" ELSE @]
        /\ \A k \in Keys \ {Key[e]} : named'[k] = named[k]
        /\ named' \in [Keys -> {"no", "yes", "late"}]
        /\ named'[Key[e]] = "yes" =>
             named[Key[e]] = "yes" \/ (Topic[e] = "withdrawal" /\ UserOf[Subject[e]] \notin erased)
    BY <1>2, <1>3 DEF PlanOutbound, Inv, Tables
  <1>5. row' \in [Keys -> {"absent", "planned", "signed", "confirmed", "failed"}]
    BY <1>2, <1>4 DEF Inv, Tables
  <1>6. Tables' /\ Claimed'
    BY <1>1, <1>3, <1>4, <1>5, Ending DEF Inv, Tables, Open
  <1>7. OneAnswerPerEvent'
    <2> SUFFICES ASSUME NEW w \in Withdrawals
                 PROVE  (refunds[w] + (IF RowOf(w) = "absent" THEN 0 ELSE 1)
                           <= Cardinality(inbox \cap EventsOf(w)))'
      BY DEF OneAnswerPerEvent
    <2>1. refunds'[w] = refunds[w] /\ refunds[w] \in Nat
      BY <1>3 DEF Inv, Tables
    <2>2. CASE e \notin EventsOf(w)
      <3>1. RowOf(w)' = RowOf(w)
        BY <1>2, <1>4, <2>2, RowFacts DEF RowOf, Inv, Tables
      <3> QED
        BY <1>2, <1>4, <2>1, <3>1, Received
    <2>3. CASE e \in EventsOf(w)
      <3>1. /\ Cardinality(inbox \cap EventsOf(w)) \in Nat
            /\ Cardinality((inbox \cup {e}) \cap EventsOf(w)) = Cardinality(inbox \cap EventsOf(w)) + 1
        BY <1>1, <1>2, <2>3, Counting DEF Inv
      <3>2. refunds[w] + (IF RowOf(w) = "absent" THEN 0 ELSE 1) <= Cardinality(inbox \cap EventsOf(w))
        BY DEF Inv, OneAnswerPerEvent
      <3>3. refunds[w] + 1 <= Cardinality((inbox \cup {e}) \cap EventsOf(w))
            /\ refunds[w] <= Cardinality((inbox \cup {e}) \cap EventsOf(w))
        BY <2>1, <3>1, <3>2
      <3>4. EventsOf(w)' = EventsOf(w)
        BY DEF EventsOf
      <3> QED
        BY <1>4, <2>1, <3>3, <3>4
    <2> QED
      BY <2>2, <2>3
  <1>8. ErasedIsForgotten'
    <2> SUFFICES ASSUME NEW w \in Withdrawals, UserOf[w] \in erased,
                        NEW k \in RowsOf(UserOf[w]), named'[k] = "yes"
                 PROVE  FALSE
      BY <1>3 DEF ErasedIsForgotten, RowsOf
    <2>1. k \in Keys /\ UserOf[About(k)] = UserOf[w] /\ named[k] # "yes"
      BY DEF RowsOf, Inv, ErasedIsForgotten
    <2> QED
      BY <1>2, <1>4, <2>1
  <1> QED
    BY <1>6, <1>7, <1>8 DEF Inv

LEMMA EraseStep ==
  ASSUME Inv, NEW h \in Requests,
         EraseUser(h) \/ (PlanTopUp(h) /\ Event(h) \in inbox)
  PROVE  Inv'
  <1> DEFINE e == Event(h)
  <1>1. Placed(at[h]) /\ at[h].pc \in {"erase", "topup"} /\ e \in Events
    BY DEF Inv, Tables, EraseUser, PlanTopUp, Placed, Event
  <1>2. inbox' \in {inbox, inbox \cup {e}} /\ Answer(h) /\ UNCHANGED <<offered, row, refunds>>
    BY DEF EraseUser, PlanTopUp
  <1>3. \/ UNCHANGED <<named, erased>>
        \/ /\ named' = [k \in Keys |-> IF k \in RowsOf(Subject[e]) THEN "no" ELSE named[k]]
           /\ erased' = erased \cup {Subject[e]}
    BY DEF EraseUser, PlanTopUp, Erasable
  <1>4. named' \in [Keys -> {"no", "yes", "late"}]
    BY <1>3 DEF Inv, Tables
  <1>5. Tables' /\ Claimed'
    BY <1>1, <1>2, <1>4, Ending DEF Inv, Tables, Open
  <1>6. OneAnswerPerEvent'
    <2> SUFFICES ASSUME NEW w \in Withdrawals
                 PROVE  (refunds[w] + (IF RowOf(w) = "absent" THEN 0 ELSE 1)
                           <= Cardinality(inbox \cap EventsOf(w)))'
      BY DEF OneAnswerPerEvent
    <2>1. RowOf(w)' = RowOf(w) /\ refunds'[w] = refunds[w]
      BY <1>2 DEF RowOf
    <2> QED
      BY <1>1, <1>2, <2>1, Received
  <1>7. ErasedIsForgotten'
    BY <1>3 DEF Inv, ErasedIsForgotten, RowsOf
  <1> QED
    BY <1>5, <1>6, <1>7 DEF Inv

LEMMA DriveStep ==
  ASSUME Inv, NEW k \in Keys, Drive(k)
  PROVE  Inv'
  <1>1. UNCHANGED <<offered, inbox, named, refunds, erased, at>>
    BY DEF Drive
  <1>2. row' \in [Keys -> {"absent", "planned", "signed", "confirmed", "failed"}]
        /\ \A j \in Keys : row'[j] = "absent" <=> row[j] = "absent"
    BY DEF Drive, Inv, Tables
  <1>3. Tables' /\ Claimed'
    BY <1>1, <1>2 DEF Inv, Tables, Claimed, Event
  <1>4. OneAnswerPerEvent'
    BY <1>1, <1>2, RowFacts DEF Inv, OneAnswerPerEvent, RowOf
  <1>5. ErasedIsForgotten'
    BY <1>1 DEF Inv, ErasedIsForgotten
  <1> QED
    BY <1>3, <1>4, <1>5 DEF Inv

\* The requests that only move.
LEMMA MoveStep ==
  ASSUME Inv, NEW h \in Requests,
         \/ \E e \in Events : Receive(h, e)
         \/ Claim(h) \/ ResolveSource(h) \/ CountTopUps(h) \/ EstimateFee(h) \/ Fail(h)
  PROVE  Inv'
  <1>1. Placed(at[h]) /\ Tables
    BY DEF Inv, Tables
  <1>2. ASSUME NEW e \in Events, Receive(h, e) PROVE Inv'
    <2> DEFINE c == [pc |-> First(Topic[e]), event |-> e]
    <2>1. Topic[e] \in {"withdrawal", "deploy", "deleted"}
      BY IntakeAssumption
    <2>2. c \in Calls /\ Placed(c) /\ c.pc \notin Open
      BY <2>1 DEF First, Calls, Placed, Open
    <2>3. at' = [at EXCEPT ![h] = c] /\ UNCHANGED <<offered, tables>>
      BY <1>2 DEF Receive
    <2> HIDE DEF c
    <2> QED
      BY <2>2, <2>3, QuietStep
  <1>3. ASSUME Answer(h), UNCHANGED <<offered, tables>> PROVE Inv'
    BY <1>3, IdleCall, QuietStep DEF Answer
  <1>4. ASSUME NEW p \in {"source", "refuse", "plan", "fee", "topup"}, Goto(h, p),
               UNCHANGED <<offered, tables>>,
               \A c \in Calls : c.pc = p /\ c.event = Event(h) =>
                 Placed(c) /\ (p \in Open => at[h].pc \in Open \/ (Event(h) \notin inbox /\ Free(Event(h))))
        PROVE  Inv'
    <2>1. PICK c \in Calls : c.pc = p /\ c.event = Event(h) /\ at' = [at EXCEPT ![h] = c]
      BY <1>1, <1>4, Going
    <2> QED
      BY <1>4, <2>1, QuietStep
  <1>5. CASE Claim(h)
    <2>1. UNCHANGED <<offered, tables>> /\ at[h].pc = "claim"
      BY <1>5 DEF Claim, ClaimInbox, tables
    <2>2. Answer(h) \/ (Event(h) \notin inbox /\ Free(Event(h)) /\ Goto(h, "source"))
      BY <1>5 DEF Claim
    <2>3. \A c \in Calls : c.pc = "source" /\ c.event = Event(h) => Placed(c)
      BY <1>1, <2>1 DEF Placed, Event, Open
    <2> QED
      BY <1>3, <1>4, <2>1, <2>2, <2>3
  <1>6. CASE ResolveSource(h)
    <2>1. UNCHANGED <<offered, tables>> /\ at[h].pc = "source"
      BY <1>6 DEF ResolveSource
    <2>2. Goto(h, "plan") \/ Goto(h, "refuse")
      BY <1>6 DEF ResolveSource
    <2>3. \A c \in Calls : c.pc \in {"plan", "refuse"} /\ c.event = Event(h) => Placed(c)
      BY <1>1, <2>1 DEF Placed, Event, Open
    <2>4. at[h].pc \in Open
      BY <2>1 DEF Open
    <2> QED
      BY <1>4, <2>1, <2>2, <2>3, <2>4
  <1>7. CASE CountTopUps(h) \/ EstimateFee(h)
    <2>1. UNCHANGED <<offered, tables>> /\ at[h].pc \in {"count", "fee"}
      BY <1>7 DEF CountTopUps, EstimateFee
    <2>2. Goto(h, "fee") \/ Goto(h, "topup") \/ Answer(h)
      BY <1>7 DEF CountTopUps, EstimateFee
    <2>3. \A c \in Calls : c.pc \in {"fee", "topup"} /\ c.event = Event(h) => Placed(c)
      BY <1>1, <2>1 DEF Placed, Event, Open
    <2>4. "fee" \notin Open /\ "topup" \notin Open
      BY DEF Open
    <2> QED
      BY <1>3, <1>4, <2>1, <2>2, <2>3, <2>4
  <1>8. CASE Fail(h)
    BY <1>3, <1>8 DEF Fail
  <1> QED
    BY <1>2, <1>5, <1>6, <1>7, <1>8

LEMMA InvStep == Inv /\ [Next]_vars => Inv'
  <1> SUFFICES ASSUME Inv, [Next]_vars PROVE Inv'
    OBVIOUS
  <1>1. ASSUME NEW h \in Requests, Handle(h) \/ Fail(h) \/ \E e \in Events : Receive(h, e)
        PROVE  Inv'
    BY <1>1, MoveStep, RefuseStep, PlanStep, EraseStep DEF Handle
  <1>2. ASSUME NEW k \in Keys, Drive(k) PROVE Inv'
    BY <1>2, DriveStep
  <1>3. CASE Provision \/ UNCHANGED vars
    BY <1>3 DEF Provision, vars, tables, Inv, Tables, Claimed, OneAnswerPerEvent, ErasedIsForgotten,
                RowOf, Event
  <1> QED
    BY <1>1, <1>2, <1>3 DEF Next

LEMMA InvHolds == Spec => []Inv
  BY InvInit, InvStep, PTL DEF Spec

\* A withdrawal is answered, by a payment or a refund, no more often than the
\* wallet asked for it, however often an event is delivered and whatever dies.
THEOREM OneAnswerPerEventHolds == Spec => []OneAnswerPerEvent
  <1>1. Inv => OneAnswerPerEvent
    BY DEF Inv
  <1> QED
    BY <1>1, InvHolds, PTL

\* No row names a user who was erased, save one planned after the erasure.
THEOREM ErasedIsForgottenHolds == Spec => []ErasedIsForgotten
  <1>1. Inv => ErasedIsForgotten
    BY DEF Inv
  <1> QED
    BY <1>1, InvHolds, PTL

(***************************************************************************)
(* The allowance of a token.  A request that counted fewer top-ups than    *)
(* the allowance holds its count until it plans; what there is and what    *)
(* such requests may still add are bounded together.                       *)
(***************************************************************************)
Counted(t) == {h \in Requests : at[h].pc \in {"fee", "topup"} /\ Subject[Event(h)] = t}

AllowanceInv ==
  \A t \in Tokens :
    /\ IsFiniteSet(TopUpsFor(t))
    /\ Cardinality(TopUpsFor(t)) + Cardinality(Counted(t))
         <= TopUpMaxPerToken + Cardinality(Requests) - 1

LEMMA CountedType ==
  ASSUME NEW t
  PROVE  /\ IsFiniteSet(Counted(t)) /\ Cardinality(Counted(t)) \in Nat
         /\ Cardinality(Requests) \in Nat /\ Cardinality(Requests) >= 1
         /\ Cardinality(Counted(t)) <= Cardinality(Requests)
  <1>1. IsFiniteSet(Requests) /\ Counted(t) \subseteq Requests
    BY IntakeAssumption DEF Counted
  <1>2. Cardinality(Requests) \in Nat /\ Cardinality(Requests) # 0
    BY <1>1, IntakeAssumption, FS_CardinalityType, FS_EmptySet
  <1> QED
    BY <1>1, <1>2, FS_Subset, FS_CardinalityType

\* Nothing more is counted and nothing more is there.
LEMMA AllowanceShrinks ==
  ASSUME AllowanceInv,
         \A t \in Tokens : TopUpsFor(t)' \subseteq TopUpsFor(t) /\ Counted(t)' \subseteq Counted(t)
  PROVE  AllowanceInv'
  <1> SUFFICES ASSUME NEW t \in Tokens
               PROVE  /\ IsFiniteSet(TopUpsFor(t)')
                      /\ Cardinality(TopUpsFor(t)') + Cardinality(Counted(t)')
                           <= TopUpMaxPerToken + Cardinality(Requests) - 1
    BY DEF AllowanceInv
  <1> DEFINE A == TopUpsFor(t)
             B == TopUpsFor(t)'
             C == Counted(t)
             D == Counted(t)'
  <1>1. IsFiniteSet(A) /\ B \subseteq A /\ IsFiniteSet(C) /\ D \subseteq C
    BY CountedType DEF AllowanceInv
  <1>2. Cardinality(A) + Cardinality(C) <= TopUpMaxPerToken + Cardinality(Requests) - 1
    BY DEF AllowanceInv
  <1>3. TopUpMaxPerToken \in Nat /\ Cardinality(Requests) \in Nat
    BY CountedType, IntakeAssumption
  <1> HIDE DEF A, B, C, D
  <1>4. IsFiniteSet(B) /\ Cardinality(B) <= Cardinality(A) /\ Cardinality(A) \in Nat
        /\ Cardinality(B) \in Nat
    BY <1>1, FS_Subset, FS_CardinalityType
  <1>5. Cardinality(D) <= Cardinality(C) /\ Cardinality(C) \in Nat /\ Cardinality(D) \in Nat
    BY <1>1, FS_Subset, FS_CardinalityType
  <1>6. Cardinality(B) + Cardinality(D) <= TopUpMaxPerToken + Cardinality(Requests) - 1
    BY <1>2, <1>3, <1>4, <1>5
  <1> QED
    BY <1>4, <1>6 DEF B, D

\* A request that moves counts no token it did not count before.
LEMMA CountedKept ==
  ASSUME Tables, NEW h \in Requests, NEW c \in Calls, at' = [at EXCEPT ![h] = c],
         c.pc \in {"fee", "topup"} => at[h].pc \in {"fee", "topup"} /\ c.event = Event(h)
  PROVE  \A t : Counted(t)' \subseteq Counted(t)
  BY Moving DEF Counted, Event

LEMMA AllowanceMoves ==
  ASSUME Inv, AllowanceInv, NEW h \in Requests, NEW c \in Calls, at' = [at EXCEPT ![h] = c],
         c.pc \in {"fee", "topup"} => at[h].pc \in {"fee", "topup"} /\ c.event = Event(h),
         row' = row
  PROVE  AllowanceInv'
  <1>1. \A t : Counted(t)' \subseteq Counted(t)
    BY CountedKept DEF Inv
  <1>2. \A t : TopUpsFor(t)' = TopUpsFor(t)
    BY DEF TopUpsFor
  <1> QED
    BY <1>1, <1>2, AllowanceShrinks

LEMMA AllowanceEnds ==
  ASSUME Inv, AllowanceInv, NEW h \in Requests, Answer(h), row' = row
  PROVE  AllowanceInv'
  BY IdleCall, AllowanceMoves DEF Answer, Idle

LEMMA AllowanceGoes ==
  ASSUME Inv, AllowanceInv, NEW h \in Requests, NEW p \in {"source", "refuse", "plan", "fee", "topup"},
         Goto(h, p), row' = row,
         p \in {"fee", "topup"} => at[h].pc \in {"fee", "topup"}
  PROVE  AllowanceInv'
  <1>1. PICK c \in Calls : c.pc = p /\ c.event = Event(h) /\ at' = [at EXCEPT ![h] = c]
    BY Going DEF Inv
  <1> QED
    BY <1>1, AllowanceMoves

\* Fewer top-ups than the allowance are there when a request counts.
LEMMA AllowanceCounts ==
  ASSUME Inv, AllowanceInv, NEW h \in Requests, CountTopUps(h)
  PROVE  AllowanceInv'
  <1>1. row' = row
    BY DEF CountTopUps, tables
  <1>2. CASE Answer(h)
    BY <1>1, <1>2, AllowanceEnds
  <1>3. CASE /\ Cardinality(TopUpsFor(Subject[Event(h)])) < TopUpMaxPerToken
             /\ Goto(h, "fee")
    <2>1. PICK c \in Calls : c.pc = "fee" /\ c.event = Event(h) /\ at' = [at EXCEPT ![h] = c]
      BY <1>3, Going DEF Inv
    <2> SUFFICES ASSUME NEW t \in Tokens
                 PROVE  /\ IsFiniteSet(TopUpsFor(t)')
                        /\ Cardinality(TopUpsFor(t)') + Cardinality(Counted(t)')
                             <= TopUpMaxPerToken + Cardinality(Requests) - 1
      BY DEF AllowanceInv
    <2>2. TopUpsFor(t)' = TopUpsFor(t) /\ IsFiniteSet(TopUpsFor(t))
      BY <1>1 DEF TopUpsFor, AllowanceInv
    <2>3. TopUpMaxPerToken \in Nat /\ Cardinality(TopUpsFor(t)) \in Nat
      BY <2>2, IntakeAssumption, FS_CardinalityType
    <2>4. CASE t = Subject[Event(h)]
      <3>1. Cardinality(TopUpsFor(t)) < TopUpMaxPerToken
        BY <1>3, <2>4
      <3>2. Cardinality(Counted(t)') \in Nat /\ Cardinality(Counted(t)') <= Cardinality(Requests)
            /\ Cardinality(Requests) \in Nat
        <4> DEFINE D == Counted(t)'
        <4>1. IsFiniteSet(Requests) /\ D \subseteq Requests
          BY IntakeAssumption DEF Counted
        <4> HIDE DEF D
        <4>2. Cardinality(D) \in Nat /\ Cardinality(D) <= Cardinality(Requests)
          BY <4>1, FS_Subset, FS_CardinalityType
        <4> QED
          BY <4>2, CountedType DEF D
      <3>3. Cardinality(TopUpsFor(t)) + Cardinality(Counted(t)')
              <= TopUpMaxPerToken + Cardinality(Requests) - 1
        BY <2>3, <3>1, <3>2
      <3> QED
        BY <2>2, <3>3
    <2>5. CASE t # Subject[Event(h)]
      <3>1. Counted(t)' = Counted(t)
        <4>1. at'[h] = c /\ \A g \in Requests \ {h} : at'[g] = at[g]
          BY <2>1, Moving DEF Inv
        <4>2. at[h].pc = "count"
          BY DEF CountTopUps
        <4> QED
          BY <2>1, <2>5, <4>1, <4>2 DEF Counted, Event
      <3> QED
        BY <2>2, <3>1 DEF AllowanceInv
    <2> QED
      BY <2>4, <2>5
  <1> QED
    BY <1>2, <1>3 DEF CountTopUps

\* What a request plans is one of those it counted for.
LEMMA AllowancePlans ==
  ASSUME Inv, AllowanceInv, NEW h \in Requests,
         PlanWithdrawal(h) \/ (PlanTopUp(h) /\ Event(h) \notin inbox)
  PROVE  AllowanceInv'
  <1> DEFINE e == Event(h)
  <1>1. /\ Placed(at[h]) /\ at[h].pc \in {"plan", "topup"} /\ Answer(h)
        /\ row' = [row EXCEPT ![Key[e]] = IF row[Key[e]] = "absent" THEN "planned" ELSE @]
        /\ row \in [Keys -> {"absent", "planned", "signed", "confirmed", "failed"}]
    BY DEF Inv, Tables, PlanWithdrawal, PlanTopUp, PlanOutbound
  <1>2. e \in Events /\ Topic[e] = IF at[h].pc = "plan" THEN "withdrawal" ELSE "deploy"
    BY <1>1 DEF Placed, Event, Open
  <1>3. Key[e] \in Keys /\ About(Key[e]) = Subject[e]
    BY <1>2, KeyFacts
  <1>4. at'[h] = Idle /\ \A g \in Requests \ {h} : at'[g] = at[g]
    BY <1>1, IdleCall, Moving DEF Inv, Answer
  <1> SUFFICES ASSUME NEW t \in Tokens
               PROVE  /\ IsFiniteSet(TopUpsFor(t)')
                      /\ Cardinality(TopUpsFor(t)') + Cardinality(Counted(t)')
                           <= TopUpMaxPerToken + Cardinality(Requests) - 1
    BY DEF AllowanceInv
  <1> DEFINE A == TopUpsFor(t)
             B == TopUpsFor(t)'
             C == Counted(t)
             D == Counted(t)'
  <1>5. IsFiniteSet(A) /\ IsFiniteSet(C)
        /\ Cardinality(A) + Cardinality(C) <= TopUpMaxPerToken + Cardinality(Requests) - 1
    BY CountedType DEF AllowanceInv
  <1>6. TopUpMaxPerToken \in Nat /\ Cardinality(Requests) \in Nat
    BY CountedType, IntakeAssumption
  <1>7. D = C \ {h}
    BY <1>4 DEF Counted, Event, Idle
  <1>8. B \subseteq A \cup {Key[e]} /\ (B \subseteq A \/ t = Subject[e])
    BY <1>1, <1>3 DEF TopUpsFor
  <1>9. t = Subject[e] => h \in C
    <2>1. ASSUME t = Subject[e] PROVE at[h].pc = "topup"
      <3>1. CASE at[h].pc = "plan"
        <4>1. Subject[e] \in Withdrawals
          BY <1>2, <3>1 DEF Withdrawals
        <4> QED
          BY <2>1, <4>1, IntakeAssumption
      <3> QED
        BY <1>1, <3>1
    <2> QED
      BY <2>1 DEF Counted
  <1> HIDE DEF A, B, C, D
  <1>10. Cardinality(A) \in Nat /\ Cardinality(C) \in Nat
    BY <1>5, FS_CardinalityType
  <1>11. CASE B \subseteq A
    <2>1. IsFiniteSet(B) /\ Cardinality(B) <= Cardinality(A) /\ Cardinality(B) \in Nat
      BY <1>5, <1>11, FS_Subset, FS_CardinalityType
    <2>2. D \subseteq C
      BY <1>7
    <2>3. Cardinality(D) <= Cardinality(C) /\ Cardinality(D) \in Nat
      BY <1>5, <2>2, FS_Subset, FS_CardinalityType
    <2>4. Cardinality(B) + Cardinality(D) <= TopUpMaxPerToken + Cardinality(Requests) - 1
      BY <1>5, <1>6, <1>10, <2>1, <2>3
    <2> QED
      BY <2>1, <2>4 DEF B, D
  <1>12. CASE t = Subject[e]
    <2> DEFINE U == A \cup {Key[e]}
    <2>1. IsFiniteSet(U) /\ Cardinality(U) <= Cardinality(A) + 1 /\ Cardinality(U) \in Nat
      <3>1. IsFiniteSet(U) /\ Cardinality(U) \in {Cardinality(A), Cardinality(A) + 1}
        BY <1>5, FS_AddElement
      <3> HIDE DEF U
      <3> QED
        BY <1>10, <3>1
    <2>2. B \subseteq U
      BY <1>8
    <2> HIDE DEF U
    <2>3. IsFiniteSet(B) /\ Cardinality(B) <= Cardinality(U) /\ Cardinality(B) \in Nat
      BY <2>1, <2>2, FS_Subset, FS_CardinalityType
    <2>4. Cardinality(D) = Cardinality(C) - 1
      BY <1>5, <1>7, <1>9, <1>12, FS_RemoveElement
    <2>5. Cardinality(B) + Cardinality(D) <= TopUpMaxPerToken + Cardinality(Requests) - 1
      BY <1>5, <1>6, <1>10, <2>1, <2>3, <2>4
    <2> QED
      BY <2>3, <2>5 DEF B, D
  <1> QED
    BY <1>8, <1>11, <1>12

LEMMA AllowanceStep ==
  ASSUME Inv, AllowanceInv, [Next]_vars PROVE AllowanceInv'
  <1>1. ASSUME NEW h \in Requests, NEW e \in Events, Receive(h, e) PROVE AllowanceInv'
    <2> DEFINE c == [pc |-> First(Topic[e]), event |-> e]
    <2>1. Topic[e] \in {"withdrawal", "deploy", "deleted"}
      BY IntakeAssumption
    <2>2. c \in Calls /\ c.pc \notin {"fee", "topup"}
      BY <2>1 DEF First, Calls
    <2>3. at' = [at EXCEPT ![h] = c] /\ row' = row
      BY <1>1 DEF Receive, tables
    <2> HIDE DEF c
    <2> QED
      BY <2>2, <2>3, AllowanceMoves
  <1>2. ASSUME NEW h \in Requests, Handle(h) \/ Fail(h) PROVE AllowanceInv'
    <2>1. CASE Claim(h)
      BY <2>1, AllowanceEnds, AllowanceGoes DEF Claim
    <2>2. CASE ResolveSource(h)
      <3>1. (Goto(h, "plan") \/ Goto(h, "refuse")) /\ row' = row
        BY <2>2 DEF ResolveSource, tables
      <3> QED
        BY <3>1, AllowanceGoes
    <2>3. CASE EstimateFee(h)
      BY <2>3, AllowanceEnds, AllowanceGoes DEF EstimateFee, tables
    <2>4. CASE RefuseUnpayable(h) \/ EraseUser(h) \/ Fail(h) \/ (PlanTopUp(h) /\ Event(h) \in inbox)
      BY <2>4, AllowanceEnds DEF RefuseUnpayable, EraseUser, Fail, PlanTopUp, tables
    <2> QED
      BY <1>2, <2>1, <2>2, <2>3, <2>4, AllowanceCounts, AllowancePlans DEF Handle
  <1>3. ASSUME NEW k \in Keys, Drive(k) PROVE AllowanceInv'
    <2>1. \A j \in Keys : row'[j] \notin {"absent", "failed"} => row[j] \notin {"absent", "failed"}
      BY <1>3 DEF Drive, Inv, Tables
    <2>2. \A t : TopUpsFor(t)' \subseteq TopUpsFor(t) /\ Counted(t)' = Counted(t)
      BY <1>3, <2>1 DEF Drive, TopUpsFor, Counted, Event
    <2> QED
      BY <2>2, AllowanceShrinks
  <1>4. CASE Provision \/ UNCHANGED vars
    <2>1. \A t : TopUpsFor(t)' = TopUpsFor(t) /\ Counted(t)' = Counted(t)
      BY <1>4 DEF Provision, vars, tables, TopUpsFor, Counted, Event
    <2> QED
      BY <2>1, AllowanceShrinks
  <1> QED
    BY <1>1, <1>2, <1>3, <1>4 DEF Next

\* Requests that count at once exceed the allowance of a token by one each at
\* most, less the one that had room: whatever is redelivered, dies or fails.
THEOREM AllowanceIsBoundedHolds == Spec => []AllowanceIsBounded
  <1>1. Init => AllowanceInv
    <2> SUFFICES ASSUME Init, NEW t \in Tokens
                 PROVE  /\ IsFiniteSet(TopUpsFor(t))
                        /\ Cardinality(TopUpsFor(t)) + Cardinality(Counted(t))
                             <= TopUpMaxPerToken + Cardinality(Requests) - 1
      BY DEF AllowanceInv
    <2>1. TopUpsFor(t) = {} /\ Counted(t) = {}
      BY DEF Init, TopUpsFor, Counted, Idle
    <2>2. TopUpMaxPerToken \in Nat /\ Cardinality(Requests) \in Nat /\ Cardinality(Requests) >= 1
      BY CountedType, IntakeAssumption
    <2> QED
      BY <2>1, <2>2, FS_EmptySet
  <1>2. Inv /\ AllowanceInv => AllowanceIsBounded
    <2> SUFFICES ASSUME Inv, AllowanceInv, NEW t \in Tokens
                 PROVE  Cardinality({k \in Keys :
                          About(k) = t /\ row[k] \in {"planned", "signed", "confirmed"}})
                          <= TopUpMaxPerToken + Cardinality(Requests) - 1
      BY DEF AllowanceIsBounded
    <2>1. {k \in Keys : About(k) = t /\ row[k] \in {"planned", "signed", "confirmed"}}
            = TopUpsFor(t)
      BY DEF TopUpsFor, Inv, Tables
    <2>2. Cardinality(TopUpsFor(t)) \in Nat /\ Cardinality(Counted(t)) \in Nat
          /\ TopUpMaxPerToken \in Nat /\ Cardinality(Requests) \in Nat
      BY CountedType, IntakeAssumption, FS_CardinalityType DEF AllowanceInv
    <2>3. Cardinality(TopUpsFor(t)) <= TopUpMaxPerToken + Cardinality(Requests) - 1
      BY <2>2 DEF AllowanceInv
    <2> QED
      BY <2>1, <2>3
  <1>3. Inv /\ AllowanceInv /\ [Next]_vars => AllowanceInv'
    BY AllowanceStep
  <1> QED
    BY <1>1, <1>2, <1>3, InvInit, InvStep, PTL DEF Spec
=============================================================================
