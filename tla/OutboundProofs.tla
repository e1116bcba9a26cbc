--------------------------- MODULE OutboundProofs ---------------------------
(***************************************************************************)
(* Theorems about the outbound machine, for every set of rows, of ticks,   *)
(* of operators and every bound, in three parts: the store and who may     *)
(* move a row; what a row is told against what the chain did; and the      *)
(* refinement of Payout.                                                   *)
(***************************************************************************)
EXTENDS OutboundPayout, TLAPS

(***************************************************************************)
(* Type correctness.  A step changes the store by one of its transactions, *)
(* and what one tick or one adjudication holds; the lemmas take the two    *)
(* apart.                                                                  *)
(***************************************************************************)
Resting == {"idle", "pick", "recheck"}

\* What a tick at a label has in its hands: a row, a signature, bytes.
Holds(label, row, snapshot, made) ==
  /\ label \in Resting <=> row = NoRow
  /\ label \in {"sign", "commit"} => made # NoBytes
  /\ label \in Sending => snapshot.bytes # NoBytes

TickInv ==
  /\ TickType
  /\ \A w \in Workers : Holds(pc[w], cur[w], seen[w], draft[w])

\* An adjudication under way has a row.
DeskInv ==
  /\ DeskType
  /\ \A o \in Operators : opPc[o] # "idle" => opRow[o] # NoRow

TypeInv == StoreType /\ TimeType /\ ChainType /\ TickInv /\ DeskInv

LEMMA TypeInit == Init => TypeInv
  <1> SUFFICES ASSUME Init PROVE TypeInv
    OBVIOUS
  <1> USE DEF Init
  <1>1. StoreType
    BY DEF StoreType, States, Stored, Kinds
  <1>2. TimeType
    BY DEF TimeType
  <1>3. ChainType
    BY DEF ChainType
  <1>4. TickInv
    BY DEF TickInv, TickType, Labels, Stored, Snapshots, Blank, Holds, Resting, Sending
  <1>5. DeskInv
    BY DEF DeskInv, DeskType, OpLabels
  <1> QED
    BY <1>1, <1>2, <1>3, <1>4, <1>5 DEF TypeInv

\* The outbox counts events.
LEMMA EmitType ==
  ASSUME StoreType, NEW S, NEW kinds, EmitFor(S, kinds)
  PROVE  events' \in [Rows -> [Kinds -> Nat]]
  BY DEF StoreType, EmitFor

\* Each transaction of the store keeps its columns typed.
LEMMA StoreStep ==
  ASSUME StoreType, NEW r \in Rows,
         \/ \E S \in SUBSET Rows : Insert(S)
         \/ ClaimForBuilding(r) \/ ReleaseToPlanned(r)
         \/ \E n \in Nat : MarkSigned(r, n)
         \/ MarkBroadcast(r) \/ MarkStuck(r) \/ MatureSweep(r)
         \/ \E kinds : Confirmed(r, kinds)
         \/ \E by \in {"none", "chain", "operator"} : Failed(r, by)
         \/ UNCHANGED store
  PROVE  StoreType'
  <1>1. CASE \E S \in SUBSET Rows : Insert(S)
    BY <1>1 DEF Insert, StoreType, States
  <1>2. CASE ClaimForBuilding(r) \/ ReleaseToPlanned(r)
    BY <1>2 DEF ClaimForBuilding, ReleaseToPlanned, StoreType, States
  <1>3. CASE \E n \in Nat : MarkSigned(r, n)
    BY <1>3 DEF MarkSigned, StoreType, States, Stored
  <1>4. CASE MarkBroadcast(r)
    BY <1>4 DEF MarkBroadcast, StoreType, States
  <1>5. CASE MarkStuck(r)
    BY <1>5, EmitType DEF MarkStuck, StoreType, States
  <1>6. CASE MatureSweep(r)
    BY <1>6 DEF MatureSweep, StoreType
  <1>7. CASE \E kinds : Confirmed(r, kinds)
    BY <1>7, EmitType DEF Confirmed, StoreType, States
  <1>8. CASE \E by \in {"none", "chain", "operator"} : Failed(r, by)
    BY <1>8, EmitType DEF Failed, StoreType, States
  <1>9. CASE UNCHANGED store
    BY <1>9 DEF store, StoreType
  <1> QED
    BY <1>1, <1>2, <1>3, <1>4, <1>5, <1>6, <1>7, <1>8, <1>9

\* A tick that goes to a label with the row it has.
LEMMA GotoStep ==
  ASSUME TickInv, NEW w \in Workers, NEW label \in Labels, Goto(w, label),
         Holds(label, cur[w], seen[w], draft[w])
  PROVE  TickInv'
  BY DEF TickInv, TickType, Goto, Holds

\* A tick that lets go of its row.
LEMMA ForgetStep ==
  ASSUME TickInv, NEW w \in Workers, NEW label \in Resting, Forget(w, label),
         retired' \in [Workers -> Nat]
  PROVE  TickInv'
  <1>1. TickType'
    BY DEF TickInv, TickType, Forget, Resting, Labels, Blank, Snapshots, Stored
  <1>2. ASSUME NEW v \in Workers PROVE Holds(pc[v], cur[v], seen[v], draft[v])'
    BY DEF TickInv, TickType, Forget, Resting, Holds, Sending
  <1> QED
    BY <1>1, <1>2 DEF TickInv

LEMMA MoveOnStep ==
  ASSUME TickInv, NEW w \in Workers, NEW label \in Resting, MoveOn(w, label)
  PROVE  TickInv'
  BY ForgetStep DEF MoveOn, TickInv, TickType

LEMMA RestStep ==
  ASSUME TickInv, NEW w \in Workers, Rest(w)
  PROVE  TickInv'
  BY ForgetStep DEF Rest, TickInv, TickType, Resting

\* A tick that takes a row.
LEMMA HoldStep ==
  ASSUME TickInv, NEW w \in Workers, NEW label \in Labels, NEW r \in Rows,
         NEW s \in Snapshots, Hold(w, label, r, s),
         label \notin Resting \cup {"sign", "commit"},
         label \in Sending => s.bytes # NoBytes, NoRow \notin Rows
  PROVE  TickInv'
  <1>1. TickType'
    BY DEF TickInv, TickType, Hold, Stored
  <1>2. ASSUME NEW v \in Workers PROVE Holds(pc[v], cur[v], seen[v], draft[v])'
    BY DEF TickInv, TickType, Hold, Holds
  <1> QED
    BY <1>1, <1>2 DEF TickInv

(***************************************************************************)
(* Every step, one lemma per actor.                                        *)
(***************************************************************************)
LEMMA PlanningType == TypeInv /\ (Planning \/ Clock) => TypeInv'
  <1> SUFFICES ASSUME TypeInv, Planning \/ Clock PROVE TypeInv'
    OBVIOUS
  <1> USE DEF TypeInv, time, chain, tick, desk
  <1>1. ASSUME NEW S \in SUBSET Rows, Insert(S) PROVE TypeInv'
    <2>1. StoreType'
      BY <1>1 DEF Insert, StoreType, States
    <2> QED
      BY <1>1, <2>1 DEF Insert, TimeType, ChainType, TickInv, TickType, DeskInv, DeskType
  <1>2. CASE Planning
    BY <1>1, <1>2, ConstantsAssumption DEF Planning, PlanOutbound, PlanTokenSweep
  <1>3. CASE Clock
    <2>1. StoreType' /\ TimeType'
      BY <1>3 DEF Clock, RowTurnsOld, BroadcastTurnsOld, store, StoreType, TimeType
    <2> QED
      BY <1>3, <2>1 DEF Clock, RowTurnsOld, BroadcastTurnsOld,
           ChainType, TickInv, TickType, DeskInv, DeskType
  <1> QED
    BY <1>2, <1>3

LEMMA ChainMovesType == TypeInv /\ Chain => TypeInv'
  <1> SUFFICES ASSUME TypeInv, Chain PROVE TypeInv'
    OBVIOUS
  <1> USE DEF TypeInv
  <1>1. UNCHANGED <<store, time, tick, desk>>
    BY DEF Chain, Mine, Bury, Reorg, Evict, SpendByHand, store, time, tick, desk
  <1>2. StoreType' /\ TimeType' /\ TickInv' /\ DeskInv'
    BY <1>1 DEF store, time, tick, desk, StoreType, TimeType, TickInv, TickType,
         DeskInv, DeskType
  <1>3. ASSUME NEW tx \in wire, Mine(tx) \/ Bury(tx) \/ Reorg(tx) \/ Evict(tx)
        PROVE  ChainType'
    BY <1>3 DEF Mine, Bury, Reorg, Evict, Mined, ChainType, Txs, Addresses
  <1>4. ASSUME NEW a \in Addresses, SpendByHand(a) PROVE ChainType'
    BY <1>4 DEF SpendByHand, ChainType
  <1> QED
    BY <1>2, <1>3, <1>4 DEF Chain

\* What a step of a tick changes besides what it holds.
LEMMA TickFrame ==
  ASSUME TypeInv, UNCHANGED <<time, desk>>, StoreType', ChainType', TickInv'
  PROVE  TypeInv'
  BY DEF TypeInv, time, desk, TimeType, DeskInv, DeskType

\* chainStatusOf answers with one of the four kinds that advance knows.
LEMMA AnswersAdvise ==
  ASSUME NEW r, NEW n, NEW answer \in Answers(r, n)
  PROVE  answer \in Advising
  <1> DEFINE tx == <<r, n>>
  <1>1. CASE n = NoBytes
    BY <1>1 DEF Answers, Advising
  <1>2. CASE n # NoBytes /\ tx \in reverted
    BY <1>2 DEF Answers, Advising
  <1>3. CASE n # NoBytes /\ tx \notin reverted /\ tx \in landed /\ tx \in deep
    BY <1>3 DEF Answers, Advising
  <1>4. CASE n # NoBytes /\ tx \notin reverted /\ tx \in landed \ deep
    BY <1>4 DEF Answers, Advising
  <1>5. CASE n # NoBytes /\ tx \notin reverted /\ tx \notin landed
    BY <1>5 DEF Answers, Advising
  <1> QED
    BY <1>1, <1>2, <1>3, <1>4, <1>5

LEMMA StoreUnchanged == StoreType /\ UNCHANGED store => StoreType'
  BY DEF StoreType, store

LEMMA ChainUnchanged == ChainType /\ UNCHANGED chain => ChainType'
  BY DEF ChainType, chain

\* The row of a tick that is not resting.
LEMMA RowInHand ==
  ASSUME TypeInv, NEW w \in Workers, pc[w] \notin Resting
  PROVE  cur[w] \in Rows
  BY DEF TypeInv, TickInv, TickType, Holds

LEMMA WorkType ==
  ASSUME TypeInv, NEW w \in Workers, Drive(w) \/ Crash(w)
  PROVE  TypeInv'
  <1> USE ConstantsAssumption
  <1>a. StoreType /\ ChainType /\ TickInv
    BY DEF TypeInv
  <1>b. pc[w] \notin Resting => cur[w] \in Rows
    BY RowInHand
  <1>1. CASE Tick(w)
    <2> USE <1>1, <1>a DEF Tick
    <2>1. StoreType'
      BY StoreUnchanged
    <2>2. ChainType'
      BY ChainUnchanged
    <2>3. TickInv'
      <3>1. CASE pc[w] = "idle" /\ Goto(w, "pick")
        BY <3>1, GotoStep DEF TickInv, Holds, Labels, Resting, Sending
      <3>2. ASSUME NEW r \in InFlight,
                   Hold(w, "ask", r, [bytes |-> bytes[r], sent |-> sent[r], late |-> FALSE])
            PROVE  TickInv'
        <4>1. [bytes |-> bytes[r], sent |-> sent[r], late |-> FALSE] \in Snapshots
          BY DEF InFlight, StoreType, Snapshots
        <4> QED
          BY <3>2, <4>1, HoldStep DEF InFlight, Labels, Resting, Sending
      <3> QED
        BY <3>1, <3>2
    <2> QED
      BY <2>1, <2>2, <2>3, TickFrame
  <1>2. CASE Ask(w)
    <2> USE <1>2, <1>a DEF Ask
    <2>1. StoreType'
      BY StoreUnchanged
    <2>2. ChainType'
      BY ChainUnchanged
    <2>3. TickInv'
      <3>1. PICK answer \in Answers(cur[w], seen[w].bytes) : pc' = [pc EXCEPT ![w] = answer]
        OBVIOUS
      <3>2. answer \in Advising
        BY <3>1, AnswersAdvise
      <3>3. DeadlinePassed(cur[w], seen[w].sent) \in BOOLEAN
        BY DEF DeadlinePassed, TickInv, TickType, Snapshots
      <3>4. TickType'
        <4>1. pc' \in [Workers -> Labels]
          BY <3>1, <3>2 DEF TickInv, TickType, Labels
        <4>2. seen' \in [Workers -> Snapshots]
          BY <3>3 DEF TickInv, TickType, Snapshots
        <4> QED
          BY <4>1, <4>2 DEF TickInv, TickType
      <3>5. ASSUME NEW v \in Workers PROVE Holds(pc[v], cur[v], seen[v], draft[v])'
        BY <3>1, <3>2 DEF TickInv, TickType, Holds, Advising, Resting, Sending, Snapshots
      <3> QED
        BY <3>4, <3>5 DEF TickInv
    <2> QED
      BY <2>1, <2>2, <2>3, TickFrame
  <1>3. CASE OnConfirmed(w)
    <2> USE <1>3, <1>a DEF OnConfirmed
    <2>1. StoreType'
      BY <1>b, StoreStep DEF Resting
    <2>2. ChainType'
      BY ChainUnchanged
    <2>3. TickInv'
      BY GotoStep, MoveOnStep DEF TickInv, Holds, Labels, Resting, Sending
    <2> QED
      BY <2>1, <2>2, <2>3, TickFrame
  <1>4. CASE OnMature(w)
    <2> USE <1>4, <1>a DEF OnMature
    <2>1. StoreType'
      BY <1>b, StoreStep DEF Resting
    <2>2. ChainType'
      BY ChainUnchanged
    <2>3. TickInv'
      BY MoveOnStep DEF Resting
    <2> QED
      BY <2>1, <2>2, <2>3, TickFrame
  <1>5. CASE OnRejected(w)
    <2> USE <1>5, <1>a DEF OnRejected
    <2>1. StoreType'
      BY <1>b, StoreStep DEF Resting
    <2>2. ChainType'
      BY ChainUnchanged
    <2>3. TickInv'
      BY MoveOnStep DEF Resting
    <2> QED
      BY <2>1, <2>2, <2>3, TickFrame
  <1>6. CASE OnPending(w)
    <2> USE <1>6, <1>a DEF OnPending
    <2>1. StoreType'
      BY <1>b, StoreStep DEF Resting
    <2>2. ChainType'
      BY ChainUnchanged
    <2>3. TickInv'
      BY GotoStep DEF TickInv, Holds, Labels, Resting, Sending
    <2> QED
      BY <2>1, <2>2, <2>3, TickFrame
  <1>7. CASE OnUnknown(w)
    <2> USE <1>7, <1>a DEF OnUnknown
    <2>1. StoreType'
      BY StoreUnchanged
    <2>2. ChainType'
      BY ChainUnchanged
    <2>3. TickInv'
      BY GotoStep DEF TickInv, Holds, Labels, Resting, Sending
    <2> QED
      BY <2>1, <2>2, <2>3, TickFrame
  <1>8. CASE GoStuck(w)
    <2> USE <1>8, <1>a DEF GoStuck
    <2>1. StoreType'
      BY <1>b, StoreStep DEF Resting
    <2>2. ChainType'
      BY ChainUnchanged
    <2>3. TickInv'
      BY MoveOnStep DEF Resting
    <2> QED
      BY <2>1, <2>2, <2>3, TickFrame
  <1>9. CASE Recheck(w)
    <2> USE <1>9, <1>a DEF Recheck
    <2>1. StoreType'
      BY StoreUnchanged
    <2>2. ChainType'
      BY ChainUnchanged
    <2>3. TickInv'
      BY GotoStep, RestStep DEF TickInv, Holds, Labels, Resting, Sending
    <2> QED
      BY <2>1, <2>2, <2>3, TickFrame
  <1>10. CASE Pick(w)
    <2> USE <1>10, <1>a DEF Pick
    <2>1. StoreType'
      BY StoreUnchanged
    <2>2. ChainType'
      BY ChainUnchanged
    <2>3. TickInv'
      <3>1. Blank \in Snapshots
        BY DEF Blank, Snapshots, Stored
      <3> QED
        BY <3>1, HoldStep, RestStep DEF Labels, Resting, Sending
    <2> QED
      BY <2>1, <2>2, <2>3, TickFrame
  <1>11. CASE Claim(w)
    <2> USE <1>11, <1>a DEF Claim
    <2>1. StoreType'
      BY <1>b, StoreStep DEF Resting
    <2>2. ChainType'
      BY ChainUnchanged
    <2>3. TickInv'
      BY GotoStep, RestStep DEF TickInv, Holds, Labels, Owning, Resting, Sending
    <2> QED
      BY <2>1, <2>2, <2>3, TickFrame
  <1>12. CASE Build(w)
    <2> USE <1>12, <1>a DEF Build
    <2>1. StoreType'
      BY StoreUnchanged
    <2>2. ChainType'
      BY ChainUnchanged
    <2>3. TickInv'
      <3>1. CASE \E refusal \in Refusals : Goto(w, refusal)
        BY <3>1, GotoStep DEF TickInv, Holds, Labels, Owning, Refusals, Resting, Sending
      <3>2. CASE \E n \in PendingNonces(From[cur[w]]) :
                   /\ pc' = [pc EXCEPT ![w] = "sign"]
                   /\ draft' = [draft EXCEPT ![w] = n]
                   /\ UNCHANGED <<cur, seen, retired>>
        <4>1. PendingNonces(From[cur[w]]) \subseteq Nat
          BY <1>b DEF PendingNonces, ChainType, Txs, Addresses, Resting
        <4> QED
          BY <3>2, <4>1 DEF TickInv, TickType, Holds, Labels, Owning, Resting, Sending,
               Stored, NoBytes
      <3> QED
        BY <3>1, <3>2
    <2> QED
      BY <2>1, <2>2, <2>3, TickFrame
  <1>13. CASE Sign(w)
    <2> USE <1>13, <1>a DEF Sign
    <2>1. StoreType'
      BY StoreUnchanged
    <2>2. ChainType'
      BY ChainUnchanged
    <2>3. TickInv'
      BY GotoStep DEF TickInv, Holds, Labels, Owning, Refusals, Resting, Sending
    <2> QED
      BY <2>1, <2>2, <2>3, TickFrame
  <1>14. CASE Commit(w)
    <2> USE <1>14, <1>a DEF Commit
    <2>0. draft[w] \in Nat
      BY DEF TickInv, TickType, Holds, Stored
    <2>1. StoreType'
      BY <1>b, <2>0, StoreStep DEF Resting
    <2>2. ChainType'
      BY ChainUnchanged
    <2>3. TickInv'
      <3>1. [Blank EXCEPT !.bytes = draft[w]] \in Snapshots
        BY <2>0 DEF Blank, Snapshots, Stored
      <3>2. [Blank EXCEPT !.bytes = draft[w]].bytes # NoBytes
        BY <2>0 DEF Blank, NoBytes
      <3> QED
        BY <1>b, <3>1, <3>2, HoldStep, RestStep DEF Labels, Sending, Resting
    <2> QED
      BY <2>1, <2>2, <2>3, TickFrame
  <1>15. CASE FailBuild(w)
    <2> USE <1>15, <1>a DEF FailBuild
    <2>1. StoreType'
      BY <1>b, StoreStep DEF Resting, Refusals
    <2>2. ChainType'
      BY ChainUnchanged
    <2>3. TickInv'
      BY ForgetStep, RestStep DEF TickInv, TickType, Resting
    <2> QED
      BY <2>1, <2>2, <2>3, TickFrame
  <1>16. CASE Send(w, "resend", "resent", "giveUp")
    <2> USE <1>16, <1>a DEF Send
    <2>1. StoreType'
      BY StoreUnchanged
    <2>2. ChainType'
      <3>1. <<cur[w], seen[w].bytes>> \in Txs
        BY <1>b DEF TickInv, TickType, Holds, Snapshots, Stored, Sending, Resting, Txs
      <3> QED
        BY <3>1, ChainUnchanged DEF Deliver, ChainType
    <2>3. TickInv'
      BY GotoStep, RestStep DEF Leave, TickInv, Holds, Labels, Resting, Sending
    <2> QED
      BY <2>1, <2>2, <2>3, TickFrame
  <1>17. CASE Send(w, "send", "sent", "idle")
    <2> USE <1>17, <1>a DEF Send
    <2>1. StoreType'
      BY StoreUnchanged
    <2>2. ChainType'
      <3>1. <<cur[w], seen[w].bytes>> \in Txs
        BY <1>b DEF TickInv, TickType, Holds, Snapshots, Stored, Sending, Resting, Txs
      <3> QED
        BY <3>1, ChainUnchanged DEF Deliver, ChainType
    <2>3. TickInv'
      BY GotoStep, RestStep DEF Leave, TickInv, Holds, Labels, Resting, Sending
    <2> QED
      BY <2>1, <2>2, <2>3, TickFrame
  <1>18. CASE AfterSend(w, "resent", "giveUp")
    <2> USE <1>18, <1>a DEF AfterSend
    <2>1. StoreType'
      BY <1>b, StoreStep DEF Resting
    <2>2. ChainType'
      BY ChainUnchanged
    <2>3. TickInv'
      BY GotoStep, RestStep DEF Leave, TickInv, Holds, Labels, Resting, Sending
    <2> QED
      BY <2>1, <2>2, <2>3, TickFrame
  <1>19. CASE AfterSend(w, "sent", "idle")
    <2> USE <1>19, <1>a DEF AfterSend
    <2>1. StoreType'
      BY <1>b, StoreStep DEF Resting
    <2>2. ChainType'
      BY ChainUnchanged
    <2>3. TickInv'
      BY GotoStep, RestStep DEF Leave, TickInv, Holds, Labels, Resting, Sending
    <2> QED
      BY <2>1, <2>2, <2>3, TickFrame
  <1>20. CASE Crash(w)
    <2> USE <1>20, <1>a DEF Crash
    <2>1. StoreType'
      BY StoreUnchanged
    <2>2. ChainType'
      BY ChainUnchanged
    <2>3. TickInv'
      BY RestStep
    <2> QED
      BY <2>1, <2>2, <2>3, TickFrame
  <1> QED
    BY <1>1, <1>2, <1>3, <1>4, <1>5, <1>6, <1>7, <1>8, <1>9, <1>10, <1>11, <1>12, <1>13, <1>14, <1>15, <1>16, <1>17, <1>18, <1>19, <1>20 DEF Drive

LEMMA DeskStepType ==
  ASSUME TypeInv, NEW o \in Operators, Adjudicate(o) \/ OpCrash(o)
  PROVE  TypeInv'
  <1> DEFINE Moves == \E label \in OpLabels, r \in Rows \cup {NoRow} :
                        OpGoto(o, label, r) /\ (label # "idle" => r # NoRow)
  <1>a. StoreType /\ ChainType /\ DeskInv
    BY DEF TypeInv
  <1>b. opPc[o] # "idle" => opRow[o] \in Rows /\ opRow[o] # NoRow
    BY ConstantsAssumption DEF TypeInv, DeskInv, DeskType
  <1>c. UNCHANGED <<time, chain, tick>> /\ Moves /\ StoreType' => TypeInv'
    <2> SUFFICES ASSUME UNCHANGED <<time, chain, tick>>, Moves, StoreType'
                 PROVE  TypeInv'
      OBVIOUS
    <2>1. DeskInv'
      BY <1>a DEF DeskInv, DeskType, OpGoto
    <2> QED
      BY <2>1 DEF TypeInv, time, chain, tick, TimeType, ChainType, TickInv, TickType
  <1> USE <1>a, <1>b, ConstantsAssumption DEF OpGoto, OpDone, OpLabels
  <1>1. CASE \E r \in Rows : AskToRefund(o, r) \/ AskToConfirm(o, r)
    BY <1>1, <1>c, StoreUnchanged DEF AskToRefund, AskToConfirm
  <1>2. CASE ReadReceipt(o)
    BY <1>2, <1>c, StoreUnchanged DEF ReadReceipt
  <1>3. CASE ReadNonce(o)
    BY <1>3, <1>c, StoreUnchanged DEF ReadNonce
  <1>4. CASE ReadStatus(o)
    BY <1>4, <1>c, StoreUnchanged DEF ReadStatus
  <1>5. CASE Refund(o)
    <2>1. StoreType'
      BY <1>5, StoreStep, StoreUnchanged DEF Refund
    <2> QED
      BY <1>5, <1>c, <2>1 DEF Refund
  <1>6. CASE Confirm(o)
    <2>1. StoreType'
      BY <1>6, StoreStep, StoreUnchanged DEF Confirm
    <2> QED
      BY <1>6, <1>c, <2>1 DEF Confirm
  <1>7. CASE OpMature(o)
    <2>1. StoreType'
      BY <1>7, StoreStep DEF OpMature
    <2> QED
      BY <1>7, <1>c, <2>1 DEF OpMature
  <1>8. CASE OpCrash(o)
    BY <1>8, <1>c, StoreUnchanged DEF OpCrash
  <1> QED
    BY <1>1, <1>2, <1>3, <1>4, <1>5, <1>6, <1>7, <1>8 DEF Adjudicate

LEMMA StutterType == TypeInv /\ UNCHANGED vars => TypeInv'
  BY DEF vars, store, time, chain, tick, desk, TypeInv, StoreType, TimeType, ChainType,
       TickInv, TickType, DeskInv, DeskType

LEMMA TypeStep == TypeInv /\ [Next]_vars => TypeInv'
  BY PlanningType, ChainMovesType, WorkType, DeskStepType, StutterType
     DEF Next, Work, Desk

LEMMA TypeAlways == Spec => []TypeInv
  BY TypeInit, TypeStep, PTL DEF Spec

\* Every reachable state is well typed.
THEOREM TypeCorrect == Spec => []TypeOK
  <1>1. TypeInv => TypeOK
    BY DEF TypeInv, TypeOK, TickInv, DeskInv
  <1> QED
    BY <1>1, TypeAlways, PTL

(***************************************************************************)
(* The store.  Whoever acts, the rows change only by a transaction whose   *)
(* WHERE clause holds, so what is true of the rows alone is proved from    *)
(* those transactions and not from the steps.                              *)
(***************************************************************************)
Plan == \E r \in Rows : PlanOutbound(r) \/ PlanTokenSweep(r)

Advance(r) ==
  \/ CanClaim(r) /\ ClaimForBuilding(r)
  \/ state[r] = "building" /\ ReleaseToPlanned(r)
  \/ state[r] = "building" /\ \E n \in Nat : MarkSigned(r, n)
  \/ state[r] \in Sealed /\ MarkBroadcast(r)

Settle(r) ==
  \/ state[r] \in Sealed /\ MarkStuck(r)
  \/ state[r] \in Sealed /\ Confirmed(r, ConfirmedByTick(r))
  \/ state[r] = "stuck" /\ Confirmed(r, ConfirmedByOperator(r))
  \/ state[r] \in Unsigned /\ Failed(r, "none")
  \/ state[r] \in Sealed /\ Failed(r, "chain")
  \/ state[r] = "stuck" /\ Failed(r, "operator")

Transaction ==
  \/ Plan
  \/ \E r \in Rows : Advance(r) \/ Settle(r) \/ MatureSweep(r)

LEMMA DriveTransaction ==
  ASSUME TypeInv, NEW w \in Workers, Drive(w)
  PROVE  Transaction \/ UNCHANGED store
  <1>a. pc[w] \notin Resting => cur[w] \in Rows
    BY RowInHand
  <1> USE <1>a DEF Transaction, Advance, Settle, Resting
  <1>1. CASE Tick(w) \/ Ask(w) \/ OnUnknown(w) \/ Recheck(w) \/ Pick(w) \/ Build(w) \/ Sign(w)
    BY <1>1 DEF Tick, Ask, OnUnknown, Recheck, Pick, Build, Sign
  <1>2. CASE OnConfirmed(w) \/ OnMature(w) \/ OnRejected(w) \/ OnPending(w) \/ GoStuck(w)
    BY <1>2 DEF OnConfirmed, OnMature, OnRejected, OnPending, GoStuck
  <1>3. CASE Claim(w)
    BY <1>3 DEF Claim
  <1>4. CASE Commit(w)
    <2>1. draft[w] \in Nat
      BY <1>4 DEF Commit, TypeInv, TickInv, TickType, Holds, Stored
    <2> QED
      BY <1>4, <2>1 DEF Commit
  <1>5. CASE FailBuild(w)
    BY <1>5 DEF FailBuild, Refusals
  <1>6. CASE Send(w, "resend", "resent", "giveUp") \/ Send(w, "send", "sent", "idle")
    BY <1>6 DEF Send
  <1>7. CASE AfterSend(w, "resent", "giveUp") \/ AfterSend(w, "sent", "idle")
    BY <1>7 DEF AfterSend
  <1> QED
    BY <1>1, <1>2, <1>3, <1>4, <1>5, <1>6, <1>7 DEF Drive

LEMMA DeskTransaction ==
  ASSUME TypeInv, NEW o \in Operators, Adjudicate(o) \/ OpCrash(o)
  PROVE  Transaction \/ UNCHANGED store
  <1>a. opPc[o] # "idle" => opRow[o] \in Rows
    BY DEF TypeInv, DeskInv, DeskType
  <1> QED
    BY <1>a DEF Transaction, Settle, Adjudicate, OpCrash, AskToRefund, AskToConfirm,
         ReadReceipt, ReadNonce, ReadStatus, Refund, Confirm, OpMature

LEMMA NextTransaction == TypeInv /\ [Next]_vars => Transaction \/ UNCHANGED store
  <1> SUFFICES ASSUME TypeInv, [Next]_vars PROVE Transaction \/ UNCHANGED store
    OBVIOUS
  <1>1. CASE Planning
    BY <1>1 DEF Planning, Transaction, Plan
  <1>2. CASE Clock \/ Chain
    BY <1>2 DEF Clock, RowTurnsOld, BroadcastTurnsOld, Chain, Mine, Bury, Reorg, Evict,
         SpendByHand
  <1>3. CASE Work
    BY <1>3, DriveTransaction DEF Work
  <1>4. CASE Desk
    BY <1>4, DeskTransaction DEF Desk
  <1>5. CASE \E w \in Workers : Crash(w)
    BY <1>5 DEF Crash
  <1>6. CASE UNCHANGED vars
    BY <1>6 DEF vars
  <1> QED
    BY <1>1, <1>2, <1>3, <1>4, <1>5, <1>6 DEF Next

\* Bytes, proofs and states go together.
RowInv(r) ==
  /\ state[r] \in {"absent", "planned", "building"} => bytes[r] = NoBytes
  /\ state[r] \in Sealed \cup {"stuck", "confirmed"} => bytes[r] # NoBytes
  /\ proof[r] # "none" => state[r] = "failed"
  /\ state[r] = "failed" /\ proof[r] = "none" => bytes[r] = NoBytes

\* What the wallet has been told of a row, by its state.
ToldInv(r) ==
  /\ Purpose[r] = "withdrawal" =>
       /\ events[r]["completed"] = (IF state[r] = "confirmed" THEN 1 ELSE 0)
       /\ events[r]["failed"] = (IF state[r] = "failed" THEN 1 ELSE 0)
  /\ state[r] = "stuck" => events[r]["stuck"] = 1
  /\ events[r]["stuck"] > 0 => state[r] \in {"stuck", "confirmed", "failed"}

StoreInv ==
  /\ OneInFlight
  /\ FundedBeforeSwept
  /\ \A r \in Rows : RowInv(r) /\ ToldInv(r)

LEMMA StoreInit == Init => StoreInv
  BY ConstantsAssumption
     DEF Init, StoreInv, OneInFlight, FundedBeforeSwept, RowInv, ToldInv, Sealed, Kinds

LEMMA InFlightStep ==
  ASSUME StoreType, StoreInv, Transaction PROVE OneInFlight'
  <1>1. CASE Plan
    BY <1>1 DEF Plan, PlanOutbound, PlanTokenSweep, Insert, StoreType, StoreInv, OneInFlight
  <1>2. ASSUME NEW r \in Rows, Advance(r) PROVE OneInFlight'
    BY <1>2 DEF Advance, CanClaim, InFlight, InFlightStates, Sealed, ClaimForBuilding,
         ReleaseToPlanned, MarkSigned, MarkBroadcast, StoreType, StoreInv, OneInFlight
  <1>3. ASSUME NEW r \in Rows, Settle(r) \/ MatureSweep(r) PROVE OneInFlight'
    <2>1. \A q \in Rows : state'[q] = state[q] \/ state'[q] \in {"stuck", "confirmed", "failed"}
      BY <1>3 DEF Settle, MarkStuck, Confirmed, Failed, MatureSweep, StoreType
    <2> QED
      BY <2>1 DEF StoreInv, OneInFlight
  <1> QED
    BY <1>1, <1>2, <1>3 DEF Transaction

LEMMA RowStep ==
  ASSUME StoreType, StoreInv, Transaction, NEW q \in Rows PROVE RowInv(q)'
  <1> USE DEF StoreInv, RowInv, StoreType, Stored
  <1>1. CASE Plan
    BY <1>1 DEF Plan, PlanOutbound, PlanTokenSweep, Insert, Sealed
  <1>2. ASSUME NEW r \in Rows, Advance(r) PROVE RowInv(q)'
    BY <1>2 DEF Advance, CanClaim, Sealed, ClaimForBuilding, ReleaseToPlanned, MarkSigned,
         MarkBroadcast, NoBytes
  <1>3. ASSUME NEW r \in Rows, Settle(r) PROVE RowInv(q)'
    BY <1>3 DEF Settle, Sealed, Unsigned, MarkStuck, Confirmed, Failed, Dependents
  <1>4. ASSUME NEW r \in Rows, MatureSweep(r) PROVE RowInv(q)'
    BY <1>4 DEF MatureSweep
  <1> QED
    BY <1>1, <1>2, <1>3, <1>4 DEF Transaction

LEMMA ToldStep ==
  ASSUME StoreType, StoreInv, Transaction, NEW q \in Rows PROVE ToldInv(q)'
  <1> USE DEF StoreInv, ToldInv, StoreType, Kinds
  <1>1. CASE Plan
    BY <1>1 DEF Plan, PlanOutbound, PlanTokenSweep, Insert
  <1>2. ASSUME NEW r \in Rows, Advance(r) \/ MatureSweep(r) PROVE ToldInv(q)'
    BY <1>2 DEF Advance, CanClaim, Sealed, ClaimForBuilding, ReleaseToPlanned, MarkSigned,
         MarkBroadcast, MatureSweep
  <1>3. ASSUME NEW r \in Rows, state[r] \in Sealed, MarkStuck(r) PROVE ToldInv(q)'
    BY <1>3 DEF MarkStuck, StuckEvents, EmitFor, Sealed
  <1>4. ASSUME NEW r \in Rows, state[r] \in Sealed \cup {"stuck"},
               Confirmed(r, ConfirmedByTick(r)) \/ Confirmed(r, ConfirmedByOperator(r))
        PROVE  ToldInv(q)'
    <2>1. PICK kinds : Confirmed(r, kinds) /\ "failed" \notin kinds /\ "stuck" \notin kinds
                         /\ (Purpose[r] = "withdrawal" => "completed" \in kinds)
      BY <1>4 DEF ConfirmedByTick, ConfirmedByOperator, SweepCompletedEvents
    <2> QED
      BY <1>4, <2>1 DEF Confirmed, EmitFor, Sealed
  <1>5. ASSUME NEW r \in Rows, NEW by, state[r] \in Unsigned \cup Sealed \cup {"stuck"},
               Failed(r, by)
        PROVE  ToldInv(q)'
    BY <1>5 DEF Failed, EmitFor, FailedKinds, Dependents, Sealed, Unsigned
  <1> QED
    BY <1>1, <1>2, <1>3, <1>4, <1>5 DEF Transaction, Settle

Funded(q, d) ==
  /\ state[q] \notin {"absent", "planned", "failed"} => state[d] = "confirmed"
  /\ state[q] = "planned" => state[d] \notin {"absent", "failed"}

LEMMA FundedStep ==
  ASSUME StoreType, StoreInv, Transaction PROVE FundedBeforeSwept'
  <1> SUFFICES ASSUME NEW q \in Rows, NEW d \in Rows, DependsOn[q] = d PROVE Funded(q, d)'
    BY DEF FundedBeforeSwept, Funded
  <1>a. Funded(q, d)
    BY DEF StoreInv, FundedBeforeSwept, Funded
  <1>b. DependsOn[q] # NoRow /\ DependsOn[d] = NoRow /\ q # d
    BY ConstantsAssumption
  <1>c. DependsOn[d] # q /\ \A r \in Rows : DependsOn[r] = q => DependsOn[q] = NoRow
    BY <1>b, ConstantsAssumption
  <1> USE <1>a, <1>b, <1>c DEF Funded, StoreType
  <1>1. CASE Plan
    <2>1. ASSUME NEW r \in Rows, PlanOutbound(r) PROVE Funded(q, d)'
      BY <2>1 DEF PlanOutbound, Insert, HasDependent
    <2>2. ASSUME NEW r \in Rows, PlanTokenSweep(r) PROVE Funded(q, d)'
      BY <2>2 DEF PlanTokenSweep, Insert
    <2> QED
      BY <1>1, <2>1, <2>2 DEF Plan
  <1>2. ASSUME NEW r \in Rows, Advance(r) PROVE Funded(q, d)'
    <2>1. CASE CanClaim(r) /\ ClaimForBuilding(r)
      BY <2>1 DEF CanClaim, DependencyConfirmed, ClaimForBuilding
    <2>2. CASE state[r] = "building" /\ ReleaseToPlanned(r)
      BY <2>2 DEF ReleaseToPlanned
    <2>3. CASE state[r] = "building" /\ \E n \in Nat : MarkSigned(r, n)
      BY <2>3 DEF MarkSigned
    <2>4. CASE state[r] \in Sealed /\ MarkBroadcast(r)
      BY <2>4 DEF MarkBroadcast, Sealed
    <2> QED
      BY <1>2, <2>1, <2>2, <2>3, <2>4 DEF Advance
  <1>3. ASSUME NEW r \in Rows, MatureSweep(r) PROVE Funded(q, d)'
    BY <1>3 DEF MatureSweep
  <1>4. ASSUME NEW r \in Rows, state[r] \in Sealed \cup {"stuck"},
               MarkStuck(r) \/ \E kinds : Confirmed(r, kinds)
        PROVE  Funded(q, d)'
    BY <1>4 DEF MarkStuck, Confirmed, Sealed
  <1>5. ASSUME NEW r \in Rows, NEW by, state[r] \in Unsigned \cup Sealed \cup {"stuck"},
               Failed(r, by)
        PROVE  Funded(q, d)'
    <2>1. q \in Dependents(r) \/ q = r => state'[q] = "failed"
      BY <1>5 DEF Failed
    <2>2. d \notin Dependents(r)
      BY ConstantsAssumption DEF Dependents
    <2>3. d = r => q \in Dependents(r) \/ state[q] # "planned"
      BY DEF Dependents
    <2> QED
      BY <1>5, <2>1, <2>2, <2>3 DEF Failed, Sealed, Unsigned
  <1> QED
    BY <1>1, <1>2, <1>3, <1>4, <1>5 DEF Transaction, Settle

LEMMA StoreInvStep == TypeInv /\ StoreInv /\ [Next]_vars => StoreInv'
  <1> SUFFICES ASSUME TypeInv, StoreInv, [Next]_vars PROVE StoreInv'
    OBVIOUS
  <1>1. CASE Transaction
    BY <1>1, InFlightStep, RowStep, ToldStep, FundedStep DEF TypeInv, StoreInv
  <1>2. CASE UNCHANGED store
    BY <1>2 DEF store, StoreInv, OneInFlight, FundedBeforeSwept, RowInv, ToldInv
  <1> QED
    BY <1>1, <1>2, NextTransaction

LEMMA StoreAlways == Spec => []StoreInv
  BY TypeAlways, StoreInit, StoreInvStep, PTL DEF Spec

\* At most one payment of the chain is between its claim and its outcome, with
\* any number of ticks running at once: the index holds without the lease.
THEOREM OneInFlightHolds == Spec => []OneInFlight
  BY StoreAlways, PTL DEF StoreInv

\* A token sweep is built only once its top-up has confirmed, and none is left
\* in the queue behind a top-up that failed.
THEOREM FundedBeforeSweptHolds == Spec => []FundedBeforeSwept
  BY StoreAlways, PTL DEF StoreInv

\* The wallet is told one outcome of a withdrawal, the one its row has.
THEOREM OneOutcomeHolds == Spec => []OneOutcome
  <1>1. StoreInv => OneOutcome
    BY DEF StoreInv, ToldInv, OneOutcome
  <1> QED
    BY <1>1, StoreAlways, PTL

\* stuck means that bytes exist, and it is announced once.
THEOREM StuckHasBytesHolds == Spec => []StuckHasBytes
  <1>1. StoreInv => StuckHasBytes
    BY DEF StoreInv, RowInv, ToldInv, StuckHasBytes
  <1> QED
    BY <1>1, StoreAlways, PTL

\* Committed bytes and the time of the broadcast are never replaced.
LEMMA BytesStay ==
  ASSUME StoreType, StoreInv, Transaction \/ UNCHANGED store, NEW q \in Rows
  PROVE  /\ bytes[q] # NoBytes => bytes'[q] = bytes[q]
         /\ sent[q] => sent'[q]
  <1> USE DEF StoreInv, RowInv, StoreType
  <1>1. CASE Plan
    BY <1>1 DEF Plan, PlanOutbound, PlanTokenSweep, Insert
  <1>2. ASSUME NEW r \in Rows, Advance(r) PROVE /\ bytes[q] # NoBytes => bytes'[q] = bytes[q]
                                                /\ sent[q] => sent'[q]
    BY <1>2 DEF Advance, ClaimForBuilding, ReleaseToPlanned, MarkSigned, MarkBroadcast
  <1>3. ASSUME NEW r \in Rows, Settle(r) \/ MatureSweep(r)
        PROVE  bytes' = bytes /\ sent' = sent
    BY <1>3 DEF Settle, MarkStuck, Confirmed, Failed, MatureSweep
  <1>4. CASE UNCHANGED store
    BY <1>4 DEF store
  <1> QED
    BY <1>1, <1>2, <1>3, <1>4 DEF Transaction

THEOREM SignedForEverHolds == Spec => SignedForEver
  <1>1. TypeInv /\ StoreInv /\ [Next]_vars =>
          [\A r \in Rows : /\ bytes[r] # NoBytes => bytes'[r] = bytes[r]
                           /\ sent[r] => sent'[r]]_vars
    BY BytesStay, NextTransaction DEF TypeInv
  <1> QED
    BY <1>1, TypeAlways, StoreAlways, PTL DEF Spec, SignedForEver

\* The deadline of a row that is past it stays past it.
LEMMA ClockAdvances ==
  ASSUME TypeInv, [Next]_vars
  PROVE  cutoff' >= cutoff /\ overdue \subseteq overdue'
  <1> USE DEF TypeInv, TimeType
  <1>1. CASE Clock
    BY <1>1 DEF Clock, RowTurnsOld, BroadcastTurnsOld
  <1>2. CASE UNCHANGED time
    BY <1>2 DEF time
  <1>3. CASE Planning
    BY <1>3 DEF Planning, PlanOutbound, PlanTokenSweep, Insert, time
  <1>4. CASE Chain
    BY <1>4, <1>2 DEF Chain, Mine, Bury, Reorg, Evict, SpendByHand, time
  <1>5. ASSUME NEW w \in Workers, Drive(w) \/ Crash(w) PROVE UNCHANGED time
    BY <1>5 DEF Drive, Crash, Tick, Ask, OnConfirmed, OnMature, OnRejected, OnPending,
         OnUnknown, GoStuck, Send, AfterSend, Recheck, Pick, Claim, Build, Sign, Commit, FailBuild
  <1>6. ASSUME NEW o \in Operators, Adjudicate(o) \/ OpCrash(o) PROVE UNCHANGED time
    BY <1>6 DEF Adjudicate, OpCrash, AskToRefund, AskToConfirm, ReadReceipt, ReadNonce,
         ReadStatus, Refund, Confirm, OpMature
  <1> QED
    BY <1>1, <1>2, <1>3, <1>4, <1>5, <1>6 DEF Next, Work, Desk, vars

\* A counted withdrawal stays counted, unless it is decided or first taken.
LEMMA CountStays ==
  ASSUME StoreType, TimeType, StoreInv, Transaction \/ UNCHANGED store,
         cutoff' \in Nat, cutoff' >= cutoff, overdue \subseteq overdue',
         NEW q \in Rows, q \in CountStuck, q \notin CountStuck'
  PROVE  state'[q] \in {"confirmed", "failed"} \/ (~sent[q] /\ sent'[q])
  <1> USE DEF StoreType, TimeType, CountStuck, DeadlinePassed, Sealed
  <1>1. CASE Plan
    BY <1>1 DEF Plan, PlanOutbound, PlanTokenSweep, Insert
  <1>2. ASSUME NEW r \in Rows, Advance(r)
        PROVE  state'[q] \in {"confirmed", "failed"} \/ (~sent[q] /\ sent'[q])
    BY <1>2 DEF Advance, CanClaim, ClaimForBuilding, ReleaseToPlanned, MarkSigned, MarkBroadcast
  <1>3. ASSUME NEW r \in Rows, Settle(r) \/ MatureSweep(r)
        PROVE  state'[q] \in {"confirmed", "failed"} \/ (~sent[q] /\ sent'[q])
    BY <1>3 DEF Settle, MarkStuck, Confirmed, Failed, Dependents, MatureSweep
  <1>4. CASE UNCHANGED store
    BY <1>4 DEF store
  <1> QED
    BY <1>1, <1>2, <1>3, <1>4 DEF Transaction

\* What withdrawal_stuck counts does not flicker, with any number of ticks and
\* operators.
THEOREM CountedUntilDecidedHolds == Spec => CountedUntilDecided
  <1>1. TypeInv /\ TypeInv' /\ StoreInv /\ [Next]_vars =>
          [\A r \in Rows : r \in CountStuck /\ r \notin CountStuck' =>
             state'[r] \in {"confirmed", "failed"} \/ (~sent[r] /\ sent'[r])]_vars
    BY CountStays, NextTransaction, ClockAdvances DEF TypeInv, TimeType
  <1> QED
    BY <1>1, TypeAlways, StoreAlways, PTL DEF Spec, CountedUntilDecided

(***************************************************************************)
(* Ticks and the chain.                                                    *)
(***************************************************************************)
\* A tick that builds owns a `building` row; the bytes a tick has read or made
\* are the committed ones.
TickSafe(w) ==
  /\ pc[w] \in Owning => state[cur[w]] = "building"
  /\ seen[w].bytes # NoBytes => cur[w] \in Rows /\ seen[w].bytes = bytes[cur[w]]

ChainInv ==
  /\ WireIsCommitted
  /\ pool \subseteq wire /\ landed \subseteq wire /\ reverted \subseteq wire
  /\ landed \cap reverted = {}

SafeInv ==
  /\ TypeInv
  /\ StoreInv
  /\ OneBuilder
  /\ \A w \in Workers : TickSafe(w)
  /\ ChainInv

LEMMA SafeInit == Init => SafeInv
  <1> SUFFICES ASSUME Init PROVE SafeInv
    OBVIOUS
  <1>1. OneBuilder /\ \A w \in Workers : TickSafe(w)
    BY DEF Init, OneBuilder, TickSafe, Owning, Refusals, Blank
  <1>2. ChainInv
    BY DEF Init, ChainInv, WireIsCommitted
  <1> QED
    BY <1>1, <1>2, TypeInit, StoreInit DEF SafeInv

\* Nobody but its owner moves a row out of `building`.
LEMMA BuildingStays ==
  ASSUME SafeInv, NEW r \in Rows, state[r] = "building",
         \/ Planning \/ Clock \/ Chain \/ Desk \/ UNCHANGED store
         \/ \E w \in Workers : Drive(w) /\ ~(pc[w] \in Owning /\ cur[w] = r)
  PROVE  state'[r] = "building"
  <1> USE DEF SafeInv, TypeInv, StoreType
  <1>1. CASE UNCHANGED store
    BY <1>1 DEF store
  <1>2. ASSUME NEW q \in Rows, q # r, NEW by,
               \/ Confirmed(q, ConfirmedByTick(q)) \/ Confirmed(q, ConfirmedByOperator(q))
               \/ MarkStuck(q) \/ MarkBroadcast(q) \/ MatureSweep(q) \/ Failed(q, by)
               \/ ClaimForBuilding(q) \/ ReleaseToPlanned(q) \/ \E n \in Nat : MarkSigned(q, n)
        PROVE  state'[r] = "building"
    BY <1>2 DEF Confirmed, MarkStuck, MarkBroadcast, MatureSweep, Failed, Dependents,
         ClaimForBuilding, ReleaseToPlanned, MarkSigned
  <1>3. CASE Planning
    BY <1>3 DEF Planning, PlanOutbound, PlanTokenSweep, Insert
  <1>4. CASE Clock \/ Chain
    BY <1>4 DEF Clock, RowTurnsOld, BroadcastTurnsOld, Chain, Mine, Bury, Reorg, Evict,
         SpendByHand, store
  <1>5. CASE Desk
    <2>1. PICK o \in Operators : Adjudicate(o) \/ OpCrash(o)
      BY <1>5 DEF Desk
    <2>2. opPc[o] # "idle" => opRow[o] \in Rows
      BY DEF DeskInv, DeskType
    <2>3. CASE opPc[o] # "idle" /\ (Refund(o) \/ Confirm(o))
      BY <1>1, <1>2, <2>2, <2>3 DEF Refund, Confirm
    <2>4. CASE OpMature(o)
      BY <2>4 DEF OpMature, MatureSweep
    <2> QED
      BY <1>1, <2>1, <2>3, <2>4 DEF Adjudicate, OpCrash, AskToRefund, AskToConfirm, ReadReceipt,
           ReadNonce, ReadStatus, Refund, Confirm
  <1>6. ASSUME NEW w \in Workers, Drive(w), ~(pc[w] \in Owning /\ cur[w] = r)
        PROVE  state'[r] = "building"
    <2>a. pc[w] \notin Resting => cur[w] \in Rows
      BY RowInHand
    <2>1. CASE Tick(w) \/ Ask(w) \/ OnUnknown(w) \/ Recheck(w) \/ Pick(w) \/ Build(w) \/ Sign(w)
      BY <1>1, <2>1 DEF Tick, Ask, OnUnknown, Recheck, Pick, Build, Sign
    <2>2. CASE OnConfirmed(w) \/ OnRejected(w) \/ OnPending(w) \/ GoStuck(w)
      BY <1>1, <1>2, <2>a, <2>2 DEF OnConfirmed, OnRejected, OnPending, GoStuck, Sealed, Resting
    <2>3. CASE OnMature(w)
      BY <2>3 DEF OnMature, MatureSweep
    <2>4. CASE Claim(w)
      BY <1>1, <1>2, <2>a, <2>4 DEF Claim, CanClaim, Resting
    <2>5. CASE Commit(w)
      <3>1. draft[w] \in Nat
        BY <2>5 DEF Commit, TickInv, TickType, Holds, Stored
      <3> QED
        BY <1>1, <1>2, <1>6, <2>a, <2>5, <3>1 DEF Commit, Owning, Resting
    <2>6. CASE FailBuild(w)
      BY <1>1, <1>2, <1>6, <2>a, <2>6 DEF FailBuild, Refusals, Owning, Resting
    <2>7. CASE Send(w, "resend", "resent", "giveUp") \/ Send(w, "send", "sent", "idle")
      BY <1>1, <2>7 DEF Send
    <2>8. CASE AfterSend(w, "resent", "giveUp") \/ AfterSend(w, "sent", "idle")
      BY <1>1, <1>2, <2>a, <2>8 DEF AfterSend, Sealed, Resting
    <2> QED
      BY <1>6, <2>1, <2>2, <2>3, <2>4, <2>5, <2>6, <2>7, <2>8 DEF Drive
  <1> QED
    BY <1>1, <1>3, <1>4, <1>5, <1>6

\* A step of one tick leaves what the others hold alone.
Holding(w) == <<pc[w], cur[w], seen[w], draft[w]>>

LEMMA OthersHold ==
  ASSUME TypeInv, NEW w \in Workers, Drive(w) \/ Crash(w), NEW v \in Workers, v # w
  PROVE  UNCHANGED Holding(v)
  <1> USE DEF Holding, TypeInv, TickInv, TickType
  <1>1. ASSUME NEW label, Goto(w, label) \/ MoveOn(w, label) \/ Forget(w, label) \/ Rest(w)
                            \/ Leave(w, label)
        PROVE  UNCHANGED Holding(v)
    BY <1>1 DEF Goto, MoveOn, Forget, Rest, Leave
  <1>2. ASSUME NEW label, NEW r, NEW s, Hold(w, label, r, s) PROVE UNCHANGED Holding(v)
    BY <1>2 DEF Hold
  <1>3. CASE Tick(w) \/ Pick(w) \/ Commit(w) \/ Recheck(w) \/ Claim(w) \/ FailBuild(w) \/ Crash(w)
    BY <1>1, <1>2, <1>3 DEF Tick, Pick, Commit, Recheck, Claim, FailBuild, Crash
  <1>4. CASE Ask(w) \/ Build(w) \/ Sign(w)
    BY <1>1, <1>4 DEF Ask, Build, Sign
  <1>5. CASE OnConfirmed(w) \/ OnMature(w) \/ OnRejected(w) \/ OnPending(w) \/ OnUnknown(w)
               \/ GoStuck(w)
    BY <1>1, <1>5 DEF OnConfirmed, OnMature, OnRejected, OnPending, OnUnknown, GoStuck
  <1>6. CASE \/ Send(w, "resend", "resent", "giveUp") \/ Send(w, "send", "sent", "idle")
             \/ AfterSend(w, "resent", "giveUp") \/ AfterSend(w, "sent", "idle")
    BY <1>1, <1>6 DEF Send, AfterSend
  <1> QED
    BY <1>3, <1>4, <1>5, <1>6 DEF Drive

\* A tick comes to own a row only by claiming it, and owns it alone.
LEMMA OwnStep ==
  ASSUME SafeInv, NEW w \in Workers, Drive(w) \/ Crash(w), pc'[w] \in Owning
  PROVE  /\ cur'[w] = cur[w]
         /\ state'[cur[w]] = "building"
         /\ \A v \in Workers : pc[v] \in Owning => v = w
  <1> USE DEF SafeInv, TypeInv, TickInv, TickType, Owning, Refusals
  <1>1. ASSUME NEW label, Goto(w, label) PROVE pc'[w] = label /\ cur'[w] = cur[w]
    BY <1>1 DEF Goto
  <1>2. ASSUME NEW label, Forget(w, label) \/ MoveOn(w, label) PROVE pc'[w] = label
    BY <1>2 DEF Forget, MoveOn
  <1>3. ASSUME Rest(w) PROVE pc'[w] = "idle"
    BY <1>3 DEF Rest, Forget
  <1>4. ASSUME NEW label, NEW r, NEW s, Hold(w, label, r, s) PROVE pc'[w] = label
    BY <1>4 DEF Hold
  <1>5. CASE Claim(w)
    <2>1. CanClaim(cur[w]) /\ ClaimForBuilding(cur[w]) /\ Goto(w, "build")
      BY <1>3, <1>5 DEF Claim
    <2>2. cur[w] \in Rows
      BY <1>5 DEF Claim, Holds, Resting
    <2>3. state'[cur[w]] = "building"
      BY <2>1, <2>2 DEF ClaimForBuilding, StoreType
    <2>4. \A v \in Workers : pc[v] \notin Owning
      <3> SUFFICES ASSUME NEW v \in Workers, pc[v] \in Owning PROVE FALSE
        OBVIOUS
      <3>1. state[cur[v]] = "building"
        BY DEF TickSafe
      <3>2. cur[v] \in Rows
        BY DEF Holds, Resting
      <3> QED
        BY <2>1, <3>1, <3>2 DEF CanClaim, InFlight, InFlightStates
    <2> QED
      BY <1>1, <2>1, <2>3, <2>4
  <1>6. CASE Build(w) \/ Sign(w)
    <2>1. UNCHANGED <<store, cur>> /\ pc[w] \in Owning
      BY <1>6 DEF Build, Sign, Goto
    <2> QED
      BY <2>1 DEF TickSafe, OneBuilder, store
  <1>7. CASE Tick(w) \/ Pick(w) \/ Commit(w)
    <2>1. pc'[w] \in {"ask", "pick", "claim", "idle", "send"}
      BY <1>1, <1>3, <1>4, <1>7 DEF Tick, Pick, Commit
    <2> QED
      BY <2>1
  <1>11. CASE Recheck(w) \/ FailBuild(w) \/ Crash(w)
    BY <1>1, <1>2, <1>3, <1>11 DEF Recheck, FailBuild, Crash
  <1>8. CASE Ask(w)
    <2>1. PICK answer \in Answers(cur[w], seen[w].bytes) : pc' = [pc EXCEPT ![w] = answer]
      BY <1>8 DEF Ask
    <2>2. answer \in Advising
      BY <2>1, AnswersAdvise
    <2>3. pc'[w] \in Advising /\ UNCHANGED store /\ cur' = cur
      BY <2>1, <2>2, <1>8 DEF Ask
    <2> QED
      BY <2>3 DEF Advising
  <1>9. CASE OnConfirmed(w) \/ OnMature(w) \/ OnRejected(w) \/ OnPending(w) \/ OnUnknown(w)
               \/ GoStuck(w)
    BY <1>1, <1>2, <1>9 DEF OnConfirmed, OnMature, OnRejected, OnPending, OnUnknown, GoStuck
  <1>10. CASE \/ Send(w, "resend", "resent", "giveUp") \/ Send(w, "send", "sent", "idle")
              \/ AfterSend(w, "resent", "giveUp") \/ AfterSend(w, "sent", "idle")
    BY <1>1, <1>3, <1>10 DEF Send, AfterSend, Leave
  <1> QED
    BY <1>5, <1>6, <1>7, <1>8, <1>9, <1>10, <1>11 DEF Drive

\* The bytes a tick goes on with are those it had, none, or the ones its row has.
LEMMA SeenStep ==
  ASSUME SafeInv, NEW w \in Workers, Drive(w) \/ Crash(w), seen'[w].bytes # NoBytes
  PROVE  cur'[w] \in Rows /\ seen'[w].bytes = bytes'[cur'[w]]
  <1> USE DEF SafeInv, TypeInv
  <1>a. ASSUME NEW r \in Rows, bytes[r] # NoBytes PROVE bytes'[r] = bytes[r]
    BY <1>a, BytesStay, NextTransaction DEF Next, Work
  <1>b. TickType
    BY DEF TickInv
  <1> DEFINE Keeps == cur'[w] = cur[w] /\ seen'[w].bytes = seen[w].bytes
             Drops == seen'[w] = Blank
  <1>1. Keeps => cur'[w] \in Rows /\ seen'[w].bytes = bytes'[cur'[w]]
    BY <1>a DEF TickSafe
  <1>2. ~Drops
    BY DEF Blank
  <1>3. ASSUME NEW label, Goto(w, label) PROVE Keeps
    BY <1>3 DEF Goto
  <1>4. ASSUME NEW label, Forget(w, label) \/ MoveOn(w, label) \/ Rest(w) PROVE Drops
    BY <1>4, <1>b DEF Forget, MoveOn, Rest, TickType
  <1>5. ASSUME NEW r \in Rows, NEW label, NEW s, Hold(w, label, r, s)
        PROVE  cur'[w] = r /\ seen'[w] = s
    BY <1>5, <1>b DEF Hold, TickType
  <1>6. CASE Tick(w)
    <2>1. CASE \E r \in InFlight :
                 Hold(w, "ask", r, [bytes |-> bytes[r], sent |-> sent[r], late |-> FALSE])
      <3>1. PICK r \in Rows :
              Hold(w, "ask", r, [bytes |-> bytes[r], sent |-> sent[r], late |-> FALSE])
        BY <2>1 DEF InFlight
      <3>2. cur'[w] = r /\ seen'[w].bytes = bytes[r]
        BY <1>5, <3>1
      <3>3. bytes' = bytes
        BY <1>6 DEF Tick, store
      <3> QED
        BY <3>2, <3>3
    <2>2. CASE Goto(w, "pick")
      BY <1>1, <1>3, <2>2
    <2> QED
      BY <1>6, <2>1, <2>2 DEF Tick
  <1>7. CASE Ask(w)
    <2>1. Keeps
      BY <1>7, <1>b DEF Ask, TickType, Snapshots
    <2> QED
      BY <1>1, <2>1
  <1>8. CASE Commit(w)
    <2>1. CASE Rest(w)
      BY <1>2, <1>4, <2>1
    <2>2. CASE MarkSigned(cur[w], draft[w])
                 /\ Hold(w, "send", cur[w], [Blank EXCEPT !.bytes = draft[w]])
      <3>1. cur[w] \in Rows
        BY <1>8, RowInHand DEF Commit, Resting
      <3>2. seen'[w].bytes = draft[w] /\ cur'[w] = cur[w]
        BY <1>5, <2>2, <3>1 DEF Blank
      <3>3. bytes'[cur[w]] = draft[w]
        BY <2>2, <3>1 DEF MarkSigned, StoreType
      <3> QED
        BY <3>1, <3>2, <3>3
    <2> QED
      BY <1>8, <2>1, <2>2 DEF Commit
  <1>9. CASE Pick(w)
    <2>1. CASE \E r \in Rows : NextPlanned(r) /\ Hold(w, "claim", r, Blank)
      BY <1>2, <1>5, <2>1
    <2> QED
      BY <1>2, <1>4, <1>9, <2>1 DEF Pick
  <1>10. CASE Recheck(w) \/ Claim(w) \/ Sign(w) \/ FailBuild(w) \/ Crash(w) \/ OnUnknown(w)
    BY <1>1, <1>2, <1>3, <1>4, <1>10 DEF Recheck, Claim, Sign, FailBuild, Crash, OnUnknown
  <1>11. CASE Build(w)
    BY <1>1, <1>3, <1>11 DEF Build
  <1>12. CASE OnConfirmed(w) \/ OnMature(w) \/ OnRejected(w) \/ OnPending(w) \/ GoStuck(w)
    BY <1>1, <1>2, <1>3, <1>4, <1>12 DEF OnConfirmed, OnMature, OnRejected, OnPending, GoStuck
  <1>13. CASE \/ Send(w, "resend", "resent", "giveUp") \/ Send(w, "send", "sent", "idle")
              \/ AfterSend(w, "resent", "giveUp") \/ AfterSend(w, "sent", "idle")
    BY <1>1, <1>2, <1>3, <1>4, <1>13 DEF Send, AfterSend, Leave
  <1> QED
    BY <1>6, <1>7, <1>8, <1>9, <1>10, <1>11, <1>12, <1>13 DEF Drive

\* The ticks stay safe, whoever moves.
LEMMA TicksStep ==
  ASSUME SafeInv, [Next]_vars
  PROVE  OneBuilder' /\ \A v \in Workers : TickSafe(v)'
  <1> USE DEF SafeInv, TypeInv
  <1>a. ASSUME NEW r \in Rows, bytes[r] # NoBytes PROVE bytes'[r] = bytes[r]
    BY <1>a, BytesStay, NextTransaction
  <1>b. ASSUME NEW v \in Workers, pc[v] \in Owning PROVE cur[v] \in Rows /\ state[cur[v]] = "building"
    BY <1>b, RowInHand DEF TickSafe, Owning, Refusals, Resting
  <1>1. CASE \/ Planning \/ Clock \/ Chain \/ Desk \/ UNCHANGED vars
    <2>1. UNCHANGED tick
      BY <1>1 DEF Planning, PlanOutbound, PlanTokenSweep, Insert, Clock, RowTurnsOld,
           BroadcastTurnsOld, Chain, Mine, Bury, Reorg, Evict, SpendByHand, Desk, Adjudicate,
           OpCrash, AskToRefund, AskToConfirm, ReadReceipt, ReadNonce, ReadStatus, Refund,
           Confirm, OpMature, vars
    <2>2. ASSUME NEW v \in Workers PROVE TickSafe(v)'
      <3>1. pc[v] \in Owning => state'[cur[v]] = "building"
        BY <1>1, <1>b, BuildingStays DEF vars
      <3> QED
        BY <1>a, <2>1, <3>1 DEF TickSafe, tick
    <2> QED
      BY <2>1, <2>2 DEF OneBuilder, tick
  <1>2. ASSUME NEW w \in Workers, Drive(w) \/ Crash(w)
        PROVE  OneBuilder' /\ \A v \in Workers : TickSafe(v)'
    <2>1. ASSUME NEW v \in Workers, v # w PROVE TickSafe(v)'
      <3>1. UNCHANGED <<pc[v], cur[v], seen[v]>>
        BY <1>2, <2>1, OthersHold DEF Holding
      <3>2. pc[v] \in Owning => state'[cur[v]] = "building"
        <4>1. CASE Crash(w)
          BY <4>1, <1>b DEF Crash, store
        <4>2. CASE Drive(w)
          BY <1>b, <2>1, <4>2, BuildingStays DEF OneBuilder
        <4> QED
          BY <1>2, <4>1, <4>2
      <3> QED
        BY <1>a, <3>1, <3>2 DEF TickSafe
    <2>2. TickSafe(w)'
      BY <1>2, OwnStep, SeenStep DEF TickSafe
    <2>3. OneBuilder'
      <3>1. ASSUME NEW v \in Workers, v # w PROVE pc'[v] = pc[v]
        BY <1>2, <3>1, OthersHold DEF Holding
      <3> QED
        BY <1>2, <3>1, OwnStep DEF OneBuilder
    <2> QED
      BY <2>1, <2>2, <2>3
  <1> QED
    BY <1>1, <1>2 DEF Next, Work

\* Nothing but a tick's send gives a transaction to a node.
LEMMA WireStep ==
  ASSUME SafeInv, [Next]_vars PROVE ChainInv'
  <1> USE DEF SafeInv, TypeInv
  <1>a. ASSUME NEW r \in Rows, bytes[r] # NoBytes PROVE bytes'[r] = bytes[r]
    BY <1>a, BytesStay, NextTransaction
  <1>b. \A tx \in wire : bytes'[tx[1]] = tx[2]
    BY <1>a DEF ChainInv, WireIsCommitted, ChainType, Txs, NoBytes
  <1>1. CASE UNCHANGED chain
    BY <1>1, <1>b DEF ChainInv, WireIsCommitted, chain
  <1>2. CASE Chain
    <2>1. UNCHANGED wire
      BY <1>2 DEF Chain, Mine, Bury, Reorg, Evict, SpendByHand
    <2>2. ASSUME NEW tx \in wire, Mine(tx) \/ Bury(tx) \/ Reorg(tx) \/ Evict(tx)
          PROVE  ChainInv'
      BY <1>b, <2>1, <2>2 DEF Mine, Bury, Reorg, Evict, Mined, ChainInv, WireIsCommitted
    <2>3. ASSUME NEW a \in Addresses, SpendByHand(a) PROVE ChainInv'
      BY <1>b, <2>1, <2>3 DEF SpendByHand, ChainInv, WireIsCommitted
    <2> QED
      BY <1>2, <2>2, <2>3 DEF Chain
  <1>3. ASSUME NEW w \in Workers,
               Send(w, "resend", "resent", "giveUp") \/ Send(w, "send", "sent", "idle")
        PROVE  ChainInv'
    <2>1. bytes' = bytes
      BY <1>3 DEF Send, store
    <2>2. bytes[cur[w]] = seen[w].bytes
      BY <1>3 DEF Send, TickInv, Holds, Sending, TickSafe
    <2>3. CASE Deliver(<<cur[w], seen[w].bytes>>)
      BY <1>b, <2>1, <2>2, <2>3 DEF Deliver, ChainInv, WireIsCommitted
    <2> QED
      BY <1>1, <1>3, <2>3 DEF Send
  <1>4. ASSUME NEW w \in Workers, Drive(w) \/ Crash(w)
        PROVE  \/ UNCHANGED chain
               \/ Send(w, "resend", "resent", "giveUp") \/ Send(w, "send", "sent", "idle")
    BY <1>4 DEF Drive, Crash, Tick, Ask, OnConfirmed, OnMature, OnRejected, OnPending, OnUnknown,
         GoStuck, AfterSend, Recheck, Pick, Claim, Build, Sign, Commit, FailBuild
  <1>5. CASE Planning \/ Clock \/ Desk \/ UNCHANGED vars
    BY <1>1, <1>5 DEF Planning, PlanOutbound, PlanTokenSweep, Insert, Clock, RowTurnsOld,
         BroadcastTurnsOld, Desk, Adjudicate, OpCrash, AskToRefund, AskToConfirm, ReadReceipt,
         ReadNonce, ReadStatus, Refund, Confirm, OpMature, vars
  <1> QED
    BY <1>1, <1>2, <1>3, <1>4, <1>5 DEF Next, Work

LEMMA SafeStep == SafeInv /\ [Next]_vars => SafeInv'
  BY TypeStep, StoreInvStep, TicksStep, WireStep DEF SafeInv

LEMMA SafeAlways == Spec => []SafeInv
  BY SafeInit, SafeStep, PTL DEF Spec

\* A row in `building` is in the hands of one tick at most, so one signature at
\* most is ever committed for it.
THEOREM OneBuilderHolds == Spec => []OneBuilder
  BY SafeAlways, PTL DEF SafeInv

\* Commit before broadcast: no node is ever given anything but the one
\* transaction committed on its row.
THEOREM WireIsCommittedHolds == Spec => []WireIsCommitted
  BY SafeAlways, PTL DEF SafeInv, ChainInv

\* What markFailed refunds was never signed, and no node has it.
THEOREM UnprovenRefundIsUnsignedHolds == Spec => []UnprovenRefundIsUnsigned
  <1>1. SafeInv => UnprovenRefundIsUnsigned
    BY DEF SafeInv, TypeInv, ChainType, Txs, NoBytes, StoreInv, RowInv, ChainInv,
         WireIsCommitted, UnprovenRefundIsUnsigned
  <1> QED
    BY <1>1, SafeAlways, PTL

-----------------------------------------------------------------------------
(***************************************************************************)
(* What a row is told is what the chain did: theorems about confirmations, *)
(* refunds and nonces.  Between the answer of the chain and the UPDATE     *)
(* that acts on it there are awaits, so the invariant follows the answer   *)
(* while a tick or an adjudication holds it.                               *)
(***************************************************************************)
Applied  == landed \cap deep
Verdicts == {"confirmed", "rejected"}

\* The answer a tick holds, and the one an adjudication holds, still stand.
Confirms(w) == pc[w] = "confirmed" => <<cur[w], seen[w].bytes>> \in Applied
Rejects(w)  == pc[w] = "rejected" => <<cur[w], seen[w].bytes>> \in reverted
Resolves(o) == opPc[o] = "confirm" => <<opRow[o], bytes[opRow[o]]>> \in Applied

\* A refund on the word of the chain is of a reverted transaction.
RefundReverted(r) == state[r] = "failed" /\ proof[r] = "chain" => <<r, bytes[r]>> \in reverted

ConfirmInv ==
  /\ ConfirmedHasLanded
  /\ \A w \in Workers : Confirms(w)
  /\ \A o \in Operators : Resolves(o)

RejectInv ==
  /\ \A r \in Rows : RefundReverted(r)
  /\ \A w \in Workers : Rejects(w)

\* At its depth a transaction stays applied, and without reorganisations so
\* does every other.
LEMMA AppliedStays ==
  ASSUME [Next]_vars
  PROVE  /\ Applied \subseteq Applied'
         /\ MaxReorgs = 0 /\ reorgs \in Nat => landed \subseteq landed' /\ reverted \subseteq reverted'
  <1> USE DEF Applied
  <1>1. CASE UNCHANGED chain
    BY <1>1 DEF chain
  <1>2. CASE Chain
    BY <1>2 DEF Chain, Mine, Bury, Reorg, Evict, SpendByHand
  <1>3. ASSUME NEW w \in Workers, Drive(w) \/ Crash(w)
        PROVE  UNCHANGED <<landed, reverted, deep>>
    BY <1>3 DEF Drive, Crash, Tick, Ask, OnConfirmed, OnMature, OnRejected, OnPending, OnUnknown,
         GoStuck, Send, Deliver, AfterSend, Recheck, Pick, Claim, Build, Sign, Commit, FailBuild,
         chain
  <1>4. CASE Planning \/ Clock \/ Desk \/ UNCHANGED vars
    BY <1>1, <1>4 DEF Planning, PlanOutbound, PlanTokenSweep, Insert, Clock, RowTurnsOld,
         BroadcastTurnsOld, Desk, Adjudicate, OpCrash, AskToRefund, AskToConfirm, ReadReceipt,
         ReadNonce, ReadStatus, Refund, Confirm, OpMature, vars
  <1> QED
    BY <1>2, <1>3, <1>4 DEF Next, Work

\* A tick comes to a verdict only by asking for it.
LEMMA VerdictAsked ==
  ASSUME TypeInv, [Next]_vars, NEW w \in Workers, pc'[w] \in Verdicts
  PROVE  Ask(w) \/ UNCHANGED Holding(w)
  <1> USE DEF Verdicts
  <1>1. CASE Planning \/ Clock \/ Chain \/ Desk \/ UNCHANGED vars
    BY <1>1 DEF Planning, PlanOutbound, PlanTokenSweep, Insert, Clock, RowTurnsOld,
         BroadcastTurnsOld, Chain, Mine, Bury, Reorg, Evict, SpendByHand, Desk, Adjudicate,
         OpCrash, AskToRefund, AskToConfirm, ReadReceipt, ReadNonce, ReadStatus, Refund,
         Confirm, OpMature, vars, tick, Holding
  <1>2. ASSUME NEW v \in Workers, Drive(v) \/ Crash(v), v # w PROVE UNCHANGED Holding(w)
    BY <1>2, OthersHold
  <1>3. CASE Drive(w) \/ Crash(w)
    <2>a. pc \in [Workers -> Labels]
      BY DEF TypeInv, TickInv, TickType
    <2>1. ASSUME NEW label, label \notin Verdicts,
                 Goto(w, label) \/ Forget(w, label) \/ MoveOn(w, label) \/ Leave(w, label)
          PROVE  FALSE
      BY <2>1, <2>a DEF Goto, Forget, MoveOn, Leave, Rest
    <2>6. ASSUME NEW label, NEW r, NEW s, label \notin Verdicts, Hold(w, label, r, s)
          PROVE  FALSE
      BY <2>6, <2>a DEF Hold
    <2>7. ~Rest(w)
      BY <2>a DEF Rest, Forget
    <2>2. CASE Tick(w) \/ Pick(w) \/ Commit(w)
      <3>1. Tick(w) => FALSE
        BY <2>a DEF Tick, Hold, Goto
      <3>2. Pick(w) => FALSE
        BY <2>1, <2>6, <2>7 DEF Pick
      <3>3. Commit(w) => FALSE
        BY <2>1, <2>6, <2>7 DEF Commit
      <3> QED
        BY <2>2, <3>1, <3>2, <3>3
    <2>8. CASE Recheck(w) \/ Claim(w) \/ FailBuild(w) \/ Crash(w)
      BY <2>1, <2>7, <2>8 DEF Recheck, Claim, FailBuild, Crash
    <2>3. CASE Build(w) \/ Sign(w)
      BY <2>1, <2>a, <2>3 DEF Build, Sign, Refusals
    <2>4. CASE OnConfirmed(w) \/ OnMature(w) \/ OnRejected(w) \/ OnPending(w) \/ OnUnknown(w)
                 \/ GoStuck(w)
      BY <2>1, <2>4 DEF OnConfirmed, OnMature, OnRejected, OnPending, OnUnknown, GoStuck
    <2>5. CASE \/ Send(w, "resend", "resent", "giveUp") \/ Send(w, "send", "sent", "idle")
               \/ AfterSend(w, "resent", "giveUp") \/ AfterSend(w, "sent", "idle")
      BY <2>1, <2>5 DEF Send, AfterSend
    <2> QED
      BY <1>3, <2>2, <2>3, <2>4, <2>5, <2>8 DEF Drive
  <1> QED
    BY <1>1, <1>2, <1>3 DEF Next, Work

\* What the chain says is so when it says it.
LEMMA AnswersTrue ==
  ASSUME NEW r, NEW n, NEW answer \in Answers(r, n)
  PROVE  /\ answer = "confirmed" => <<r, n>> \in Applied
         /\ answer = "rejected" => <<r, n>> \in reverted
  <1> DEFINE tx == <<r, n>>
  <1> USE DEF Answers, Applied
  <1>1. CASE n = NoBytes
    BY <1>1
  <1>2. CASE n # NoBytes /\ tx \in reverted
    BY <1>2
  <1>3. CASE n # NoBytes /\ tx \notin reverted /\ tx \in landed /\ tx \in deep
    BY <1>3
  <1>4. CASE n # NoBytes /\ tx \notin reverted /\ tx \in landed \ deep
    BY <1>4
  <1>5. CASE n # NoBytes /\ tx \notin reverted /\ tx \notin landed
    BY <1>5
  <1> QED
    BY <1>1, <1>2, <1>3, <1>4, <1>5

LEMMA AskTrue ==
  ASSUME TypeInv, NEW w \in Workers, Ask(w)
  PROVE  /\ pc'[w] = "confirmed" => <<cur'[w], seen'[w].bytes>> \in Applied
         /\ pc'[w] = "rejected" => <<cur'[w], seen'[w].bytes>> \in reverted
  <1>1. PICK answer \in Answers(cur[w], seen[w].bytes) : pc' = [pc EXCEPT ![w] = answer]
    BY DEF Ask
  <1>2. pc'[w] = answer /\ cur'[w] = cur[w] /\ seen'[w].bytes = seen[w].bytes
    BY <1>1 DEF Ask, TypeInv, TickInv, TickType, Snapshots
  <1> QED
    BY <1>1, <1>2, AnswersTrue

(***************************************************************************)
(* Who writes an outcome.                                                  *)
(***************************************************************************)
ByTick(r, label) == \E w \in Workers : pc[w] = label /\ cur[w] = r /\ state[r] \in Sealed

ByOperator(r) == \E o \in Operators : opPc[o] = "confirm" /\ opRow[o] = r /\ state[r] = "stuck"

ChainRefund(r) == state[r] = "failed" /\ proof[r] = "chain"

Outcome(r) ==
  /\ state'[r] = "confirmed" => state[r] = "confirmed" \/ ByTick(r, "confirmed") \/ ByOperator(r)
  /\ ChainRefund(r)' => ChainRefund(r) \/ ByTick(r, "rejected")

\* Transactions that write neither outcome.
LEMMA NoOutcome ==
  ASSUME StoreType, NEW r \in Rows, NEW q \in Rows,
         \/ \E S \in SUBSET Rows : Insert(S)
         \/ ClaimForBuilding(q) \/ ReleaseToPlanned(q)
         \/ \E n \in Nat : MarkSigned(q, n)
         \/ MarkBroadcast(q) \/ MarkStuck(q) \/ MatureSweep(q)
         \/ UNCHANGED store
  PROVE  Outcome(r)
  BY DEF Outcome, ChainRefund, Insert, ClaimForBuilding, ReleaseToPlanned, MarkSigned,
     MarkBroadcast, MarkStuck, MatureSweep, store, StoreType

LEMMA FailedOutcome ==
  ASSUME StoreType, StoreInv, NEW r \in Rows, NEW q \in Rows, NEW by, Failed(q, by),
         by = "chain" => ByTick(q, "rejected")
  PROVE  Outcome(r)
  <1>1. state'[r] # "confirmed" \/ state[r] = "confirmed"
    BY DEF Failed, StoreType
  <1>2. CASE r = q
    BY <1>1, <1>2 DEF Failed, Outcome, ChainRefund, StoreType
  <1>3. CASE r # q
    <2>1. proof'[r] = proof[r]
      BY <1>3 DEF Failed, StoreType
    <2> QED
      BY <1>1, <2>1 DEF Outcome, ChainRefund, StoreInv, RowInv
  <1> QED
    BY <1>2, <1>3

LEMMA ConfirmedOutcome ==
  ASSUME StoreType, NEW r \in Rows, NEW q \in Rows, NEW kinds, Confirmed(q, kinds),
         ByTick(q, "confirmed") \/ ByOperator(q)
  PROVE  Outcome(r)
  BY DEF Confirmed, Outcome, ChainRefund, StoreType

LEMMA OutcomeStep ==
  ASSUME TypeInv, StoreInv, [Next]_vars, NEW r \in Rows
  PROVE  Outcome(r)
  <1>a. StoreType
    BY DEF TypeInv
  <1> USE <1>a, NoOutcome
  <1>1. CASE Planning
    BY <1>1, ConstantsAssumption DEF Planning, PlanOutbound, PlanTokenSweep
  <1>2. CASE Clock \/ Chain \/ UNCHANGED vars \/ \E w \in Workers : Crash(w)
    BY <1>2 DEF Clock, RowTurnsOld, BroadcastTurnsOld, Chain, Mine, Bury, Reorg, Evict,
         SpendByHand, Crash, vars
  <1>3. ASSUME NEW w \in Workers, Drive(w) PROVE Outcome(r)
    <2>a. pc[w] \notin Resting => cur[w] \in Rows
      BY RowInHand
    <2> USE <2>a DEF Resting
    <2>1. CASE Tick(w) \/ Ask(w) \/ OnUnknown(w) \/ Recheck(w) \/ Pick(w) \/ Build(w) \/ Sign(w)
                 \/ Send(w, "resend", "resent", "giveUp") \/ Send(w, "send", "sent", "idle")
      BY <2>1 DEF Tick, Ask, OnUnknown, Recheck, Pick, Build, Sign, Send
    <2>2. CASE OnConfirmed(w)
      BY <2>2, ConfirmedOutcome DEF OnConfirmed, ByTick
    <2>3. CASE OnRejected(w)
      BY <2>3, FailedOutcome DEF OnRejected, ByTick
    <2>4. CASE OnMature(w) \/ OnPending(w) \/ GoStuck(w)
                 \/ AfterSend(w, "resent", "giveUp") \/ AfterSend(w, "sent", "idle")
      BY <2>4 DEF OnMature, OnPending, GoStuck, AfterSend
    <2>5. CASE Claim(w)
      BY <2>5 DEF Claim
    <2>6. CASE Commit(w)
      <3>1. draft[w] \in Nat
        BY <2>6 DEF Commit, TypeInv, TickInv, TickType, Holds, Stored
      <3> QED
        BY <2>6, <3>1 DEF Commit
    <2>7. CASE FailBuild(w)
      BY <2>7, FailedOutcome DEF FailBuild, Refusals
    <2> QED
      BY <1>3, <2>1, <2>2, <2>3, <2>4, <2>5, <2>6, <2>7 DEF Drive
  <1>4. ASSUME NEW o \in Operators, Adjudicate(o) \/ OpCrash(o) PROVE Outcome(r)
    <2>a. opPc[o] # "idle" => opRow[o] \in Rows
      BY DEF TypeInv, DeskInv, DeskType
    <2>1. CASE Refund(o)
      BY <2>1, <2>a, FailedOutcome DEF Refund
    <2>2. CASE Confirm(o)
      BY <2>2, <2>a, ConfirmedOutcome DEF Confirm, ByOperator
    <2>3. CASE OpMature(o)
      BY <2>3, <2>a DEF OpMature
    <2> QED
      BY <1>4, <2>1, <2>2, <2>3 DEF Adjudicate, OpCrash, AskToRefund, AskToConfirm, ReadReceipt,
           ReadNonce, ReadStatus
  <1> QED
    BY <1>1, <1>2, <1>3, <1>4 DEF Next, Work, Desk

\* An operator comes to confirm only on the answer of the chain.
LEMMA ResolveAsked ==
  ASSUME TypeInv, [Next]_vars, NEW o \in Operators, opPc'[o] = "confirm"
  PROVE  /\ opRow'[o] = opRow[o] /\ opRow[o] \in Rows
         /\ \/ opPc[o] = "confirm"
            \/ <<opRow[o], bytes[opRow[o]]>> \in Applied /\ bytes[opRow[o]] # NoBytes
  <1>a. DeskType /\ ChainType
    BY DEF TypeInv, DeskInv
  <1>b. opPc[o] # "idle" => opRow[o] \in Rows
    BY DEF TypeInv, DeskInv, DeskType
  <1>1. CASE UNCHANGED desk
    BY <1>1, <1>b DEF desk
  <1>2. ASSUME NEW p \in Operators, Adjudicate(p) \/ OpCrash(p), p # o PROVE UNCHANGED <<opPc[o], opRow[o]>>
    BY <1>2, <1>a DEF Adjudicate, OpCrash, AskToRefund, AskToConfirm, ReadReceipt, ReadNonce,
         ReadStatus, Refund, Confirm, OpMature, OpDone, OpGoto, DeskType
  <1>3. CASE ReadStatus(o)
    <2>1. PICK answer \in Answers(opRow[o], bytes[opRow[o]]) :
            IF answer = "confirmed" THEN OpGoto(o, "confirm", opRow[o]) ELSE OpDone(o)
      BY <1>3 DEF ReadStatus
    <2>2. answer = "confirmed" /\ opRow'[o] = opRow[o]
      BY <2>1, <1>a DEF OpGoto, OpDone, DeskType
    <2>3. <<opRow[o], bytes[opRow[o]]>> \in Applied
      BY <2>2, AnswersTrue
    <2>4. bytes[opRow[o]] # NoBytes
      BY <2>3, <1>a DEF Applied, ChainType, Txs, NoBytes
    <2> QED
      BY <1>3, <1>b, <2>2, <2>3, <2>4 DEF ReadStatus
  <1>4. CASE Adjudicate(o) \/ OpCrash(o)
    BY <1>3, <1>4, <1>a DEF Adjudicate, OpCrash, AskToRefund, AskToConfirm, ReadReceipt, ReadNonce,
         Refund, Confirm, OpMature, OpDone, OpGoto, DeskType
  <1>5. CASE Planning \/ Clock \/ Chain \/ Work \/ (\E w \in Workers : Crash(w)) \/ UNCHANGED vars
    <2>1. ASSUME NEW w \in Workers, Drive(w) \/ Crash(w) PROVE UNCHANGED desk
      BY <2>1 DEF Drive, Crash, Tick, Ask, OnConfirmed, OnMature, OnRejected, OnPending, OnUnknown,
           GoStuck, Send, AfterSend, Recheck, Pick, Claim, Build, Sign, Commit, FailBuild
    <2> QED
      BY <1>1, <1>5, <2>1 DEF Planning, PlanOutbound, PlanTokenSweep, Insert, Clock, RowTurnsOld,
           BroadcastTurnsOld, Chain, Mine, Bury, Reorg, Evict, SpendByHand, Work, vars
  <1> QED
    BY <1>1, <1>2, <1>4, <1>5, <1>b DEF Next, Desk

(***************************************************************************)
(* Confirmations.                                                          *)
(***************************************************************************)
LEMMA ConfirmInit == Init => ConfirmInv
  BY DEF Init, ConfirmInv, ConfirmedHasLanded, Confirms, Resolves

LEMMA ConfirmStep == SafeInv /\ ConfirmInv /\ [Next]_vars => ConfirmInv'
  <1> SUFFICES ASSUME SafeInv, ConfirmInv, [Next]_vars PROVE ConfirmInv'
    OBVIOUS
  <1>a. TypeInv /\ StoreInv
    BY DEF SafeInv
  <1>b. \A tx \in Applied : tx \in Applied'
    BY AppliedStays
  <1>c. ASSUME NEW r \in Rows, bytes[r] # NoBytes PROVE bytes'[r] = bytes[r]
    BY <1>a, <1>c, BytesStay, NextTransaction DEF TypeInv
  <1>1. ASSUME NEW r \in Rows, state'[r] = "confirmed"
        PROVE  <<r, bytes'[r]>> \in Applied'
    <2>1. bytes[r] # NoBytes /\ <<r, bytes[r]>> \in Applied
      <3>1. CASE state[r] = "confirmed"
        BY <1>a, <3>1 DEF ConfirmInv, ConfirmedHasLanded, StoreInv, RowInv, Applied
      <3>2. CASE ByTick(r, "confirmed")
        <4>1. PICK w \in Workers : pc[w] = "confirmed" /\ cur[w] = r
          BY <3>2 DEF ByTick
        <4>2. <<r, seen[w].bytes>> \in Applied
          BY <4>1 DEF ConfirmInv, Confirms
        <4>3. seen[w].bytes # NoBytes
          BY <1>a, <4>2 DEF Applied, TypeInv, ChainType, Txs, NoBytes
        <4> QED
          BY <4>1, <4>2, <4>3 DEF SafeInv, TickSafe
      <3>3. CASE ByOperator(r)
        <4>1. state[r] = "stuck" /\ <<r, bytes[r]>> \in Applied
          BY <3>3 DEF ByOperator, ConfirmInv, Resolves
        <4> QED
          BY <1>a, <4>1 DEF StoreInv, RowInv
      <3> QED
        BY <1>a, <1>1, <3>1, <3>2, <3>3, OutcomeStep DEF Outcome
    <2> QED
      BY <1>b, <1>c, <2>1
  <1>2. ASSUME NEW w \in Workers, pc'[w] = "confirmed"
        PROVE  <<cur'[w], seen'[w].bytes>> \in Applied'
    <2>1. CASE Ask(w)
      BY <1>a, <1>b, <1>2, <2>1, AskTrue
    <2>2. CASE UNCHANGED Holding(w)
      BY <1>b, <1>2, <2>2 DEF Holding, ConfirmInv, Confirms
    <2> QED
      BY <1>a, <1>2, <2>1, <2>2, VerdictAsked DEF Verdicts
  <1>3. ASSUME NEW o \in Operators, opPc'[o] = "confirm"
        PROVE  <<opRow'[o], bytes'[opRow'[o]]>> \in Applied'
    <2>1. opRow'[o] = opRow[o] /\ opRow[o] \in Rows
      BY <1>a, <1>3, ResolveAsked
    <2>2. <<opRow[o], bytes[opRow[o]]>> \in Applied
      BY <1>a, <1>3, ResolveAsked DEF ConfirmInv, Resolves
    <2>3. bytes[opRow[o]] # NoBytes
      BY <1>a, <2>2 DEF Applied, TypeInv, ChainType, Txs, NoBytes
    <2> QED
      BY <1>b, <1>c, <2>1, <2>2, <2>3
  <1> QED
    BY <1>1, <1>2, <1>3 DEF ConfirmInv, ConfirmedHasLanded, Confirms, Resolves, Applied

\* A row is confirmed, by a tick or by an operator, only with its committed
\* transaction applied at its depth, whatever reorganisations follow.
THEOREM ConfirmedHasLandedHolds == Spec => []ConfirmedHasLanded
  <1>1. Spec => []ConfirmInv
    BY SafeAlways, ConfirmInit, ConfirmStep, PTL DEF Spec
  <1> QED
    BY <1>1, PTL DEF ConfirmInv

(***************************************************************************)
(* Refunds without an operator.                                            *)
(***************************************************************************)
LEMMA RejectInit == Init => RejectInv
  BY DEF Init, RejectInv, RefundReverted, Rejects

LEMMA RejectStep ==
  ASSUME MaxReorgs = 0
  PROVE  SafeInv /\ RejectInv /\ [Next]_vars => RejectInv'
  <1> SUFFICES ASSUME SafeInv, RejectInv, [Next]_vars PROVE RejectInv'
    OBVIOUS
  <1>a. TypeInv /\ StoreInv
    BY DEF SafeInv
  <1>b. \A tx \in reverted : tx \in reverted'
    BY <1>a, AppliedStays DEF TypeInv, ChainType
  <1>c. ASSUME NEW r \in Rows, bytes[r] # NoBytes PROVE bytes'[r] = bytes[r]
    BY <1>a, <1>c, BytesStay, NextTransaction DEF TypeInv
  <1>1. ASSUME NEW r \in Rows, ChainRefund(r)'
        PROVE  <<r, bytes'[r]>> \in reverted'
    <2>1. <<r, bytes[r]>> \in reverted
      <3>1. CASE ChainRefund(r)
        BY <3>1 DEF ChainRefund, RejectInv, RefundReverted
      <3>2. CASE ByTick(r, "rejected")
        <4>1. PICK w \in Workers : pc[w] = "rejected" /\ cur[w] = r
          BY <3>2 DEF ByTick
        <4>2. <<r, seen[w].bytes>> \in reverted
          BY <4>1 DEF RejectInv, Rejects
        <4>3. seen[w].bytes # NoBytes
          BY <1>a, <4>2 DEF TypeInv, ChainType, Txs, NoBytes
        <4> QED
          BY <4>1, <4>2, <4>3 DEF SafeInv, TickSafe
      <3> QED
        BY <1>a, <1>1, <3>1, <3>2, OutcomeStep DEF Outcome
    <2>2. bytes[r] # NoBytes
      BY <1>a, <2>1 DEF TypeInv, ChainType, Txs, NoBytes
    <2> QED
      BY <1>b, <1>c, <2>1, <2>2
  <1>2. ASSUME NEW w \in Workers, pc'[w] = "rejected"
        PROVE  <<cur'[w], seen'[w].bytes>> \in reverted'
    <2>1. CASE Ask(w)
      BY <1>a, <1>b, <1>2, <2>1, AskTrue
    <2>2. CASE UNCHANGED Holding(w)
      BY <1>b, <1>2, <2>2 DEF Holding, RejectInv, Rejects
    <2> QED
      BY <1>a, <1>2, <2>1, <2>2, VerdictAsked DEF Verdicts
  <1> QED
    BY <1>1, <1>2 DEF RejectInv, RefundReverted, Rejects, ChainRefund

\* Where no block is taken back, what worker.ts refunds by itself never lands:
\* it was never signed, or it reverted.
THEOREM AutomaticRefundNeverLandsHolds ==
  ASSUME MaxReorgs = 0
  PROVE  Spec => []AutomaticRefundNeverLands
  <1>1. Spec => []RejectInv
    BY SafeAlways, RejectInit, RejectStep, PTL DEF Spec
  <1>2. SafeInv /\ RejectInv => AutomaticRefundNeverLands
    <2> SUFFICES ASSUME SafeInv, RejectInv, NEW r \in Rows, state[r] = "failed",
                        proof[r] # "operator", NEW tx \in landed, tx[1] = r
                 PROVE  FALSE
      BY DEF AutomaticRefundNeverLands, Landed
    <2>1. tx \in Txs /\ tx \in wire /\ bytes[r] = tx[2]
      BY DEF SafeInv, TypeInv, ChainType, ChainInv, WireIsCommitted
    <2>2. tx = <<r, bytes[r]>> /\ bytes[r] # NoBytes
      BY <2>1 DEF Txs, NoBytes
    <2>3. proof[r] = "chain"
      BY <2>2 DEF SafeInv, TypeInv, StoreType, StoreInv, RowInv
    <2> QED
      BY <2>2, <2>3 DEF RejectInv, RefundReverted, SafeInv, ChainInv
  <1> QED
    BY <1>1, <1>2, SafeAlways, PTL

(***************************************************************************)
(* Nonces.  What has left the in-flight set without having been stuck was  *)
(* mined, and its nonce is below the one the chain is at; a draft starts   *)
(* from there, and no other row signs while it waits.                      *)
(***************************************************************************)
Drafting == {"sign", "commit"}

NeverStuck(q) == bytes[q] # NoBytes /\ events[q]["stuck"] = 0

Below(w, q) ==
  q # cur[w] /\ From[q] = From[cur[w]] /\ NeverStuck(q) => bytes[q] < draft[w]

NonceInv ==
  /\ NonceIsNotReused
  /\ \A tx \in Mined : tx[2] < used[From[tx[1]]]
  /\ \A r \in Rows : proof[r] = "operator" => events[r]["stuck"] > 0
  /\ \A w \in Workers : pc[w] \in Drafting => \A q \in Rows : Below(w, q)

LEMMA NonceInit == Init => NonceInv
  BY DEF Init, NonceInv, NonceIsNotReused, Mined, Drafting

\* A row that left the in-flight set with its bytes is mined, or was stuck.
LEMMA SettledIsMined ==
  ASSUME SafeInv, ConfirmInv, RejectInv, NonceInv, NEW q \in Rows,
         NeverStuck(q), state[q] \notin InFlightStates
  PROVE  bytes[q] \in Nat /\ bytes[q] < used[From[q]]
  <1> USE DEF SafeInv, TypeInv, StoreType
  <1>1. bytes[q] \in Nat
    BY DEF NeverStuck, Stored
  <1>2. state[q] \in {"confirmed", "failed"}
    BY DEF StoreInv, RowInv, ToldInv, NeverStuck, InFlightStates, States
  <1>3. proof[q] # "operator"
    BY DEF NonceInv, NeverStuck
  <1>4. <<q, bytes[q]>> \in Mined
    BY <1>2, <1>3 DEF ConfirmInv, ConfirmedHasLanded, RejectInv, RefundReverted, StoreInv, RowInv,
         NeverStuck, Mined
  <1> QED
    BY <1>1, <1>4 DEF NonceInv

\* Only a commit writes bytes, and it writes the draft.
LEMMA BytesChange ==
  ASSUME TypeInv, [Next]_vars, UNCHANGED bytes => FALSE
  PROVE  \E w \in Workers :
           /\ Commit(w) /\ state[cur[w]] = "building" /\ cur[w] \in Rows
           /\ bytes' = [bytes EXCEPT ![cur[w]] = draft[w]]
  <1>1. CASE Planning \/ Clock \/ Chain \/ UNCHANGED vars \/ \E w \in Workers : Crash(w)
    BY <1>1 DEF Planning, PlanOutbound, PlanTokenSweep, Insert, Clock, RowTurnsOld,
         BroadcastTurnsOld, Chain, Mine, Bury, Reorg, Evict, SpendByHand, Crash, vars, store
  <1>2. CASE Desk
    BY <1>2 DEF Desk, Adjudicate, OpCrash, AskToRefund, AskToConfirm, ReadReceipt, ReadNonce,
         ReadStatus, Refund, Confirm, OpMature, Failed, Confirmed, MatureSweep, store
  <1>3. ASSUME NEW w \in Workers, Drive(w), ~Commit(w) PROVE UNCHANGED bytes
    <2>1. CASE Tick(w) \/ Ask(w) \/ OnUnknown(w) \/ Recheck(w) \/ Pick(w) \/ Build(w) \/ Sign(w)
                 \/ Send(w, "resend", "resent", "giveUp") \/ Send(w, "send", "sent", "idle")
      BY <2>1 DEF Tick, Ask, OnUnknown, Recheck, Pick, Build, Sign, Send, store
    <2>2. CASE OnConfirmed(w) \/ OnRejected(w) \/ OnMature(w) \/ OnPending(w) \/ GoStuck(w)
      BY <2>2 DEF OnConfirmed, OnRejected, OnMature, OnPending, GoStuck, Confirmed, Failed,
           MatureSweep, MarkBroadcast, MarkStuck, store
    <2>3. CASE AfterSend(w, "resent", "giveUp") \/ AfterSend(w, "sent", "idle")
      BY <2>3 DEF AfterSend, MarkBroadcast, store
    <2>4. CASE Claim(w) \/ FailBuild(w)
      BY <2>4 DEF Claim, FailBuild, ClaimForBuilding, ReleaseToPlanned, Failed, store
    <2> QED
      BY <1>3, <2>1, <2>2, <2>3, <2>4 DEF Drive
  <1>4. ASSUME NEW w \in Workers, Commit(w)
        PROVE  /\ state[cur[w]] = "building" /\ cur[w] \in Rows
               /\ bytes' = [bytes EXCEPT ![cur[w]] = draft[w]]
    <2>1. cur[w] \in Rows
      BY <1>4, RowInHand DEF Commit, Resting
    <2> QED
      BY <1>4, <2>1 DEF Commit, MarkSigned, store
  <1> QED
    BY <1>1, <1>2, <1>3, <1>4 DEF Next, Work

\* A stuck event stays in the outbox, and an operator's proof comes after one.
LEMMA StuckStays ==
  ASSUME TypeInv, StoreInv, [Next]_vars, NEW r \in Rows
  PROVE  /\ events'[r]["stuck"] >= events[r]["stuck"]
         /\ proof'[r] = "operator" => proof[r] = "operator" \/ events[r]["stuck"] > 0
  <1> USE DEF TypeInv, StoreType, Kinds
  <1>1. ASSUME NEW S, NEW kinds, EmitFor(S, kinds) PROVE events'[r]["stuck"] >= events[r]["stuck"]
    BY <1>1 DEF EmitFor
  <1>2. CASE Plan
    BY <1>2 DEF Plan, PlanOutbound, PlanTokenSweep, Insert
  <1>3. ASSUME NEW q \in Rows, Advance(q) \/ MatureSweep(q) PROVE UNCHANGED <<events, proof>>
    BY <1>3 DEF Advance, ClaimForBuilding, ReleaseToPlanned, MarkSigned, MarkBroadcast, MatureSweep
  <1>4. ASSUME NEW q \in Rows, Settle(q)
        PROVE  /\ events'[r]["stuck"] >= events[r]["stuck"]
               /\ proof'[r] = "operator" => proof[r] = "operator" \/ events[r]["stuck"] > 0
    <2>1. CASE MarkStuck(q) \/ Confirmed(q, ConfirmedByTick(q)) \/ Confirmed(q, ConfirmedByOperator(q))
      BY <1>1, <2>1 DEF MarkStuck, Confirmed
    <2>2. CASE \E by \in {"none", "chain"} : Failed(q, by)
      BY <1>1, <2>2 DEF Failed
    <2>3. CASE state[q] = "stuck" /\ Failed(q, "operator")
      <3>1. events[q]["stuck"] = 1
        BY <2>3 DEF StoreInv, ToldInv
      <3> QED
        BY <1>1, <2>3, <3>1 DEF Failed
    <2> QED
      BY <1>4, <2>1, <2>2, <2>3 DEF Settle
  <1>5. CASE UNCHANGED store
    BY <1>5 DEF store
  <1> QED
    BY <1>2, <1>3, <1>4, <1>5, NextTransaction DEF Transaction

\* Without reorganisations the chain only consumes nonces, one at a time.
LEMMA UsedStep ==
  ASSUME TypeInv, MaxReorgs = 0, [Next]_vars, \A tx \in Mined : tx[2] < used[From[tx[1]]]
  PROVE  /\ \A a \in Addresses : used'[a] >= used[a]
         /\ \A tx \in Mined' : tx[2] < used'[From[tx[1]]]
  <1>a. ChainType
    BY DEF TypeInv
  <1> USE <1>a DEF ChainType, Mined
  <1>b. \A tx \in Txs : From[tx[1]] \in Addresses /\ tx[2] \in Nat
    BY DEF Txs, Addresses
  <1>1. CASE UNCHANGED <<landed, reverted, used>>
    BY <1>1
  <1>2. CASE Chain
    <2>1. ASSUME NEW tx \in wire, Mine(tx)
          PROVE  /\ \A a \in Addresses : used'[a] >= used[a]
                 /\ \A t \in Mined' : t[2] < used'[From[t[1]]]
      BY <1>b, <2>1 DEF Mine
    <2>2. ASSUME NEW a \in Addresses, SpendByHand(a)
          PROVE  /\ \A b \in Addresses : used'[b] >= used[b]
                 /\ \A t \in Mined' : t[2] < used'[From[t[1]]]
      BY <1>b, <2>2 DEF SpendByHand
    <2>3. ASSUME NEW tx \in wire PROVE ~Reorg(tx)
      BY DEF Reorg
    <2> QED
      BY <1>1, <1>2, <2>1, <2>2, <2>3 DEF Chain, Bury, Evict
  <1>3. ASSUME NEW w \in Workers, Drive(w) \/ Crash(w)
        PROVE  UNCHANGED <<landed, reverted, used>>
    BY <1>3 DEF Drive, Crash, Tick, Ask, OnConfirmed, OnMature, OnRejected, OnPending, OnUnknown,
         GoStuck, Send, Deliver, AfterSend, Recheck, Pick, Claim, Build, Sign, Commit, FailBuild,
         chain
  <1>4. CASE Planning \/ Clock \/ Desk \/ UNCHANGED vars
    BY <1>1, <1>4 DEF Planning, PlanOutbound, PlanTokenSweep, Insert, Clock, RowTurnsOld,
         BroadcastTurnsOld, Desk, Adjudicate, OpCrash, AskToRefund, AskToConfirm, ReadReceipt,
         ReadNonce, ReadStatus, Refund, Confirm, OpMature, vars, chain
  <1> QED
    BY <1>1, <1>2, <1>3, <1>4 DEF Next, Work

\* A tick holds a draft from the nonce it asked for at its build.
LEMMA DraftStep ==
  ASSUME TypeInv, [Next]_vars, NEW w \in Workers, pc'[w] \in Drafting
  PROVE  /\ cur'[w] = cur[w] /\ pc[w] \in Owning
         /\ \/ pc[w] \in Drafting /\ draft'[w] = draft[w]
            \/ UNCHANGED store /\ draft'[w] \in PendingNonces(From[cur[w]])
  <1>a. TickType
    BY DEF TypeInv, TickInv
  <1> USE <1>a DEF TickType, Drafting, Owning
  <1>1. CASE Planning \/ Clock \/ Chain \/ Desk \/ UNCHANGED vars
    BY <1>1 DEF Planning, PlanOutbound, PlanTokenSweep, Insert, Clock, RowTurnsOld,
         BroadcastTurnsOld, Chain, Mine, Bury, Reorg, Evict, SpendByHand, Desk, Adjudicate,
         OpCrash, AskToRefund, AskToConfirm, ReadReceipt, ReadNonce, ReadStatus, Refund,
         Confirm, OpMature, vars, tick
  <1>2. ASSUME NEW v \in Workers, Drive(v) \/ Crash(v), v # w PROVE UNCHANGED Holding(w)
    BY <1>2, OthersHold
  <1>3. CASE Build(w)
    BY <1>3 DEF Build, Goto, Refusals
  <1>4. CASE Sign(w)
    BY <1>4 DEF Sign, Goto, Refusals
  <1>5. CASE (Drive(w) \/ Crash(w)) /\ ~Build(w) /\ ~Sign(w)
    <2>1. ASSUME NEW label, label \notin Drafting,
                 Goto(w, label) \/ Forget(w, label) \/ MoveOn(w, label) \/ Leave(w, label)
          PROVE  FALSE
      BY <2>1 DEF Goto, Forget, MoveOn, Leave, Rest
    <2>2. ASSUME NEW label, NEW r, NEW s, label \notin Drafting, Hold(w, label, r, s)
          PROVE  FALSE
      BY <2>2 DEF Hold
    <2>3. ~Rest(w)
      BY DEF Rest, Forget
    <2>4. ~Tick(w)
      BY DEF Tick, Hold, Goto
    <2>5. ~Pick(w)
      BY <2>2, <2>3 DEF Pick
    <2>6. ~Commit(w)
      BY <2>2, <2>3 DEF Commit
    <2>7. ~Recheck(w) /\ ~Claim(w) /\ ~FailBuild(w) /\ ~Crash(w)
      BY <2>1, <2>3 DEF Recheck, Claim, FailBuild, Crash
    <2>8. ~Ask(w)
      BY AnswersAdvise DEF Ask, Advising
    <2>9. /\ ~OnConfirmed(w) /\ ~OnMature(w) /\ ~OnRejected(w) /\ ~OnPending(w) /\ ~OnUnknown(w)
          /\ ~GoStuck(w)
      BY <2>1 DEF OnConfirmed, OnMature, OnRejected, OnPending, OnUnknown, GoStuck
    <2>10. /\ ~Send(w, "resend", "resent", "giveUp") /\ ~Send(w, "send", "sent", "idle")
           /\ ~AfterSend(w, "resent", "giveUp") /\ ~AfterSend(w, "sent", "idle")
      BY <2>1 DEF Send, AfterSend
    <2> QED
      BY <1>5, <2>4, <2>5, <2>6, <2>7, <2>8, <2>9, <2>10 DEF Drive
  <1>6. UNCHANGED Holding(w) => cur'[w] = cur[w] /\ pc[w] \in Drafting /\ draft'[w] = draft[w]
    BY DEF Holding
  <1>7. UNCHANGED tick => cur'[w] = cur[w] /\ pc[w] \in Drafting /\ draft'[w] = draft[w]
    BY DEF tick
  <1>8. CASE UNCHANGED tick \/ UNCHANGED Holding(w)
    BY <1>6, <1>7, <1>8
  <1> QED
    BY <1>1, <1>2, <1>3, <1>4, <1>5, <1>8 DEF Next, Work, tick

\* A nonce the chain has reached is above every nonce that was mined.
LEMMA PendingAbove ==
  ASSUME ChainType, NEW a \in Addresses, NEW n \in PendingNonces(a)
  PROVE  n \in Nat /\ n >= used[a]
  BY DEF PendingNonces, IsPendingNonce, ChainType, Txs

LEMMA NonceStep ==
  ASSUME MaxReorgs = 0
  PROVE  SafeInv /\ ConfirmInv /\ RejectInv /\ NonceInv /\ [Next]_vars => NonceInv'
  <1> SUFFICES ASSUME SafeInv, ConfirmInv, RejectInv, NonceInv, [Next]_vars PROVE NonceInv'
    OBVIOUS
  <1>a. TypeInv /\ StoreInv /\ StoreType
    BY DEF SafeInv, TypeInv
  <1>b. /\ \A r \in Rows : events'[r]["stuck"] >= events[r]["stuck"]
        /\ \A r \in Rows : proof'[r] = "operator" => events'[r]["stuck"] > 0
    <2> SUFFICES ASSUME NEW r \in Rows
                 PROVE  /\ events'[r]["stuck"] >= events[r]["stuck"]
                        /\ proof'[r] = "operator" => events'[r]["stuck"] > 0
      OBVIOUS
    <2>1. events[r]["stuck"] \in Nat /\ events'[r]["stuck"] \in Nat
      BY <1>a, TypeStep DEF TypeInv, StoreType, Kinds
    <2> QED
      BY <1>a, <2>1, StuckStays DEF NonceInv
  <1>c. \A r \in Rows : events[r]["stuck"] \in Nat /\ events'[r]["stuck"] \in Nat
    BY <1>a, TypeStep DEF TypeInv, StoreType, Kinds
  <1>1. \A tx \in Mined' : tx[2] < used'[From[tx[1]]]
    BY <1>a, UsedStep DEF NonceInv
  \* A row about to commit is the only one in flight.
  <1>2. ASSUME NEW w \in Workers, pc[w] \in Owning, NEW q \in Rows, q # cur[w]
        PROVE  cur[w] \in Rows /\ state[cur[w]] = "building" /\ state[q] \notin InFlightStates
    <2>1. cur[w] \in Rows
      BY <1>a, <1>2, RowInHand DEF Owning, Refusals, Resting
    <2>2. state[cur[w]] = "building"
      BY <1>2 DEF SafeInv, TickSafe
    <2> QED
      BY <1>2, <1>a, <2>1, <2>2 DEF StoreInv, OneInFlight, InFlightStates
  <1>3. ASSUME NEW w \in Workers, pc'[w] \in Drafting, NEW q \in Rows PROVE Below(w, q)'
    <2> SUFFICES ASSUME q # cur'[w], From[q] = From[cur'[w]], NeverStuck(q)'
                 PROVE  bytes'[q] < draft'[w]
      BY DEF Below
    <2>1. cur'[w] = cur[w] /\ pc[w] \in Owning
      BY <1>a, <1>3, DraftStep
    <2>2. bytes'[q] = bytes[q] /\ NeverStuck(q)
      <3>1. bytes'[q] = bytes[q]
        <4>1. CASE UNCHANGED bytes
          BY <4>1
        <4>2. ASSUME NEW v \in Workers, state[cur[v]] = "building", cur[v] \in Rows,
                     bytes' = [bytes EXCEPT ![cur[v]] = draft[v]]
              PROVE  bytes'[q] = bytes[q]
          BY <1>2, <1>a, <2>1, <4>2 DEF StoreType, InFlightStates
        <4> QED
          BY <1>a, <4>1, <4>2, BytesChange
      <3> QED
        BY <1>b, <1>c, <3>1 DEF NeverStuck
    <2>3. CASE pc[w] \in Drafting /\ draft'[w] = draft[w]
      BY <2>1, <2>2, <2>3 DEF NonceInv, Below
    <2>4. CASE UNCHANGED store /\ draft'[w] \in PendingNonces(From[cur[w]])
      <3>1. bytes[q] \in Nat /\ bytes[q] < used[From[q]]
        BY <1>2, <2>1, <2>2, SettledIsMined
      <3>2. From[q] \in Addresses /\ used[From[q]] \in Nat
        BY <1>a DEF TypeInv, ChainType, Addresses
      <3>3. draft'[w] \in Nat /\ draft'[w] >= used[From[q]]
        BY <1>a, <2>1, <2>4, <3>2, PendingAbove DEF TypeInv
      <3> QED
        BY <2>2, <3>1, <3>2, <3>3
    <2> QED
      BY <1>a, <1>3, <2>3, <2>4, DraftStep
  <1>4. NonceIsNotReused'
    <2>1. CASE UNCHANGED bytes
      BY <1>b, <1>c, <2>1 DEF NonceInv, NonceIsNotReused
    <2>2. ASSUME NEW w \in Workers, Commit(w), cur[w] \in Rows, state[cur[w]] = "building",
                 bytes' = [bytes EXCEPT ![cur[w]] = draft[w]]
          PROVE  NonceIsNotReused'
      <3> DEFINE c == cur[w]
      <3>1. pc[w] = "commit" /\ draft[w] \in Nat
        BY <1>a, <2>2 DEF Commit, TypeInv, TickInv, TickType, Holds, Stored
      <3>2. ASSUME NEW q \in Rows, q # c, From[q] = From[c], bytes'[q] = bytes'[c],
                   bytes'[q] # NoBytes
            PROVE  events[q]["stuck"] > 0
        <4>1. bytes[q] = draft[w] /\ bytes[q] # NoBytes
          BY <1>a, <2>2, <3>2 DEF StoreType
        <4>2. Below(w, q)
          BY <3>1 DEF NonceInv, Drafting
        <4> QED
          BY <1>c, <3>1, <3>2, <4>1, <4>2 DEF Below, NeverStuck
      <3>3. ASSUME NEW q \in Rows, NEW r \in Rows, q # c, r # c, q # r, From[q] = From[r],
                   bytes'[q] = bytes'[r], bytes'[q] # NoBytes
            PROVE  events[q]["stuck"] + events[r]["stuck"] > 0
        BY <1>a, <2>2, <3>3 DEF StoreType, NonceInv, NonceIsNotReused
      <3>4. ASSUME NEW q \in Rows, NEW r \in Rows, q # r, From[q] = From[r],
                   bytes'[q] = bytes'[r], bytes'[q] # NoBytes
            PROVE  events'[q]["stuck"] + events'[r]["stuck"] > 0
        <4>1. events[q]["stuck"] + events[r]["stuck"] > 0
          BY <1>c, <3>2, <3>3, <3>4
        <4> QED
          BY <1>b, <1>c, <4>1
      <3> QED
        BY <3>4 DEF NonceIsNotReused
    <2> QED
      BY <1>a, <2>1, <2>2, BytesChange
  <1> QED
    BY <1>b, <1>1, <1>3, <1>4 DEF NonceInv

\* Where no block is taken back, two payments of one address are never signed
\* with one nonce, unless one of them was given up as stuck.
THEOREM NonceIsNotReusedHolds ==
  ASSUME MaxReorgs = 0
  PROVE  Spec => []NonceIsNotReused
  <1>1. Spec => [](SafeInv /\ ConfirmInv /\ RejectInv /\ NonceInv)
    BY SafeInit, SafeStep, ConfirmInit, ConfirmStep, RejectInit, RejectStep, NonceInit, NonceStep,
       PTL DEF Spec
  <1> QED
    BY <1>1, PTL DEF NonceInv

-----------------------------------------------------------------------------
(***************************************************************************)
(* The outbound machine implements Payout, for every set of rows and of    *)
(* ticks, on a chain that takes no block back and without an operator; and *)
(* who may move a row that has been signed.                                *)
(***************************************************************************)
(***************************************************************************)
(* Who moves a signed or a stuck row.                                      *)
(***************************************************************************)
\* A row leaves `stuck` by an operator's transaction only.
LEMMA StuckMovedByDesk ==
  ASSUME TypeInv, [Next]_vars, NEW r \in Rows, state[r] = "stuck", state'[r] # "stuck"
  PROVE  tick' = tick
  <1>a. StoreType
    BY DEF TypeInv
  <1> USE <1>a DEF StoreType
  <1>1. CASE Planning \/ Clock \/ Chain \/ UNCHANGED vars \/ \E w \in Workers : Crash(w)
    BY <1>1 DEF Planning, PlanOutbound, PlanTokenSweep, Insert, Clock, RowTurnsOld,
         BroadcastTurnsOld, Chain, Mine, Bury, Reorg, Evict, SpendByHand, Crash, vars, store
  <1>2. CASE Desk
    BY <1>2 DEF Desk, Adjudicate, OpCrash, AskToRefund, AskToConfirm, ReadReceipt, ReadNonce,
         ReadStatus, Refund, Confirm, OpMature
  <1>3. ASSUME NEW w \in Workers, Drive(w) PROVE FALSE
    <2>a. pc[w] \notin Resting => cur[w] \in Rows
      BY RowInHand
    <2> USE <2>a DEF Resting
    <2>1. CASE Tick(w) \/ Ask(w) \/ OnUnknown(w) \/ Recheck(w) \/ Pick(w) \/ Build(w) \/ Sign(w)
                 \/ Send(w, "resend", "resent", "giveUp") \/ Send(w, "send", "sent", "idle")
      BY <2>1 DEF Tick, Ask, OnUnknown, Recheck, Pick, Build, Sign, Send, store
    <2>2. CASE OnConfirmed(w) \/ OnPending(w) \/ GoStuck(w)
      BY <2>2 DEF OnConfirmed, OnPending, GoStuck, Confirmed, MarkBroadcast, MarkStuck, Sealed, store
    <2>3. CASE OnRejected(w)
      BY <2>3 DEF OnRejected, Failed, Dependents, Sealed, store
    <2>4. CASE OnMature(w)
      BY <2>4 DEF OnMature, MatureSweep
    <2>5. CASE AfterSend(w, "resent", "giveUp") \/ AfterSend(w, "sent", "idle")
      BY <2>5 DEF AfterSend, MarkBroadcast, Sealed, store
    <2>6. CASE Claim(w)
      BY <2>6 DEF Claim, CanClaim, ClaimForBuilding, store
    <2>7. CASE Commit(w)
      BY <2>7 DEF Commit, MarkSigned, store
    <2>8. CASE FailBuild(w)
      BY <2>8 DEF FailBuild, ReleaseToPlanned, Failed, Dependents, Unsigned, Refusals, store
    <2> QED
      BY <1>3, <2>1, <2>2, <2>3, <2>4, <2>5, <2>6, <2>7, <2>8 DEF Drive
  <1> QED
    BY <1>1, <1>2, <1>3 DEF Next, Work

\* A signed row fails only with the proof its transaction writes.
LEMMA SealedFailsProven ==
  ASSUME TypeInv, StoreInv, [Next]_vars, NEW r \in Rows,
         state[r] \in Sealed \cup {"stuck"}, state'[r] = "failed"
  PROVE  proof[r] = "none" /\ proof'[r] # "none"
  <1> USE DEF TypeInv, StoreType, Sealed, Unsigned
  <1>1. proof[r] = "none"
    BY DEF StoreInv, RowInv
  <1>2. CASE UNCHANGED store
    BY <1>2 DEF store
  <1>3. CASE Plan
    BY <1>3 DEF Plan, PlanOutbound, PlanTokenSweep, Insert
  <1>4. ASSUME NEW q \in Rows, Advance(q) \/ MatureSweep(q) PROVE FALSE
    BY <1>4 DEF Advance, CanClaim, ClaimForBuilding, ReleaseToPlanned, MarkSigned, MarkBroadcast,
         MatureSweep
  <1>5. ASSUME NEW q \in Rows, Settle(q) PROVE proof'[r] # "none"
    BY <1>5 DEF Settle, MarkStuck, Confirmed, Failed, Dependents
  <1> QED
    BY <1>1, <1>2, <1>3, <1>4, <1>5, NextTransaction DEF Transaction

\* A signed row fails only with a proof written in the same transaction, and no
\* tick moves a stuck one.
THEOREM SignedFailsOnlyWithProofHolds == Spec => SignedFailsOnlyWithProof
  <1>1. TypeInv /\ StoreInv /\ [Next]_vars =>
          [\A r \in Rows :
             /\ state[r] \in Sealed \cup {"stuck"} /\ state'[r] = "failed"
                  => proof[r] = "none" /\ proof'[r] # "none"
             /\ state[r] = "stuck" /\ state'[r] # "stuck" => tick' = tick]_vars
    BY StuckMovedByDesk, SealedFailsProven
  <1> QED
    BY <1>1, TypeAlways, StoreAlways, PTL DEF Spec, SignedFailsOnlyWithProof

(***************************************************************************)
(* The refinement.                                                         *)
(***************************************************************************)
Asked == {r \in Withdrawals : state[r] # "absent"}
Paid  == {tx[1] : tx \in landed} \cap Withdrawals
Tales == [r \in Withdrawals |-> Told(r)]

\* The wallet is told exactly what the row is.
LEMMA ToldIsState ==
  ASSUME StoreInv, NEW r \in Withdrawals
  PROVE  Told(r) = IF state[r] = "confirmed" THEN "completed"
                   ELSE IF state[r] = "failed" THEN "failed" ELSE "nothing"
  <1>1. /\ events[r]["completed"] = (IF state[r] = "confirmed" THEN 1 ELSE 0)
        /\ events[r]["failed"] = (IF state[r] = "failed" THEN 1 ELSE 0)
    BY DEF StoreInv, ToldInv, Withdrawals
  <1> QED
    BY <1>1 DEF Told

NoDesk == \A r \in Rows : proof[r] # "operator"

LEMMA NoDeskInit == Init => NoDesk
  BY DEF Init, NoDesk

LEMMA NoDeskStep ==
  ASSUME Operators = {}
  PROVE  TypeInv /\ NoDesk /\ [Next]_vars => NoDesk'
  <1> SUFFICES ASSUME TypeInv, NoDesk, [Next]_vars PROVE NoDesk'
    OBVIOUS
  <1> USE DEF NoDesk, TypeInv, StoreType
  <1>1. CASE UNCHANGED proof
    BY <1>1
  <1>2. CASE Planning \/ Clock \/ Chain \/ UNCHANGED vars \/ \E w \in Workers : Crash(w)
    BY <1>1, <1>2 DEF Planning, PlanOutbound, PlanTokenSweep, Insert, Clock, RowTurnsOld,
         BroadcastTurnsOld, Chain, Mine, Bury, Reorg, Evict, SpendByHand, Crash, vars, store
  <1>3. ASSUME NEW q \in Rows, NEW by \in {"none", "chain"}, Failed(q, by) PROVE NoDesk'
    BY <1>3 DEF Failed
  <1>4. ASSUME NEW w \in Workers, Drive(w) PROVE NoDesk'
    <2>a. pc[w] \notin Resting => cur[w] \in Rows
      BY RowInHand
    <2> USE <2>a DEF Resting
    <2>1. CASE Tick(w) \/ Ask(w) \/ OnUnknown(w) \/ Recheck(w) \/ Pick(w) \/ Build(w) \/ Sign(w)
                 \/ Send(w, "resend", "resent", "giveUp") \/ Send(w, "send", "sent", "idle")
      BY <1>1, <2>1 DEF Tick, Ask, OnUnknown, Recheck, Pick, Build, Sign, Send, store
    <2>2. CASE OnConfirmed(w) \/ OnPending(w) \/ GoStuck(w) \/ OnMature(w)
      BY <1>1, <2>2 DEF OnConfirmed, OnPending, GoStuck, OnMature, Confirmed, MarkBroadcast,
           MarkStuck, MatureSweep, store
    <2>3. CASE OnRejected(w)
      BY <1>1, <1>3, <2>3 DEF OnRejected, store
    <2>4. CASE AfterSend(w, "resent", "giveUp") \/ AfterSend(w, "sent", "idle")
      BY <1>1, <2>4 DEF AfterSend, MarkBroadcast, store
    <2>5. CASE Claim(w) \/ Commit(w)
      BY <1>1, <2>5 DEF Claim, ClaimForBuilding, Commit, MarkSigned, store
    <2>6. CASE FailBuild(w)
      BY <1>1, <1>3, <2>6 DEF FailBuild, ReleaseToPlanned, Refusals, store
    <2> QED
      BY <1>4, <2>1, <2>2, <2>3, <2>4, <2>5, <2>6 DEF Drive
  <1> QED
    BY <1>2, <1>4 DEF Next, Work, Desk

\* The store and the receipts of the chain do not change in one step.
LEMMA LandedStep ==
  ASSUME TypeInv, MaxReorgs = 0, [Next]_vars
  PROVE  \/ UNCHANGED landed
         \/ UNCHANGED store /\ \E tx \in wire \ Mined : landed' = landed \cup {tx}
  <1>1. CASE Chain
    <2>1. ASSUME NEW tx \in wire PROVE ~Reorg(tx)
      BY DEF Reorg, TypeInv, ChainType
    <2> QED
      BY <1>1, <2>1 DEF Chain, Mine, Bury, Evict, SpendByHand, store
  <1>2. ASSUME NEW w \in Workers, Drive(w) \/ Crash(w) PROVE UNCHANGED landed
    BY <1>2 DEF Drive, Crash, Tick, Ask, OnConfirmed, OnMature, OnRejected, OnPending, OnUnknown,
         GoStuck, Send, Deliver, AfterSend, Recheck, Pick, Claim, Build, Sign, Commit, FailBuild,
         chain
  <1>3. CASE Planning \/ Clock \/ Desk \/ UNCHANGED vars
    BY <1>3 DEF Planning, PlanOutbound, PlanTokenSweep, Insert, Clock, RowTurnsOld,
         BroadcastTurnsOld, Desk, Adjudicate, OpCrash, AskToRefund, AskToConfirm, ReadReceipt,
         ReadNonce, ReadStatus, Refund, Confirm, OpMature, vars, chain
  <1> QED
    BY <1>1, <1>2, <1>3 DEF Next, Work

PayoutInv ==
  SafeInv /\ ConfirmInv /\ RejectInv /\ NoDesk /\ AutomaticRefundNeverLands

PayoutStep == [Promise!Next]_<<Asked, Paid, Tales>>

\* Mining the transaction of a withdrawal pays it.
LEMMA MinePays ==
  ASSUME PayoutInv, UNCHANGED store, NEW tx \in wire \ Mined, landed' = landed \cup {tx}
  PROVE  PayoutStep
  <1> USE DEF PayoutInv, SafeInv, TypeInv
  <1>1. tx \in Txs /\ tx = <<tx[1], bytes[tx[1]]>> /\ tx[1] \in Rows /\ bytes[tx[1]] # NoBytes
    BY DEF ChainInv, WireIsCommitted, ChainType, Txs, NoBytes
  <1>2. Asked' = Asked /\ Tales' = Tales
    BY DEF Asked, Tales, Told, store
  <1>3. Paid' = Paid \cup ({tx[1]} \cap Withdrawals)
    BY DEF Paid
  <1>4. CASE tx[1] \notin Withdrawals
    BY <1>2, <1>3, <1>4 DEF PayoutStep
  <1>5. CASE tx[1] \in Withdrawals
    <2> DEFINE r == tx[1]
    <2>1. r \notin Paid
      <3> SUFFICES ASSUME NEW t \in landed, t[1] = r PROVE FALSE
        BY DEF Paid
      <3>1. t \in Txs /\ t = <<r, bytes[r]>>
        BY DEF ChainInv, WireIsCommitted, ChainType, Txs
      <3> QED
        BY <1>1, <3>1 DEF Mined
    <2>2. state[r] # "absent"
      BY <1>1 DEF StoreInv, RowInv
    <2>3. state[r] # "confirmed"
      BY <1>1 DEF ConfirmInv, ConfirmedHasLanded, Mined
    <2>4. state[r] # "failed"
      <3>1. CASE proof[r] = "none"
        BY <1>1, <3>1 DEF StoreInv, RowInv
      <3>2. CASE proof[r] = "chain"
        BY <1>1, <3>2 DEF RejectInv, RefundReverted, Mined
      <3> QED
        BY <1>1, <3>1, <3>2 DEF NoDesk, StoreType
    <2>5. Told(r) = "nothing"
      BY <1>5, <2>3, <2>4, ToldIsState
    <2>6. Promise!Pay(r)
      BY <1>2, <1>3, <1>5, <2>1, <2>2, <2>5 DEF Promise!Pay, Promise!Open, Asked, Paid, Tales
    <2> QED
      BY <1>5, <2>6 DEF PayoutStep, Promise!Next
  <1> QED
    BY <1>4, <1>5

\* Planning a withdrawal is asking for it; no other planning is seen.
LEMMA PlanAsks ==
  ASSUME PayoutInv, PayoutInv', Plan, UNCHANGED landed
  PROVE  PayoutStep
  <1> USE DEF PayoutInv, SafeInv, TypeInv, StoreType
  <1>1. Paid' = Paid
    BY DEF Paid
  <1>2. Tales' = Tales
    BY DEF Plan, PlanOutbound, PlanTokenSweep, Insert, Tales, Told
  <1>3. ASSUME NEW r \in Rows, PlanOutbound(r) PROVE PayoutStep
    <2>1. Asked' = Asked \cup ({r} \cap Withdrawals) /\ r \notin Asked
      <3>1. state[r] = "absent" /\ state' = [q \in Rows |-> IF q = r THEN "planned" ELSE state[q]]
        BY <1>3 DEF PlanOutbound, Insert
      <3> QED
        BY <3>1 DEF Asked, Withdrawals
    <2>2. CASE r \in Withdrawals
      <3>1. Promise!Ask(r)
        BY <1>1, <1>2, <2>1, <2>2 DEF Promise!Ask, Asked, Paid, Tales
      <3> QED
        BY <2>2, <3>1 DEF PayoutStep, Promise!Next
    <2>3. CASE r \notin Withdrawals
      BY <1>1, <1>2, <2>1, <2>3 DEF PayoutStep
    <2> QED
      BY <2>2, <2>3
  <1>4. ASSUME NEW r \in Rows, PlanTokenSweep(r) PROVE PayoutStep
    <2>1. r \notin Withdrawals /\ DependsOn[r] \notin Withdrawals
      BY <1>4, ConstantsAssumption DEF PlanTokenSweep, Withdrawals
    <2>2. Asked' = Asked
      BY <1>4, <2>1 DEF PlanTokenSweep, Insert, Asked, Withdrawals
    <2> QED
      BY <1>1, <1>2, <2>2 DEF PayoutStep
  <1> QED
    BY <1>3, <1>4 DEF Plan

\* The same of the next state, and of the tales of all.
LEMMA ToldIsNext ==
  ASSUME StoreInv', NEW r \in Withdrawals
  PROVE  Told(r)' = IF state'[r] = "confirmed" THEN "completed"
                    ELSE IF state'[r] = "failed" THEN "failed" ELSE "nothing"
  <1>1. /\ events'[r]["completed"] = (IF state'[r] = "confirmed" THEN 1 ELSE 0)
        /\ events'[r]["failed"] = (IF state'[r] = "failed" THEN 1 ELSE 0)
    BY DEF StoreInv, ToldInv, Withdrawals
  <1> QED
    BY <1>1 DEF Told

\* A step that leaves every withdrawal where it is, or moves it between the
\* states in which nothing is known of it, is not seen.
Seen(q) == IF state[q] \in {"absent", "confirmed", "failed"} THEN state[q] ELSE "open"

LEMMA QuietStep ==
  ASSUME StoreInv, StoreInv', UNCHANGED landed, \A q \in Withdrawals : Seen(q)' = Seen(q)
  PROVE  PayoutStep
  <1>1. Asked' = Asked
    BY DEF Asked, Seen, Withdrawals
  <1>2. ASSUME NEW q \in Withdrawals PROVE Told(q)' = Told(q)
    BY ToldIsState, ToldIsNext DEF Seen
  <1>3. Tales' = Tales
    BY <1>2 DEF Tales, Withdrawals
  <1> QED
    BY <1>1, <1>3 DEF Paid, PayoutStep, Withdrawals

\* A step that settles one withdrawal tells its outcome and no other.
LEMMA SettledStep ==
  ASSUME PayoutInv, PayoutInv', UNCHANGED landed, NEW r \in Rows,
         state[r] \notin {"absent", "confirmed", "failed"},
         state'[r] \in {"confirmed", "failed"},
         \A q \in Withdrawals \ {r} : Seen(q)' = Seen(q)
  PROVE  PayoutStep
  <1> USE DEF PayoutInv, SafeInv
  <1>1. CASE r \notin Withdrawals
    BY <1>1, QuietStep
  <1>2. CASE r \in Withdrawals
    <2>1. Asked' = Asked /\ Paid' = Paid /\ r \in Asked
      BY <1>2 DEF Asked, Paid, Seen, Withdrawals
    <2>2. ASSUME NEW q \in Withdrawals, q # r PROVE Told(q)' = Told(q)
      BY <2>2, ToldIsState, ToldIsNext DEF Seen
    <2>3. Tales' = [Tales EXCEPT ![r] = Told(r)']
      BY <2>2 DEF Tales, Withdrawals
    <2>4. Told(r) = "nothing"
      BY <1>2, ToldIsState
    <2>5. CASE state'[r] = "confirmed"
      <3>1. Told(r)' = "completed"
        BY <1>2, <2>5, ToldIsNext
      <3>2. <<r, bytes'[r]>> \in landed
        BY <2>5 DEF ConfirmInv, ConfirmedHasLanded
      <3>3. r \in Paid
        BY <1>2, <3>2 DEF Paid
      <3>4. Promise!Complete(r)
        BY <1>2, <2>1, <2>3, <2>4, <3>1, <3>3
           DEF Promise!Complete, Promise!Open, Asked, Paid, Tales
      <3> QED
        BY <1>2, <3>4 DEF PayoutStep, Promise!Next
    <2>6. CASE state'[r] = "failed"
      <3>1. Told(r)' = "failed"
        BY <1>2, <2>6, ToldIsNext
      <3>2. \A tx \in landed : tx[1] # r
        BY <2>6 DEF AutomaticRefundNeverLands, Landed, NoDesk
      <3>3. r \notin Paid
        BY <3>2 DEF Paid
      <3>4. Promise!GiveBack(r)
        BY <1>2, <2>1, <2>3, <2>4, <3>1, <3>3
           DEF Promise!GiveBack, Promise!Open, Asked, Paid, Tales
      <3> QED
        BY <1>2, <3>4 DEF PayoutStep, Promise!Next
    <2> QED
      BY <2>5, <2>6
  <1> QED
    BY <1>1, <1>2

LEMMA TransactionSeen ==
  ASSUME PayoutInv, PayoutInv', Transaction, UNCHANGED landed
  PROVE  PayoutStep
  <1>a. StoreInv /\ StoreInv' /\ StoreType
    BY DEF PayoutInv, SafeInv, TypeInv
  <1> USE <1>a DEF StoreType
  <1>1. CASE Plan
    BY <1>1, PlanAsks
  <1>2. ASSUME NEW r \in Rows, Advance(r) \/ MatureSweep(r) \/ (state[r] \in Sealed /\ MarkStuck(r))
        PROVE  PayoutStep
    <2>1. \A q \in Rows : Seen(q)' = Seen(q)
      BY <1>2 DEF Advance, CanClaim, ClaimForBuilding, ReleaseToPlanned, MarkSigned, MarkBroadcast,
           MatureSweep, MarkStuck, Sealed, Seen
    <2> QED
      BY <2>1, QuietStep DEF Withdrawals
  <1>3. ASSUME NEW r \in Rows, state[r] \in Sealed \cup {"stuck"}, NEW kinds, Confirmed(r, kinds)
        PROVE  PayoutStep
    <2>1. state'[r] = "confirmed" /\ \A q \in Rows \ {r} : state'[q] = state[q]
      BY <1>3 DEF Confirmed
    <2> QED
      BY <1>3, <2>1, SettledStep DEF Seen, Sealed, Withdrawals
  <1>4. ASSUME NEW r \in Rows, state[r] \in Unsigned \cup Sealed \cup {"stuck"}, NEW by, Failed(r, by)
        PROVE  PayoutStep
    <2>1. state'[r] = "failed" /\ \A q \in Rows \ {r} : q \notin Dependents(r) => state'[q] = state[q]
      BY <1>4 DEF Failed
    <2>2. \A q \in Withdrawals : q \notin Dependents(r)
      BY ConstantsAssumption DEF Dependents, Withdrawals
    <2> QED
      BY <1>4, <2>1, <2>2, SettledStep DEF Seen, Sealed, Unsigned, Withdrawals
  <1> QED
    BY <1>1, <1>2, <1>3, <1>4 DEF Transaction, Settle

LEMMA PayoutNext ==
  ASSUME MaxReorgs = 0
  PROVE  PayoutInv /\ PayoutInv' /\ [Next]_vars => PayoutStep
  <1> SUFFICES ASSUME PayoutInv, PayoutInv', [Next]_vars PROVE PayoutStep
    OBVIOUS
  <1>a. TypeInv /\ StoreInv /\ StoreInv'
    BY DEF PayoutInv, SafeInv
  <1>1. CASE UNCHANGED store /\ \E tx \in wire \ Mined : landed' = landed \cup {tx}
    BY <1>1, MinePays
  <1>2. CASE UNCHANGED landed /\ UNCHANGED store
    BY <1>a, <1>2, QuietStep DEF Seen, store
  <1>3. CASE UNCHANGED landed /\ Transaction
    BY <1>3, TransactionSeen
  <1> QED
    BY <1>a, <1>1, <1>2, <1>3, LandedStep, NextTransaction

LEMMA PayoutInit == Init => Promise!Init
  BY DEF Init, Promise!Init, Told, Kinds, Withdrawals

\* What the wallet sees of worker.ts is what Payout promises it: a withdrawal is
\* paid at most once, and the one outcome it is told is true for ever.
THEOREM KeepsThePromiseHolds ==
  ASSUME MaxReorgs = 0, Operators = {}
  PROVE  Spec => KeepsThePromise
  <1>1. Spec => []PayoutInv
    BY SafeAlways, ConfirmInit, ConfirmStep, RejectInit, RejectStep, NoDeskInit, NoDeskStep,
       AutomaticRefundNeverLandsHolds, PTL DEF Spec, PayoutInv, SafeInv
  <1>2. PayoutInv /\ PayoutInv' /\ [Next]_vars =>
          [Promise!Next]_<<{r \in Withdrawals : state[r] # "absent"},
                           {tx[1] : tx \in landed} \cap Withdrawals,
                           [r \in Withdrawals |-> Told(r)]>>
    BY PayoutNext DEF PayoutStep, Asked, Paid, Tales
  <1> QED
    BY <1>1, <1>2, PayoutInit, PTL DEF Spec, KeepsThePromise, Promise!Spec
=============================================================================
