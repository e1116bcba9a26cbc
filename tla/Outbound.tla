------------------------------ MODULE Outbound ------------------------------
(***************************************************************************)
(* The outbound state machine of one (chain, network): the rows of         *)
(* outbound_transactions (outbound.ts), the tick that drives them          *)
(* (worker.ts), the operator's adjudication of a stuck row                 *)
(* (adjudicate.ts) and the account-nonce chain they are sent to (evm.ts).  *)
(*                                                                         *)
(* Every await of the code is the end of a step, so what a worker holds in *)
(* memory (the row it read, the answer of the chain, a signature nobody    *)
(* committed yet) may be stale when it acts.  Workers is a set of          *)
(* executions of driveChain: with more than one, the chain:network lease   *)
(* has already failed, and what is left is the conditional UPDATEs and the *)
(* partial unique index outbound_in_flight_uniq.                           *)
(***************************************************************************)
EXTENDS Integers

CONSTANTS
  Rows,            \* every outbound transaction this chain may be asked for
  NoRow,           \* "no row in hand", and "depends_on is null"
  Workers,         \* concurrent executions of driveChain
  Mortal,          \* those whose process may die in the middle of a tick
  Operators,       \* concurrent adjudication requests
  Purpose,         \* purpose of each row
  From,            \* from_address of each row
  DependsOn,       \* depends_on of each row
  MaxRetirements,  \* MAX_RETIREMENTS_PER_TICK
  MaxForeign,      \* bound: transactions sent from our addresses by hand
  MaxReorgs        \* bound: blocks the chain takes back

Purposes == {"withdrawal", "sweep", "gas_topup", "token_sweep"}

ASSUME ConstantsAssumption ==
  /\ NoRow \notin Rows
  /\ Purpose \in [Rows -> Purposes]
  /\ DependsOn \in [Rows -> Rows \cup {NoRow}]
  /\ \A r \in Rows :
       /\ (DependsOn[r] # NoRow) <=> (Purpose[r] = "token_sweep")
       /\ DependsOn[r] # NoRow => Purpose[DependsOn[r]] = "gas_topup"
  /\ Mortal \subseteq Workers
  /\ MaxRetirements \in Nat \ {0}
  /\ MaxForeign \in Nat
  /\ MaxReorgs \in Nat

VARIABLES
  \* outbound_transactions, outbound_adjudications and the outbox
  state,      \* state of each row; "absent" before it is planned
  createdAt,  \* created_at: the number of the transaction that planned it
  planned,    \* how many planning transactions have committed
  bytes,      \* raw_tx: the nonce inside the committed bytes, or NoBytes
  sent,       \* broadcast_at is not null
  proof,      \* who proved the refund of a signed row
  matured,    \* rows whose matured_at is set
  events,     \* how many events of each kind the outbox holds for a row
  \* the clock of the stuck deadline
  cutoff,     \* rows planned by this transaction or earlier are past it
  overdue,    \* rows whose broadcast_at is past it
  \* the chain
  wire,       \* <<row, nonce>> transactions some node has been given
  pool,       \* those our node holds unmined
  landed,     \* mined and applied
  reverted,   \* mined and reverted
  deep,       \* mined at the asset's declared depth
  used,       \* nonces an address has consumed, at 'latest'
  foreign,    \* how many of them by a transaction that is no row
  reorgs,     \* how many blocks were taken back
  \* one execution of driveChain
  pc, cur, seen, draft, retired,
  \* one execution of adjudicate
  opPc, opRow

store == <<state, createdAt, planned, bytes, sent, proof, matured, events>>
time  == <<cutoff, overdue>>
chain == <<wire, pool, landed, reverted, deep, used, foreign, reorgs>>
tick  == <<pc, cur, seen, draft, retired>>
desk  == <<opPc, opRow>>
vars  == <<store, time, chain, tick, desk>>

NoBytes   == -1
Addresses == {From[r] : r \in Rows}
Kinds     == {"completed", "failed", "stuck", "swept"}
States    == {"absent", "planned", "building", "signed", "broadcast",
              "confirmed", "stuck", "failed"}
InFlightStates == {"building", "signed", "broadcast"}
Sealed    == {"signed", "broadcast"}
Unsigned  == {"planned", "building"}

InFlight == {r \in Rows : state[r] \in InFlightStates}

(***************************************************************************)
(* The outbox: which event a transition writes, in the transaction that    *)
(* makes it.                                                               *)
(***************************************************************************)
SweepCompletedEvents == {"swept"}
StuckEvents == {"stuck"}   \* whatever the purpose

ConfirmedByTick(r) ==
  CASE Purpose[r] = "withdrawal"               -> {"completed"}
    [] Purpose[r] \in {"sweep", "token_sweep"} -> SweepCompletedEvents
    [] OTHER                                   -> {}

ConfirmedByOperator(r) ==
  CASE Purpose[r] = "sweep"      -> SweepCompletedEvents
    [] Purpose[r] = "withdrawal" -> {"completed"}
    [] OTHER                     -> {}

FailedKinds(r) == IF Purpose[r] = "withdrawal" THEN {"failed"} ELSE {}

EmitFor(S, kinds) ==
  events' = [r \in Rows |->
               IF r \in S
               THEN [k \in Kinds |->
                       events[r][k] + IF k \in kinds[r] THEN 1 ELSE 0]
               ELSE events[r]]

(***************************************************************************)
(* Planning.  A token sweep is written with the top-up that funds it.      *)
(***************************************************************************)
HasDependent(r) == \E q \in Rows : DependsOn[q] = r

Insert(S) ==
  /\ \A r \in S : state[r] = "absent"
  /\ state' = [r \in Rows |-> IF r \in S THEN "planned" ELSE state[r]]
  /\ createdAt' = [r \in Rows |-> IF r \in S THEN planned + 1 ELSE createdAt[r]]
  /\ planned' = planned + 1
  /\ UNCHANGED <<bytes, sent, proof, matured, events, time, chain, tick, desk>>

PlanOutbound(r) ==
  /\ DependsOn[r] = NoRow
  /\ ~HasDependent(r)
  /\ Insert({r})

PlanTokenSweep(r) ==
  /\ DependsOn[r] # NoRow
  /\ Insert({r, DependsOn[r]})

(***************************************************************************)
(* The store's transitions.  Each is one transaction; its WHERE clause is  *)
(* the guard of the actions that call it.                                  *)
(***************************************************************************)
\* Mutant: a top-up that has gone out counts as confirmed.
DependencyConfirmed_Sent(r) == \A d \in Rows : DependsOn[r] = d => sent[d]

DependencyConfirmed(r) == \A d \in Rows : DependsOn[r] = d => state[d] = "confirmed"

Dependents(r) == {q \in Rows : DependsOn[q] = r /\ state[q] = "planned"}

ClaimForBuilding(r) ==
  /\ state' = [state EXCEPT ![r] = "building"]
  /\ UNCHANGED <<createdAt, planned, bytes, sent, proof, matured, events>>

\* Mutant: no partial unique index under the lease.
CanClaim_NoIndex(r) == state[r] = "planned" /\ DependencyConfirmed(r)

\* Mutant: the UPDATE has lost its `and state = 'planned'`.
CanClaim_AnyState(r) == InFlight \subseteq {r} /\ DependencyConfirmed(r)

CanClaim(r) ==
  /\ state[r] = "planned"
  /\ InFlight \subseteq {r}   \* outbound_in_flight_uniq
  /\ DependencyConfirmed(r)   \* outbound_dependency_confirmed_trg

\* Mutant: the row is put back in a state the table has no name for.
ReleaseToPlanned_Queued(r) ==
  /\ state' = [state EXCEPT ![r] = "queued"]
  /\ UNCHANGED <<createdAt, planned, bytes, sent, proof, matured, events>>

ReleaseToPlanned(r) ==
  /\ state' = [state EXCEPT ![r] = "planned"]
  /\ UNCHANGED <<createdAt, planned, bytes, sent, proof, matured, events>>

MarkSigned(r, n) ==
  /\ state' = [state EXCEPT ![r] = "signed"]
  /\ bytes' = [bytes EXCEPT ![r] = n]
  /\ UNCHANGED <<createdAt, planned, sent, proof, matured, events>>

MarkBroadcast(r) ==
  /\ state' = [state EXCEPT ![r] = "broadcast"]
  /\ sent' = [sent EXCEPT ![r] = TRUE]
  /\ UNCHANGED <<createdAt, planned, bytes, proof, matured, events>>

MarkStuck(r) ==
  /\ state' = [state EXCEPT ![r] = "stuck"]
  /\ EmitFor({r}, [q \in Rows |-> StuckEvents])
  /\ UNCHANGED <<createdAt, planned, bytes, sent, proof, matured>>

Confirmed(r, kinds) ==
  /\ state' = [state EXCEPT ![r] = "confirmed"]
  /\ EmitFor({r}, [q \in Rows |-> kinds])
  /\ UNCHANGED <<createdAt, planned, bytes, sent, proof, matured>>

\* A failure and the cascade over the rows waiting on it, in one transaction.
Failed(r, by) ==
  /\ state' = [q \in Rows |-> IF q = r \/ q \in Dependents(r) THEN "failed" ELSE state[q]]
  /\ EmitFor({r} \cup Dependents(r), [q \in Rows |-> FailedKinds(q)])
  /\ proof' = [proof EXCEPT ![r] = by]
  /\ UNCHANGED <<createdAt, planned, bytes, sent, matured>>

MatureSweep(r) ==
  /\ matured' = IF state[r] = "confirmed" THEN matured \cup {r} ELSE matured
  /\ UNCHANGED <<state, createdAt, planned, bytes, sent, proof, events>>

(***************************************************************************)
(* The queue and the deadline.                                             *)
(***************************************************************************)
IsSweep(r) == Purpose[r] \in {"sweep", "token_sweep"}

\* Mutant: gas_topup is missing from the purposes the worker drives.
Offered_NoTopUps(r) ==
  state[r] = "planned" /\ Purpose[r] # "gas_topup" /\ DependencyConfirmed(r)

Offered(r) == state[r] = "planned" /\ DependencyConfirmed(r)

Ahead(q, r) ==
  \/ IsSweep(q) /\ ~IsSweep(r)
  \/ IsSweep(q) = IsSweep(r) /\ createdAt[q] < createdAt[r]

NextPlanned(r) == Offered(r) /\ \A q \in Rows : Offered(q) => ~Ahead(q, r)

\* Mutant: the deadline of a row nobody accepted yet never passes.
DeadlinePassed_OnlySent(r, wasSent) == wasSent /\ r \in overdue

\* stuckDeadlinePassed: broadcast_at ?? created_at of the row AS IT WAS READ.
DeadlinePassed(r, wasSent) ==
  \/ wasSent /\ r \in overdue
  \/ ~wasSent /\ createdAt[r] <= cutoff

\* Mutant: the level is the deadline alone, without the rows a tick has parked.
CountStuck_Overdue ==
  {r \in Rows : Purpose[r] = "withdrawal" /\ state[r] \in Sealed /\ DeadlinePassed(r, sent[r])}

\* What the gauge withdrawal_stuck reads from the rows as they are.
CountStuck ==
  {r \in Rows : /\ Purpose[r] = "withdrawal"
               /\ \/ state[r] = "stuck"
                  \/ state[r] \in Sealed /\ DeadlinePassed(r, sent[r])}

(***************************************************************************)
(* The chain.  A nonce of an address is consumed by one transaction; a     *)
(* transaction any node was ever given can be mined as long as its nonce   *)
(* is the next one.                                                        *)
(***************************************************************************)
Mined == landed \cup reverted

Rival(tx, other) == From[other[1]] = From[tx[1]] /\ other[2] = tx[2]

\* eth_getTransactionCount at 'pending': past the consecutive ones in the pool.
IsPendingNonce(a, n) ==
  LET held == {tx[2] : tx \in {t \in pool : From[t[1]] = a}}
  IN  n >= used[a] /\ n \notin held /\ \A m \in used[a] .. (n - 1) : m \in held

PendingNonces(a) ==
  {n \in {used[a]} \cup {tx[2] + 1 : tx \in pool} : IsPendingNonce(a, n)}

\* Mutant: a transaction nobody holds is taken for a rejected one.
Answers_DroppedIsRejected(r, n) ==
  LET tx == <<r, n>>
  IN  CASE n = NoBytes        -> {"unknown"}
        [] tx \in reverted    -> {"rejected"}
        [] tx \in landed      -> IF tx \in deep THEN {"confirmed", "pending"} ELSE {"pending"}
        [] tx \in pool        -> {"pending", "unknown"}
        [] OTHER              -> {"rejected"}

\* Mutant: mined is confirmed, at any depth.
Answers_NoDepth(r, n) ==
  LET tx == <<r, n>>
  IN  CASE n = NoBytes        -> {"unknown"}
        [] tx \in reverted    -> {"rejected"}
        [] tx \in landed      -> {"confirmed"}
        [] tx \in pool        -> {"pending", "unknown"}
        [] OTHER              -> {"unknown"}

\* chainStatusOf, answered by the indexer or by the node.  A transaction that
\* is only in a mempool is 'pending' to the first and 'unknown' to the second,
\* and the first may not know the depth of one it has, which is 'pending' too.
Answers(r, n) ==
  LET tx == <<r, n>>
  IN  CASE n = NoBytes                  -> {"unknown"}
        [] tx \in reverted              -> {"rejected"}
        [] tx \in landed /\ tx \in deep -> {"confirmed", "pending"}
        [] tx \in landed \ deep         -> {"pending"}
        [] tx \in pool                  -> {"pending", "unknown"}
        [] OTHER                        -> {"unknown"}

Mine(tx) ==
  /\ tx \in wire \ Mined
  /\ tx[2] = used[From[tx[1]]]
  /\ \/ landed' = landed \cup {tx} /\ UNCHANGED reverted
     \/ reverted' = reverted \cup {tx} /\ UNCHANGED landed
  /\ pool' = {other \in pool : ~Rival(tx, other)}
  /\ used' = [used EXCEPT ![From[tx[1]]] = @ + 1]
  /\ UNCHANGED <<store, time, wire, deep, foreign, reorgs, tick, desk>>

Bury(tx) ==
  /\ tx \in Mined \ deep
  /\ deep' = deep \cup {tx}
  /\ UNCHANGED <<store, time, wire, pool, landed, reverted, used, foreign, reorgs, tick, desk>>

Reorg(tx) ==
  /\ reorgs < MaxReorgs
  /\ tx \in Mined \ deep
  /\ tx[2] + 1 = used[From[tx[1]]]
  /\ landed' = landed \ {tx}
  /\ reverted' = reverted \ {tx}
  /\ used' = [used EXCEPT ![From[tx[1]]] = @ - 1]
  /\ reorgs' = reorgs + 1
  /\ UNCHANGED <<store, time, wire, pool, deep, foreign, tick, desk>>

\* Our node drops an unmined transaction; nodes elsewhere still hold it.
Evict(tx) ==
  /\ tx \in pool
  /\ pool' = pool \ {tx}
  /\ UNCHANGED <<store, time, wire, landed, reverted, deep, used, foreign, reorgs, tick, desk>>

\* An operator retires a nonce by hand, as the refusal of proveDead tells him to.
SpendByHand(a) ==
  /\ foreign < MaxForeign
  /\ foreign' = foreign + 1
  /\ pool' = {tx \in pool : From[tx[1]] # a \/ tx[2] # used[a]}
  /\ used' = [used EXCEPT ![a] = @ + 1]
  /\ UNCHANGED <<store, time, wire, landed, reverted, deep, reorgs, tick, desk>>

RowTurnsOld ==
  /\ cutoff < planned
  /\ cutoff' = cutoff + 1
  /\ UNCHANGED <<store, overdue, chain, tick, desk>>

BroadcastTurnsOld(r) ==
  /\ sent[r] /\ r \notin overdue
  /\ createdAt[r] <= cutoff
  /\ overdue' = overdue \cup {r}
  /\ UNCHANGED <<store, cutoff, chain, tick, desk>>

(***************************************************************************)
(* driveChain, one await at a time.                                        *)
(***************************************************************************)
Blank == [bytes |-> NoBytes, sent |-> FALSE, late |-> FALSE]

Goto(w, label) ==
  /\ pc' = [pc EXCEPT ![w] = label]
  /\ UNCHANGED <<cur, seen, draft, retired>>

\* The row has gone out of scope; the tick goes on from the label.
Forget(w, label) ==
  /\ pc' = [pc EXCEPT ![w] = label]
  /\ cur' = [cur EXCEPT ![w] = NoRow]
  /\ seen' = [seen EXCEPT ![w] = Blank]
  /\ draft' = [draft EXCEPT ![w] = NoBytes]

MoveOn(w, label) == Forget(w, label) /\ UNCHANGED retired

Rest(w) == Forget(w, "idle") /\ retired' = [retired EXCEPT ![w] = 0]

Leave(w, label) == IF label = "idle" THEN Rest(w) ELSE Goto(w, label)

Hold(w, label, r, snapshot) ==
  /\ pc' = [pc EXCEPT ![w] = label]
  /\ cur' = [cur EXCEPT ![w] = r]
  /\ seen' = [seen EXCEPT ![w] = snapshot]
  /\ draft' = [draft EXCEPT ![w] = NoBytes]
  /\ UNCHANGED retired

\* inFlightOnChain: the row to advance, or straight to the queue.
Tick(w) ==
  /\ pc[w] = "idle"
  /\ \/ \E r \in InFlight :
          Hold(w, "ask", r, [bytes |-> bytes[r], sent |-> sent[r], late |-> FALSE])
     \/ InFlight = {} /\ Goto(w, "pick")
  /\ UNCHANGED <<store, time, chain, desk>>

Ask(w) ==
  /\ pc[w] = "ask"
  /\ \E answer \in Answers(cur[w], seen[w].bytes) :
       pc' = [pc EXCEPT ![w] = answer]
  /\ seen' = [seen EXCEPT ![w].late = DeadlinePassed(cur[w], seen[w].sent)]
  /\ UNCHANGED <<cur, draft, retired, store, time, chain, desk>>

\* Mutant: the UPDATE of markConfirmed does not ask for the state.
OnConfirmed_AnyState(w) ==
  /\ pc[w] = "confirmed"
  /\ Confirmed(cur[w], ConfirmedByTick(cur[w]))
  /\ MoveOn(w, "recheck")
  /\ UNCHANGED <<time, chain, desk>>

OnConfirmed(w) ==
  /\ pc[w] = "confirmed"
  /\ LET r == cur[w] IN
       \/ /\ state[r] \in Sealed
          /\ Confirmed(r, ConfirmedByTick(r))
          /\ IF Purpose[r] = "sweep" THEN Goto(w, "mature") ELSE MoveOn(w, "recheck")
       \/ state[r] \notin Sealed /\ UNCHANGED store /\ MoveOn(w, "recheck")
  /\ UNCHANGED <<time, chain, desk>>

OnMature(w) ==
  /\ pc[w] = "mature"
  /\ MatureSweep(cur[w])
  /\ MoveOn(w, "recheck")
  /\ UNCHANGED <<time, chain, desk>>

\* Mutant: a rejection goes through markFailed, which records no proof.
OnRejected_NoProof(w) ==
  /\ pc[w] = "rejected"
  /\ \/ state[cur[w]] \in Sealed /\ Failed(cur[w], "none")
     \/ state[cur[w]] \notin Sealed /\ UNCHANGED store
  /\ MoveOn(w, "recheck")
  /\ UNCHANGED <<time, chain, desk>>

OnRejected(w) ==
  /\ pc[w] = "rejected"
  /\ \/ state[cur[w]] \in Sealed /\ Failed(cur[w], "chain")
     \/ state[cur[w]] \notin Sealed /\ UNCHANGED store
  /\ MoveOn(w, "recheck")
  /\ UNCHANGED <<time, chain, desk>>

OnPending(w) ==
  /\ pc[w] = "pending"
  /\ \/ state[cur[w]] \in Sealed /\ MarkBroadcast(cur[w])
     \/ state[cur[w]] \notin Sealed /\ UNCHANGED store
  /\ Goto(w, "giveUp")
  /\ UNCHANGED <<time, chain, desk>>

\* 'unknown' on a row read without bytes: there is nothing to re-send.
OnUnknown(w) ==
  /\ pc[w] = "unknown"
  /\ Goto(w, IF seen[w].bytes = NoBytes THEN "giveUp" ELSE "resend")
  /\ UNCHANGED <<store, time, chain, desk>>

\* Mutant: past the deadline the payment is refunded.
GoStuck_Refunds(w) ==
  /\ pc[w] = "giveUp"
  /\ \/ seen[w].late /\ state[cur[w]] \in Sealed /\ Failed(cur[w], "none")
     \/ ~(seen[w].late /\ state[cur[w]] \in Sealed) /\ UNCHANGED store
  /\ MoveOn(w, "recheck")
  /\ UNCHANGED <<time, chain, desk>>

GoStuck(w) ==
  /\ pc[w] = "giveUp"
  /\ \/ seen[w].late /\ state[cur[w]] \in Sealed /\ MarkStuck(cur[w])
     \/ ~(seen[w].late /\ state[cur[w]] \in Sealed) /\ UNCHANGED store
  /\ MoveOn(w, "recheck")
  /\ UNCHANGED <<time, chain, desk>>

\* eth_sendRawTransaction.  "nonce too low" and "already known" are success.
Deliver(tx) ==
  /\ wire' = wire \cup {tx}
  /\ pool' = IF tx \in Mined THEN pool ELSE pool \cup {tx}
  /\ UNCHANGED <<landed, reverted, deep, used, foreign, reorgs>>

TooLow(tx)  == tx[2] < used[From[tx[1]]]
Accepts(tx) == ~TooLow(tx) /\ \A other \in pool : Rival(tx, other) => other = tx

Send(w, here, onSuccess, onError) ==
  /\ pc[w] = here
  /\ LET tx == <<cur[w], seen[w].bytes>> IN
       \/ TooLow(tx) /\ UNCHANGED chain /\ Goto(w, onSuccess)
       \/ Accepts(tx) /\ Deliver(tx) /\ Goto(w, onSuccess)
       \/ Accepts(tx) /\ Deliver(tx) /\ Leave(w, onError)   \* the answer was lost
       \/ UNCHANGED chain /\ Leave(w, onError)
  /\ UNCHANGED <<store, time, desk>>

AfterSend(w, here, next) ==
  /\ pc[w] = here
  /\ \/ state[cur[w]] \in Sealed /\ MarkBroadcast(cur[w])
     \/ state[cur[w]] \notin Sealed /\ UNCHANGED store
  /\ Leave(w, next)
  /\ UNCHANGED <<time, chain, desk>>

Recheck(w) ==
  /\ pc[w] = "recheck"
  /\ IF InFlight = {} THEN Goto(w, "pick") ELSE Rest(w)
  /\ UNCHANGED <<store, time, chain, desk>>

Pick(w) ==
  /\ pc[w] = "pick"
  /\ \/ /\ retired[w] < MaxRetirements
        /\ \E r \in Rows : NextPlanned(r) /\ Hold(w, "claim", r, Blank)
     \/ /\ retired[w] >= MaxRetirements \/ \A r \in Rows : ~Offered(r)
        /\ Rest(w)
  /\ UNCHANGED <<store, time, chain, desk>>

Claim(w) ==
  /\ pc[w] = "claim"
  /\ \/ CanClaim(cur[w]) /\ ClaimForBuilding(cur[w]) /\ Goto(w, "build")
     \/ ~CanClaim(cur[w]) /\ UNCHANGED store /\ Rest(w)
  /\ UNCHANGED <<time, chain, desk>>

\* A build or a signature that throws is refunded now or put back, as
\* planBuildFailure classifies it.
Refusals == {"refuse", "defer"}

Build(w) ==
  /\ pc[w] = "build"
  /\ \/ \E n \in PendingNonces(From[cur[w]]) :
          /\ pc' = [pc EXCEPT ![w] = "sign"]
          /\ draft' = [draft EXCEPT ![w] = n]
          /\ UNCHANGED <<cur, seen, retired>>
     \/ \E refusal \in Refusals : Goto(w, refusal)
  /\ UNCHANGED <<store, time, chain, desk>>

\* Mutant: the signed bytes go out before they are committed.
Sign_BroadcastFirst(w) ==
  /\ pc[w] = "sign"
  /\ Goto(w, "commit")
  /\ wire' = wire \cup {<<cur[w], draft[w]>>}
  /\ UNCHANGED <<pool, landed, reverted, deep, used, foreign, reorgs>>
  /\ UNCHANGED <<store, time, desk>>

Sign(w) ==
  /\ pc[w] = "sign"
  /\ \E label \in {"commit"} \cup Refusals : Goto(w, label)
  /\ UNCHANGED <<store, time, chain, desk>>

Commit(w) ==
  /\ pc[w] = "commit"
  /\ LET r == cur[w] IN
       \/ /\ state[r] = "building"
          /\ MarkSigned(r, draft[w])
          /\ Hold(w, "send", r, [Blank EXCEPT !.bytes = draft[w]])
       \/ state[r] # "building" /\ UNCHANGED store /\ Rest(w)
  /\ UNCHANGED <<time, chain, desk>>

Defers(w) == pc[w] = "defer" /\ ~DeadlinePassed(cur[w], FALSE)

FailBuild(w) ==
  /\ pc[w] \in Refusals
  /\ LET r == cur[w] IN
       \/ /\ Defers(w)
          /\ IF state[r] = "building" THEN ReleaseToPlanned(r) ELSE UNCHANGED store
          /\ Rest(w)
       \/ /\ ~Defers(w) /\ state[r] \in Unsigned
          /\ Failed(r, "none")
          /\ Forget(w, "pick")
          /\ retired' = [retired EXCEPT ![w] = @ + 1]
       \/ ~Defers(w) /\ state[r] \notin Unsigned /\ UNCHANGED store /\ Rest(w)
  /\ UNCHANGED <<time, chain, desk>>

Drive(w) ==
  \/ Tick(w) \/ Ask(w)
  \/ OnConfirmed(w) \/ OnMature(w) \/ OnRejected(w) \/ OnPending(w) \/ OnUnknown(w)
  \/ Send(w, "resend", "resent", "giveUp") \/ AfterSend(w, "resent", "giveUp")
  \/ GoStuck(w) \/ Recheck(w)
  \/ Pick(w) \/ Claim(w) \/ Build(w) \/ Sign(w) \/ Commit(w) \/ FailBuild(w)
  \/ Send(w, "send", "sent", "idle") \/ AfterSend(w, "sent", "idle")

\* The process dies, or an await of its own rejects: the tick ends where it is.
Crash(w) ==
  /\ w \in Mortal /\ pc[w] # "idle"
  /\ Rest(w)
  /\ UNCHANGED <<store, time, chain, desk>>

(***************************************************************************)
(* adjudicate: an operator refunds or confirms a stuck row.  proveDead     *)
(* asks for the receipt first and for the nonce after.                     *)
(***************************************************************************)
OpGoto(o, label, r) ==
  /\ opPc' = [opPc EXCEPT ![o] = label]
  /\ opRow' = [opRow EXCEPT ![o] = r]

OpDone(o) == OpGoto(o, "idle", NoRow)

AskToRefund(o, r) ==
  /\ opPc[o] = "idle" /\ state[r] = "stuck"
  /\ OpGoto(o, "receipt", r)
  /\ UNCHANGED <<store, time, chain, tick>>

AskToConfirm(o, r) ==
  /\ opPc[o] = "idle" /\ state[r] = "stuck"
  /\ OpGoto(o, "status", r)
  /\ UNCHANGED <<store, time, chain, tick>>

ReadReceipt(o) ==
  /\ opPc[o] = "receipt"
  /\ LET tx == <<opRow[o], bytes[opRow[o]]>> IN
       \/ tx \in landed /\ OpDone(o)                               \* 'on_chain'
       \/ tx \in reverted /\ OpGoto(o, "refund", opRow[o])
       \/ tx \notin Mined /\ OpGoto(o, "nonce", opRow[o])
  /\ UNCHANGED <<store, time, chain, tick>>

ReadNonce(o) ==
  /\ opPc[o] = "nonce"
  /\ IF used[From[opRow[o]]] > bytes[opRow[o]]
     THEN OpGoto(o, "refund", opRow[o])
     ELSE OpDone(o)                                                \* 'still_applicable'
  /\ UNCHANGED <<store, time, chain, tick>>

ReadStatus(o) ==
  /\ opPc[o] = "status"
  /\ \E answer \in Answers(opRow[o], bytes[opRow[o]]) :
       IF answer = "confirmed" THEN OpGoto(o, "confirm", opRow[o]) ELSE OpDone(o)
  /\ UNCHANGED <<store, time, chain, tick>>

Refund(o) ==
  /\ opPc[o] = "refund"
  /\ \/ state[opRow[o]] = "stuck" /\ Failed(opRow[o], "operator")
     \/ state[opRow[o]] # "stuck" /\ UNCHANGED store
  /\ OpDone(o)
  /\ UNCHANGED <<time, chain, tick>>

Confirm(o) ==
  /\ opPc[o] = "confirm"
  /\ LET r == opRow[o] IN
       \/ /\ state[r] = "stuck"
          /\ Confirmed(r, ConfirmedByOperator(r))
          /\ IF Purpose[r] = "sweep" THEN OpGoto(o, "mature", r) ELSE OpDone(o)
       \/ state[r] # "stuck" /\ UNCHANGED store /\ OpDone(o)
  /\ UNCHANGED <<time, chain, tick>>

OpMature(o) ==
  /\ opPc[o] = "mature"
  /\ MatureSweep(opRow[o])
  /\ OpDone(o)
  /\ UNCHANGED <<time, chain, tick>>

Adjudicate(o) ==
  \/ \E r \in Rows : AskToRefund(o, r) \/ AskToConfirm(o, r)
  \/ ReadReceipt(o) \/ ReadNonce(o) \/ ReadStatus(o)
  \/ Refund(o) \/ Confirm(o) \/ OpMature(o)

OpCrash(o) == opPc[o] # "idle" /\ OpDone(o) /\ UNCHANGED <<store, time, chain, tick>>

-----------------------------------------------------------------------------
Init ==
  /\ state = [r \in Rows |-> "absent"]
  /\ createdAt = [r \in Rows |-> 0]
  /\ planned = 0
  /\ bytes = [r \in Rows |-> NoBytes]
  /\ sent = [r \in Rows |-> FALSE]
  /\ proof = [r \in Rows |-> "none"]
  /\ matured = {}
  /\ events = [r \in Rows |-> [k \in Kinds |-> 0]]
  /\ cutoff = 0 /\ overdue = {}
  /\ wire = {} /\ pool = {} /\ landed = {} /\ reverted = {} /\ deep = {}
  /\ used = [a \in Addresses |-> 0]
  /\ foreign = 0 /\ reorgs = 0
  /\ pc = [w \in Workers |-> "idle"]
  /\ cur = [w \in Workers |-> NoRow]
  /\ seen = [w \in Workers |-> Blank]
  /\ draft = [w \in Workers |-> NoBytes]
  /\ retired = [w \in Workers |-> 0]
  /\ opPc = [o \in Operators |-> "idle"]
  /\ opRow = [o \in Operators |-> NoRow]

Planning == \E r \in Rows : PlanOutbound(r) \/ PlanTokenSweep(r)

Clock == RowTurnsOld \/ \E r \in Rows : BroadcastTurnsOld(r)

Chain ==
  \/ \E tx \in wire : Mine(tx) \/ Bury(tx) \/ Reorg(tx) \/ Evict(tx)
  \/ \E a \in Addresses : SpendByHand(a)

Work == \E w \in Workers : Drive(w)
Desk == \E o \in Operators : Adjudicate(o) \/ OpCrash(o)
Next == Planning \/ Clock \/ Chain \/ Work \/ Desk \/ \E w \in Workers : Crash(w)

Spec == Init /\ [][Next]_vars

\* The driver job is re-queued on every poll, so a process that lives ticks
\* for ever; time passes.  Nothing is assumed of the chain or of an operator.
Fairness ==
  /\ \A w \in Workers \ Mortal : WF_vars(Drive(w))
  /\ WF_vars(RowTurnsOld)
  /\ \A r \in Rows : WF_vars(BroadcastTurnsOld(r))

FairSpec == Spec /\ Fairness

-----------------------------------------------------------------------------
Stored   == Nat \cup {NoBytes}
Txs      == Rows \X Nat
Owning   == {"build", "sign", "commit"} \cup Refusals
Sending  == {"resend", "resent", "send", "sent"}
Advising == {"confirmed", "rejected", "pending", "unknown"}
Labels   == {"idle", "pick", "ask", "claim", "mature", "giveUp", "recheck"}
              \cup Owning \cup Sending \cup Advising
OpLabels == {"idle", "receipt", "nonce", "refund", "status", "confirm", "mature"}

Snapshots == [bytes : Stored, sent : BOOLEAN, late : BOOLEAN]

StoreType ==
  /\ state \in [Rows -> States]
  /\ createdAt \in [Rows -> Nat] /\ planned \in Nat
  /\ bytes \in [Rows -> Stored] /\ sent \in [Rows -> BOOLEAN]
  /\ proof \in [Rows -> {"none", "chain", "operator"}]
  /\ matured \subseteq Rows
  /\ events \in [Rows -> [Kinds -> Nat]]

TimeType == cutoff \in Nat /\ overdue \subseteq Rows

ChainType ==
  /\ wire \subseteq Txs /\ pool \subseteq Txs
  /\ landed \subseteq Txs /\ reverted \subseteq Txs /\ deep \subseteq Txs
  /\ used \in [Addresses -> Nat] /\ foreign \in Nat /\ reorgs \in Nat

TickType ==
  /\ pc \in [Workers -> Labels]
  /\ cur \in [Workers -> Rows \cup {NoRow}]
  /\ seen \in [Workers -> Snapshots]
  /\ draft \in [Workers -> Stored] /\ retired \in [Workers -> Nat]

DeskType ==
  /\ opPc \in [Operators -> OpLabels]
  /\ opRow \in [Operators -> Rows \cup {NoRow}]

\* Every variable has its type: no query names a state, a nonce or a label
\* that the rest of the machine does not know.
TypeOK == StoreType /\ TimeType /\ ChainType /\ TickType /\ DeskType

(***************************************************************************)
(* Safety.                                                                 *)
(***************************************************************************)
\* One payment of a chain at a time is between its claim and its outcome,
\* however many ticks run at once: outbound_in_flight_uniq.
OneInFlight ==
  \A q, r \in Rows :
    {state[q], state[r]} \subseteq {"building", "signed", "broadcast"} => q = r

\* A row in `building` belongs to at most one tick, so at most one signature
\* made for it can ever be committed (claimForBuilding, markSigned).
OneBuilder ==
  \A v, w \in Workers : pc[v] \in Owning /\ pc[w] \in Owning => v = w

\* Commit before broadcast: whatever any node was given is the one
\* transaction committed on its row, so a payment can only ever be made once.
WireIsCommitted == \A tx \in wire : bytes[tx[1]] = tx[2]

\* Two payments of one address never carry one nonce, unless one of them has
\* been stuck (and so has left the in-flight set with its bytes still alive).
NonceIsNotReused ==
  \A q, r \in Rows :
    q # r /\ From[q] = From[r] /\ bytes[q] = bytes[r] /\ bytes[q] # NoBytes
      => events[q]["stuck"] + events[r]["stuck"] > 0

\* A row failed without a proof (markFailed and its cascade) never signed
\* anything that any node was given: "nothing on this path has committed a
\* signature".
UnprovenRefundIsUnsigned ==
  \A r \in Rows : state[r] = "failed" /\ proof[r] = "none" =>
     bytes[r] = NoBytes /\ \A tx \in wire : tx[1] # r

Landed(r) == \E tx \in landed : tx[1] = r

\* A payment refunded without an operator does not land, before the refund or
\* after it.  It is about worker.ts alone, and a chain that takes no block back.
AutomaticRefundNeverLands ==
  \A r \in Rows : state[r] = "failed" /\ proof[r] # "operator" => ~Landed(r)

\* The wallet is told one outcome of a withdrawal at most, and it is the
\* outcome the row has: a retry, a race or an adjudication repeats nothing.
OneOutcome ==
  \A r \in Rows : Purpose[r] = "withdrawal" =>
     /\ events[r]["completed"] = (IF state[r] = "confirmed" THEN 1 ELSE 0)
     /\ events[r]["failed"] = (IF state[r] = "failed" THEN 1 ELSE 0)

\* A row is confirmed, by a tick that asked long ago or by an operator, only
\* with its own transaction applied at the declared depth; no reorganisation
\* shallower than that undoes a confirmation.
ConfirmedHasLanded ==
  \A r \in Rows : state[r] = "confirmed" => <<r, bytes[r]>> \in landed \cap deep

\* A token sweep is past the queue only when the top-up that pays for its gas
\* has confirmed, and it is in the queue only while that can still happen.
FundedBeforeSwept ==
  \A r, d \in Rows : DependsOn[r] = d =>
     /\ state[r] \notin {"absent", "planned", "failed"} => state[d] = "confirmed"
     /\ state[r] = "planned" => state[d] \notin {"absent", "failed"}

\* stuck means that bytes exist and may still land, and it is announced once.
StuckHasBytes ==
  \A r \in Rows :
    /\ state[r] = "stuck" => bytes[r] # NoBytes /\ events[r]["stuck"] = 1
    /\ events[r]["stuck"] > 0 => state[r] \in {"stuck", "confirmed", "failed"}

\* Committed bytes are never replaced and a broadcast_at, once set, is never
\* cleared: there is no path back to a second signature.
SignedForEver ==
  [][\A r \in Rows : /\ bytes[r] # NoBytes => bytes'[r] = bytes[r]
                     /\ sent[r] => sent'[r]]_vars

\* A withdrawal that the gauge withdrawal_stuck counts stays counted, through
\* the handover from the deadline to the parked row, until it is decided or a
\* node takes it for the first time: an alert never flickers (stuck.ts).
CountedUntilDecided ==
  [][\A r \in Rows : r \in CountStuck /\ r \notin CountStuck' =>
       state'[r] \in {"confirmed", "failed"} \/ (~sent[r] /\ sent'[r])]_vars

\* Once signed, a row fails only with a proof written in the same transaction,
\* and once stuck no tick of the driver moves it.
SignedFailsOnlyWithProof ==
  [][\A r \in Rows :
       /\ state[r] \in Sealed \cup {"stuck"} /\ state'[r] = "failed"
            => proof[r] = "none" /\ proof'[r] # "none"
       /\ state[r] = "stuck" /\ state'[r] # "stuck" => tick' = tick]_vars

(***************************************************************************)
(* Liveness, whatever the chain does and however often a mortal tick dies  *)
(* before it owns a row.                                                   *)
(***************************************************************************)
Done(r) == state[r] \in {"confirmed", "failed", "stuck"}

\* Every row that is planned is paid, refunded or handed to an operator; only
\* a token sweep may wait longer, for the operator who holds its top-up.
EveryRowIsAnswered ==
  \A r \in Rows :
    (state[r] = "planned") ~>
       (Done(r) \/ \E d \in Rows : DependsOn[r] = d /\ state[d] = "stuck")

\* The single outbound slot of the chain is always given back.
SlotIsReturned == \A r \in Rows : r \in InFlight ~> r \notin InFlight
=============================================================================
