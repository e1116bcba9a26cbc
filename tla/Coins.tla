------------------------------- MODULE Coins -------------------------------
(***************************************************************************)
(* The adapter of the Bitcoin family, bitcoin.ts, at one source address:   *)
(* quoting a fee, listing the coins a node will vouch for, selecting among *)
(* them, building what the quote locked, and proving committed bytes dead. *)
(* Each call of the node is a step, and blocks, replacements and           *)
(* reorganisations fall between them.                                      *)
(*                                                                         *)
(* Sizes are whole units, addresses and scripts are left out: every        *)
(* candidate pays the source.  An outpoint is a number; equal coins are    *)
(* taken in the order of their numbers, as the code takes them by id.      *)
(***************************************************************************)
EXTENDS Integers, FiniteSets, FiniteSetsExt

CONSTANTS
  Outpoints,    \* a set of numbers
  Values,       \* what a coin may be worth
  Target,       \* what a payment pays
  Quotes,       \* what estimatesmartfee may answer
  Median,       \* the median rate of each block; 0 where it has none
  Window,       \* FEE_WINDOW_BLOCKS
  Floor,        \* MIN_RELAY_PER_VB
  Ceiling,      \* the rate this service clamps to, by shape
  Custody,      \* the rate custody refuses from, by shape
  MaxFee,       \* bounds.maxFeeWei
  Dust,
  Depth,        \* confirmations that make a coin, or a payment, final
  Overhead, InSize, OutSize,   \* the size of a transaction
  MaxTip,       \* bound: height of the chain
  MaxReorgs     \* bound: blocks taken back

Shapes == {"payment", "sweep"}
NoEstimate == 0

ASSUME CoinsAssumption ==
  /\ Outpoints \subseteq Nat /\ IsFiniteSet(Outpoints)
  /\ Values \subseteq Nat \ {0} /\ Quotes \subseteq Nat \ {0} /\ Target \in Nat \ {0}
  /\ Median \in [1..MaxTip -> Nat] /\ Window \in Nat \ {0}
  /\ Floor \in Nat \ {0} /\ Dust \in Nat /\ MaxFee \in Nat
  /\ Ceiling \in [Shapes -> Nat] /\ Custody \in [Shapes -> Nat]
  /\ \A s \in Shapes : Floor <= Ceiling[s]
  /\ {Overhead, InSize, OutSize} \subseteq Nat \ {0}
  /\ Depth \in Nat \ {0} /\ MaxTip \in Nat /\ Depth <= MaxTip /\ MaxReorgs \in Nat

VARIABLES
  value,     \* of each coin
  wallet,    \* whether the node serves a wallet, or candidates come from elsewhere
  shape,     \* of the one row this is about
  \* the chain
  tip,
  born,      \* the block of each coin; 0 while it is unconfirmed
  rival,     \* the block of another spend of it: Unspent, 0 in a mempool
  mined,     \* the block of the row's own transaction: Unspent, 0 in a mempool
  reorgs,
  \* the row
  state, locked, amount,
  tx,        \* the committed bytes: inputs, value, change, fee
  \* a call of the adapter
  pc, rate, todo, found,
  late       \* the proof under way has read something that was not so any more

coins   == <<value, wallet, shape>>
network == <<tip, born, rival, mined, reorgs>>
record  == <<state, locked, amount, tx>>
call    == <<pc, rate, todo, found, late>>
bitcoin == <<coins, network, record, call>>

Unspent == -1
NoTx == [inputs |-> {}, value |-> 0, change |-> 0, fee |-> 0]

VsizeOf(inputs, outputs) == Overhead + inputs * InSize + outputs * OutSize

TotalOf(S) == MapThenSumSet(LAMBDA c : value[c], S)

(***************************************************************************)
(* What the node answers.                                                  *)
(***************************************************************************)
Confirmations(h) == IF h > 0 THEN tip - h + 1 ELSE 0
Deep(c) == born[c] > 0 /\ Confirmations(born[c]) >= Depth

SpentByOwn(c) == mined # Unspent /\ c \in tx.inputs
InMempool(c) == rival[c] = 0 \/ (SpentByOwn(c) /\ mined = 0)
InBlock(c)   == rival[c] > 0 \/ (SpentByOwn(c) /\ mined > 0)

\* gettxout: a coin or null; without the mempool, an unconfirmed coin is null too.
GetTxOut(c, includeMempool) ==
  /\ ~InBlock(c)
  /\ IF includeMempool THEN ~InMempool(c) ELSE born[c] > 0

(***************************************************************************)
(* The fee rate.                                                           *)
(***************************************************************************)
Clamp(r, s) == IF r < Floor THEN Floor ELSE IF r > Ceiling[s] THEN Ceiling[s] ELSE r

\* The 90th percentile of the medians of the last blocks, if half of them have one.
DeriveFeeRateFromBlocks(t) ==
  LET asked  == {h \in 1..t : h > t - Window}
      usable == {h \in asked : Median[h] > 0}
      rank   == (9 * Cardinality(usable) + 9) \div 10
      AtMost(r) == {h \in usable : Median[h] <= r}
  IN IF 2 * Cardinality(usable) < Cardinality(asked) THEN NoEstimate
     ELSE Min({Median[h] : h \in {g \in usable : Cardinality(AtMost(Median[g])) >= rank}})

FeeRate(quoted, s) ==
  LET derived == DeriveFeeRateFromBlocks(tip) IN
  Clamp(IF quoted # NoEstimate THEN quoted ELSE IF derived # NoEstimate THEN derived ELSE Floor, s)

(***************************************************************************)
(* Selection: the largest coins first, as few as pay.                      *)
(***************************************************************************)
Before(c, d) == value[c] > value[d] \/ (value[c] = value[d] /\ c <= d)
Largest(S, n) ==
  {c \in S : Cardinality({d \in S : Before(d, c)}) <= n}

WithChange(n, target, r)    == target + r * VsizeOf(n, 2)
WithoutChange(n, target, r) == target + r * VsizeOf(n, 1)

\* An excess that is dust is left to the fee.
Pays(S, n, target, r) ==
  LET total == TotalOf(Largest(S, n)) IN
  \/ total >= WithChange(n, target, r)
  \/ /\ total >= WithoutChange(n, target, r)
     /\ total - WithoutChange(n, target, r) < Dust

Enough(S, target, r) == {n \in 1..Cardinality(S) : Pays(S, n, target, r)}

SelectCoins(S, target, r) ==
  LET n == Min(Enough(S, target, r))
      total == TotalOf(Largest(S, n))
      rest == total - WithChange(n, target, r)
      change == IF rest >= Dust THEN rest ELSE 0
  IN [inputs |-> Largest(S, n), value |-> target, change |-> change, fee |-> total - target - change]

\* A sweep spends every coin, to one output.
SweepPlan(S, r) ==
  LET fee == r * VsizeOf(Cardinality(S), 1) IN
  [inputs |-> S, value |-> TotalOf(S) - fee, change |-> 0, fee |-> fee]
Sweepable(S, r) == S # {} /\ SweepPlan(S, r).value > Dust

Outputs(t) == IF t.change > 0 THEN 2 ELSE 1
UnderCustodysCeiling(t) ==
  t.fee \div VsizeOf(Cardinality(t.inputs), Outputs(t)) < Custody[shape]

(***************************************************************************)
(* A call: the rate, then the coins.                                       *)
(***************************************************************************)
Call(where, r, T, S) == pc' = where /\ rate' = r /\ todo' = T /\ found' = S /\ UNCHANGED late
Return == Call("idle", 0, {}, {})

StartCall ==
  /\ pc = "idle" /\ state \in {"none", "planned"}
  /\ \E q \in Quotes \cup {NoEstimate} : Call("list", FeeRate(q, shape), {}, {})
  /\ UNCHANGED <<coins, network, record>>

\* estimateFee: one input, two outputs, and no look at the coins.
EstimateFee ==
  /\ pc = "list" /\ state = "none" /\ shape = "payment"
  /\ LET fee == rate * VsizeOf(1, 2) IN
       IF fee <= MaxFee
       THEN state' = "planned" /\ locked' = fee /\ amount' = Target
       ELSE UNCHANGED <<state, locked, amount>>
  /\ Return
  /\ UNCHANGED <<coins, network, tx>>

Listing == pc = "list" /\ (state = "planned" \/ shape = "sweep")

\* listunspent: one answer.
WalletUnspent ==
  /\ Listing /\ wallet
  /\ Call("listed", rate, {}, {c \in Outpoints : Deep(c) /\ GetTxOut(c, TRUE)})
  /\ UNCHANGED <<coins, network, record>>

\* Candidates, as old as they may be, each put to the node.
Candidates ==
  /\ Listing /\ ~wallet
  /\ \E T \in SUBSET Outpoints : Call("confirm", rate, T, {})
  /\ UNCHANGED <<coins, network, record>>

\* Mutant: at any depth.
Usable_AnyDepth(c) == GetTxOut(c, TRUE)
Usable(c) == GetTxOut(c, TRUE) /\ Deep(c)

ConfirmCandidate ==
  /\ pc = "confirm"
  /\ \/ \E c \in todo :
          Call("confirm", rate, todo \ {c}, IF Usable(c) THEN found \cup {c} ELSE found)
     \/ todo = {} /\ Call("listed", rate, {}, found)
  /\ UNCHANGED <<coins, network, record>>

SweepQuote ==
  /\ pc = "listed" /\ state = "none"
  /\ LET plan == SweepPlan(found, rate) IN
       IF Sweepable(found, rate) /\ plan.fee <= MaxFee
       THEN state' = "planned" /\ locked' = plan.fee /\ amount' = plan.value
       ELSE UNCHANGED <<state, locked, amount>>
  /\ Return
  /\ UNCHANGED <<coins, network, tx>>

(***************************************************************************)
(* buildOutbound.  Too little is asked again at the next tick; a fee out   *)
(* of its band refuses the row for good.                                   *)
(***************************************************************************)
Refused == state' = "refused" /\ UNCHANGED <<locked, amount, tx>>
Deferred == UNCHANGED record
Signed(t) == state' = "signed" /\ tx' = t /\ UNCHANGED <<locked, amount>>

\* Mutant: the fee of the selection is not held against the quote.
BuildPayment_AnyFee ==
  LET s == SelectCoins(found, amount, rate) IN
  /\ pc = "listed" /\ state = "planned" /\ shape = "payment"
  /\ IF amount <= Dust THEN Refused
     ELSE IF Enough(found, amount, rate) = {} THEN Deferred
     ELSE Signed(s)
  /\ Return
  /\ UNCHANGED <<coins, network>>

BuildPayment ==
  LET s == SelectCoins(found, amount, rate) IN
  /\ pc = "listed" /\ state = "planned" /\ shape = "payment"
  /\ IF amount <= Dust THEN Refused
     ELSE IF Enough(found, amount, rate) = {} THEN Deferred
     ELSE IF s.fee > locked \/ ~UnderCustodysCeiling(s) THEN Refused
     ELSE Signed(s)
  /\ Return
  /\ UNCHANGED <<coins, network>>

\* A sweep is built as it was quoted or not at all.
BuildSweep ==
  LET p == SweepPlan(found, rate) IN
  /\ pc = "listed" /\ state = "planned" /\ shape = "sweep"
  /\ IF ~Sweepable(found, rate) THEN Deferred
     ELSE IF p.value # amount \/ p.fee # locked \/ ~UnderCustodysCeiling(p) THEN Refused
     ELSE Signed(p)
  /\ Return
  /\ UNCHANGED <<coins, network>>

(***************************************************************************)
(* The bytes, their status and their death.                                *)
(***************************************************************************)
Minable == \A c \in tx.inputs : rival[c] <= 0 /\ mined <= 0
Relayed == \A c \in tx.inputs : rival[c] = Unspent

\* A second copy is "already in mempool", or in the chain: a success.
Broadcast ==
  /\ pc = "idle" /\ state \in {"signed", "broadcast"}
  /\ Relayed
  /\ state' = "broadcast"
  /\ mined' = IF mined = Unspent THEN 0 ELSE mined
  /\ UNCHANGED <<coins, tip, born, rival, reorgs, locked, amount, tx, call>>

\* Any error of the node is an unknown, and the chain never says rejected.
StatusOf == IF mined > 0 THEN IF Confirmations(mined) >= Depth THEN "confirmed" ELSE "pending"
            ELSE "unknown"

Advance ==
  /\ pc = "idle" /\ state \in {"broadcast", "stuck"}
  /\ StatusOf = "confirmed"
  /\ state' = "confirmed"
  /\ UNCHANGED <<coins, network, locked, amount, tx, call>>

GoStuck ==
  /\ pc = "idle" /\ state \in {"signed", "broadcast"}
  /\ state' = "stuck"
  /\ UNCHANGED <<coins, network, locked, amount, tx, call>>

\* proveDead, first half: the ids.
ProveStatus ==
  /\ pc = "idle" /\ state = "stuck"
  /\ \E lost \in BOOLEAN :
       /\ (lost \/ StatusOf = "unknown")
       /\ pc' = "inputs" /\ todo' = tx.inputs
       /\ late' = (lost /\ StatusOf # "unknown")
  /\ UNCHANGED <<coins, network, record, rate, found>>

\* Second half: gettxout of each input, without the mempool.
\* Mutant: a spend in the mempools is a conflict.
ConflictSeen_Mempool(c) == ~GetTxOut(c, TRUE)
ConflictSeen(c) == ~GetTxOut(c, FALSE)

ProveInput ==
  /\ pc = "inputs"
  /\ \/ \E c \in todo :
          /\ \/ ConflictSeen(c) /\ state' = "dead" /\ pc' = "idle" /\ todo' = {}
             \/ ~ConflictSeen(c) /\ todo' = todo \ {c} /\ UNCHANGED <<state, pc>>
          /\ UNCHANGED late
     \/ todo = {} /\ pc' = "idle" /\ late' = FALSE /\ UNCHANGED <<state, todo>>
  /\ UNCHANGED <<coins, network, locked, amount, tx, rate, found>>

(***************************************************************************)
(* The chain.                                                              *)
(***************************************************************************)
\* A block buries what there is, and may mine an unconfirmed coin, the row's
\* transaction or a rival of it; the latter two exclude each other.
NewBlock ==
  /\ tip < MaxTip
  /\ tip' = tip + 1
  /\ \E C \in SUBSET {c \in Outpoints : born[c] = 0} :
       born' = [c \in Outpoints |-> IF c \in C THEN tip + 1 ELSE born[c]]
  /\ \E own \in BOOLEAN, R \in SUBSET {c \in Outpoints : rival[c] = 0} :
       /\ \A c \in R : born'[c] > 0
       /\ own => mined = 0 /\ Minable /\ R \cap tx.inputs = {} /\ \A c \in tx.inputs : born'[c] > 0
       /\ rival' = [c \in Outpoints |-> IF c \in R THEN tip + 1 ELSE rival[c]]
       /\ mined' = IF own THEN tip + 1
                   ELSE IF mined = 0 /\ R \cap tx.inputs # {} THEN Unspent ELSE mined
       /\ late' = (late \/ (own /\ pc = "inputs"))
  /\ UNCHANGED <<coins, reorgs, record, pc, rate, todo, found>>

\* Another spend of a coin, by hand or by an earlier payment of the address,
\* enters the mempools, and replaces the row's.
Replace(c) ==
  /\ rival[c] = Unspent /\ ~(SpentByOwn(c) /\ mined > 0)
  /\ rival' = [rival EXCEPT ![c] = 0]
  /\ mined' = IF SpentByOwn(c) THEN Unspent ELSE mined
  /\ UNCHANGED <<coins, tip, born, reorgs, record, call>>

\* The mempools forget the row's transaction, or a rival; whoever holds the
\* bytes may send them again.
Forget ==
  /\ \/ mined = 0 /\ mined' = Unspent /\ UNCHANGED rival
     \/ \E c \in Outpoints : rival[c] = 0 /\ rival' = [rival EXCEPT ![c] = Unspent] /\ UNCHANGED mined
     \/ state \in {"stuck", "dead"} /\ mined = Unspent /\ Relayed /\ mined' = 0 /\ UNCHANGED rival
  /\ UNCHANGED <<coins, tip, born, reorgs, record, call>>

\* The top block is taken back: what it mined is in the mempools again.
Reorg ==
  /\ reorgs < MaxReorgs /\ tip > 1
  /\ reorgs' = reorgs + 1
  /\ tip' = tip - 1
  /\ born' = [c \in Outpoints |-> IF born[c] = tip THEN 0 ELSE born[c]]
  /\ rival' = [c \in Outpoints |-> IF rival[c] = tip THEN 0 ELSE rival[c]]
  /\ mined' = IF mined = tip THEN 0 ELSE mined
  /\ UNCHANGED <<coins, record, call>>

Init ==
  /\ value \in [Outpoints -> Values] /\ wallet \in BOOLEAN /\ shape \in Shapes
  /\ tip = Depth
  /\ born \in [Outpoints -> {0, 1}]
  /\ rival = [c \in Outpoints |-> Unspent] /\ mined = Unspent /\ reorgs = 0
  /\ state = "none" /\ locked = 0 /\ amount = 0 /\ tx = NoTx
  /\ pc = "idle" /\ rate = 0 /\ todo = {} /\ found = {} /\ late = FALSE

Quote == EstimateFee \/ SweepQuote
List  == StartCall \/ WalletUnspent \/ Candidates \/ ConfirmCandidate
Build == BuildPayment \/ BuildSweep
Settle == Broadcast \/ Advance \/ GoStuck \/ ProveStatus \/ ProveInput
Blocks == NewBlock \/ (\E c \in Outpoints : Replace(c)) \/ Forget \/ Reorg

Next == Quote \/ List \/ Build \/ Settle \/ Blocks

Spec == Init /\ [][Next]_bitcoin

(***************************************************************************)
(* Properties.                                                             *)
(***************************************************************************)
States == {"none", "planned", "refused", "signed", "broadcast", "stuck", "confirmed", "dead"}
Heights == -1..MaxTip

\* Every variable keeps its type.
TypeOK ==
  /\ value \in [Outpoints -> Values] /\ wallet \in BOOLEAN /\ shape \in Shapes
  /\ tip \in 1..MaxTip /\ reorgs \in 0..MaxReorgs /\ mined \in Heights
  /\ born \in [Outpoints -> Heights] /\ rival \in [Outpoints -> Heights]
  /\ state \in States /\ locked \in 0..MaxFee /\ amount \in Nat
  /\ tx \in [inputs : SUBSET Outpoints, value : Nat, change : Nat, fee : Nat]
  /\ pc \in {"idle", "list", "confirm", "listed", "inputs"} /\ rate \in Nat
  /\ todo \subseteq Outpoints /\ found \subseteq Outpoints /\ late \in BOOLEAN

\* Committed bytes move the planned amount, whatever blocks came between the
\* quote, the listing and the build: what is not paid or returned is a fee no
\* higher than the quote locked, that relays, that custody signs, and no
\* output is dust.
PaysWhatWasLocked ==
  state \in {"signed", "broadcast", "stuck", "confirmed", "dead"} =>
    /\ tx.value = amount /\ amount > Dust
    /\ TotalOf(tx.inputs) = tx.value + tx.change + tx.fee
    /\ tx.fee <= locked /\ (shape = "sweep" => tx.fee = locked)
    /\ tx.change = 0 \/ tx.change >= Dust
    /\ tx.fee >= Floor * VsizeOf(Cardinality(tx.inputs), Outputs(tx))
    /\ UnderCustodysCeiling(tx)

\* Only coins at full depth are spent: short of a reorganisation as deep as
\* that, no input of committed bytes goes back to being unconfirmed.
SpendsFinalCoins ==
  reorgs = 0 => \A c \in tx.inputs : Deep(c)

\* What proveDead calls dead is never mined, unless the bytes were mined behind
\* its first question, or the conflicting block is taken back.
DeadIsNeverMined ==
  state = "dead" /\ ~late /\ reorgs = 0 => mined <= 0 /\ ~Minable
=============================================================================
