--------------------------- MODULE AdapterProofs ---------------------------
(***************************************************************************)
(* Theorems about two of the adapters: the Solana adapter, for every chain *)
(* height, life of a blockhash, depth and balance, and the EVM adapter,    *)
(* for every set of prices and of bounds and every balance.                *)
(***************************************************************************)
EXTENDS Blockhash, Gas, FiniteSetTheorems, TLAPS

(***************************************************************************)
(* Solana.                                                                 *)
(***************************************************************************)

\* The type invariant in two parts: the provers take Booleans one by one.
Switches == failed \in BOOLEAN /\ sent \in BOOLEAN /\ undone \in BOOLEAN

Figures ==
  /\ shape \in {"payment", "sweep"}
  /\ tip \in 1..MaxTip /\ final \in 1..tip
  /\ opening \in Openings /\ deposited \in 0..tip /\ included \in 0..tip
  /\ state \in {"none", "planned", "signed", "broadcast", "stuck", "confirmed", "failed", "dead"}
  /\ value \in Nat /\ fee \in Nat /\ hash \in 0..MaxTip
  /\ pc \in {"idle", "build", "prove"} /\ fresh \in 0..MaxTip

LEMMA TypeParts == Switches /\ Figures => TypeOK
  BY DEF Switches, Figures, TypeOK

LEMMA BalanceInt == ASSUME Figures, NEW h \in Int PROVE BalanceAt(h) \in Int
  BY BlockhashAssumption DEF Figures, BalanceAt

\* The blockhash of a row, or the one a build has just read, was final when it
\* was read, and the chain may not run further ahead of its finalized block
\* than Depth.
Anchored ==
  /\ hash <= final /\ fresh <= final
  /\ tip - final <= Depth

\* A call is about a row that is where the call found it; a transaction that
\* failed is in a block; and a proof that read "unknown" is still right, or the
\* step that made it wrong is recorded.
CallInv ==
  /\ pc = "prove" => state = "stuck"
  /\ pc = "build" => state = "planned"
  /\ failed => included > 0
  /\ pc = "prove" /\ ~undone => included = 0

\* What each verdict rests on.
Verdicts ==
  /\ state = "confirmed" => ~failed /\ included > 0 /\ included <= final
  /\ state = "dead" /\ ~undone => included = 0 /\ final >= hash + Life
  /\ state = "failed" /\ ~undone => failed

Inv == Figures /\ Anchored /\ CallInv /\ Verdicts

LEMMA SwitchesHold == Spec => []Switches
  <1>1. Init => Switches
    BY DEF Init, Switches
  <1>2. Switches /\ [Next]_vars => Switches'
    <2> SUFFICES ASSUME Switches, [Next]_vars PROVE Switches'
      OBVIOUS
    <2> USE DEF Switches, network, row
    <2>1. CASE EstimateFee \/ SweepQuote \/ BuildBlockhash \/ Build \/ GoStuck \/ Advance \/ ProveStatus
      BY <2>1 DEF EstimateFee, SweepQuote, Locks, BuildBlockhash, Build, GoStuck, Advance, ProveStatus
    <2>2. CASE Broadcast \/ ProveBlockhash
      BY <2>2 DEF Broadcast, ProveBlockhash
    <2>3. CASE EmptyBlock \/ Include \/ Finalize \/ Rollback
      BY <2>3 DEF EmptyBlock, Include, Finalize, Rollback
    <2>4. CASE UNCHANGED vars
      BY <2>4 DEF vars
    <2> QED
      BY <2>1, <2>2, <2>3, <2>4 DEF Next
  <1> QED
    BY <1>1, <1>2, PTL DEF Spec

LEMMA InvInit == Init => Inv
  <1> SUFFICES ASSUME Init PROVE Inv
    OBVIOUS
  <1>1. Figures
    BY BlockhashAssumption DEF Init, Figures
  <1>2. Anchored
    BY BlockhashAssumption DEF Init, Anchored
  <1>3. CallInv
    BY DEF Init, CallInv
  <1>4. Verdicts
    BY DEF Init, Verdicts
  <1> QED
    BY <1>1, <1>2, <1>3, <1>4 DEF Inv

\* The row and the calls: nothing of the chain moves.
LEMMA RowStep ==
  ASSUME Inv,
         \/ EstimateFee \/ SweepQuote \/ BuildBlockhash \/ Build \/ Broadcast \/ Advance \/ GoStuck
         \/ ProveStatus \/ ProveBlockhash
  PROVE  Inv'
  <1> USE BlockhashAssumption DEF Inv, Figures, Anchored, CallInv, Verdicts, network, row
  <1>1. CASE EstimateFee \/ SweepQuote
    <2>1. BalanceAt(final) \in Int
      BY BalanceInt
    <2> QED
      BY <1>1, <2>1 DEF EstimateFee, SweepQuote, Locks, BaseFee
  <1>2. CASE BuildBlockhash
    BY <1>2 DEF BuildBlockhash, LatestBlockhash
  <1>3. CASE Build
    BY <1>3 DEF Build
  <1>4. CASE Broadcast
    BY <1>4 DEF Broadcast
  <1>5. CASE Advance
    BY <1>5 DEF Advance, StatusOf
  <1>6. CASE GoStuck
    BY <1>6 DEF GoStuck
  <1>7. CASE ProveStatus
    BY <1>7 DEF ProveStatus, StatusOf
  \* Its blockhash was final, so one that is no longer valid has run out.
  <1>8. CASE ProveBlockhash
    <2>1. CASE IsBlockhashValid
      BY <1>8, <2>1 DEF ProveBlockhash
    <2>2. CASE ~IsBlockhashValid
      <3>1. final >= hash + Life
        BY <2>2 DEF IsBlockhashValid, Expiry
      <3>2. state' = "dead" /\ pc' = "idle" /\ undone' = undone
        BY <1>8, <2>2 DEF ProveBlockhash
      <3>3. UNCHANGED <<shape, network, value, fee, hash, sent, fresh>>
        BY <1>8 DEF ProveBlockhash
      <3> QED
        BY <1>8, <3>1, <3>2, <3>3 DEF ProveBlockhash
    <2> QED
      BY <2>1, <2>2
  <1> QED
    BY <1>1, <1>2, <1>3, <1>4, <1>5, <1>6, <1>7, <1>8

\* The chain: the row and the place of a call stand still.
LEMMA ChainStep ==
  ASSUME Inv, EmptyBlock \/ Include \/ Finalize \/ Rollback
  PROVE  Inv'
  <1> USE BlockhashAssumption DEF Inv, Figures, Anchored, CallInv, Verdicts, row
  <1>1. CASE EmptyBlock
    BY <1>1 DEF EmptyBlock, Block
  <1>2. CASE Include
    <2>1. Figures' /\ Anchored'
      BY <1>2 DEF Include, Block
    <2>2. included = 0 /\ tip < hash + Life /\ included' > 0
      BY <1>2 DEF Include, Expiry
    <2>3. ~undone' => ~undone /\ pc # "prove"
      BY <1>2 DEF Include
    <2>4. UNCHANGED <<state, pc, hash, final>>
      BY <1>2 DEF Include
    <2>5. CallInv' /\ Verdicts'
      BY <2>2, <2>3, <2>4
    <2> QED
      BY <2>1, <2>5
  <1>3. CASE Finalize
    BY <1>3 DEF Finalize
  <1>4. CASE Rollback
    <2>1. PICK h \in final..(tip - 1) :
            /\ tip' = h
            /\ deposited' = IF deposited > h THEN 0 ELSE deposited
            /\ included' = IF included > h THEN 0 ELSE included
            /\ failed' = (failed /\ included <= h)
            /\ undone' = (undone \/ (failed /\ included > h))
      BY <1>4 DEF Rollback
    <2>2. UNCHANGED <<shape, final, opening, state, value, fee, hash, sent, pc, fresh>>
      BY <1>4 DEF Rollback
    <2>3. Figures' /\ Anchored'
      BY <2>1, <2>2
    <2>4. ~(included > h) => included' = included /\ included <= h
      BY <2>1
    <2>5. included > h => included' = 0
      BY <2>1
    <2>6. (failed' => failed /\ included <= h) /\ (~undone' => ~undone /\ ~(failed /\ included > h))
      BY <2>1, Zenon
    <2>7. failed /\ included <= h => failed'
      BY <2>1, Zenon
    <2>8. CallInv'
      BY <2>1, <2>2, <2>4, <2>5, <2>6
    <2>9. Verdicts'
      BY <2>1, <2>2, <2>4, <2>5, <2>6, <2>7
    <2> QED
      BY <2>3, <2>8, <2>9
  <1> QED
    BY <1>1, <1>2, <1>3, <1>4

LEMMA InvStep == Inv /\ [Next]_vars => Inv'
  <1> SUFFICES ASSUME Inv, [Next]_vars PROVE Inv'
    OBVIOUS
  <1>1. CASE Next
    BY <1>1, RowStep, ChainStep DEF Next
  <1>2. CASE UNCHANGED vars
    BY <1>2 DEF vars, network, row, Inv, Figures, Anchored, CallInv, Verdicts
  <1> QED
    BY <1>1, <1>2

LEMMA InvHolds == Spec => []Inv
  BY InvInit, InvStep, PTL DEF Spec

\* Every variable keeps its type, and no fork leaves a finalized block.
THEOREM BlockhashTypeCorrect == Spec => []TypeOK
  <1>1. Switches /\ Inv => TypeOK
    BY TypeParts DEF Inv
  <1> QED
    BY <1>1, SwitchesHold, InvHolds, PTL

\* A confirmed row has delivered, on every fork there may still be: a block as
\* deep as the chain declares is final, because nothing is built further ahead.
THEOREM ConfirmedIsFinalHolds == Spec => []ConfirmedIsFinal
  <1>1. Inv => ConfirmedIsFinal
    BY DEF Inv, Verdicts, ConfirmedIsFinal, Landed
  <1> QED
    BY <1>1, InvHolds, PTL

\* A row that was proved dead or failed never delivers, unless a step behind the
\* proof's first question, or a block that was left, says otherwise.
THEOREM DeadNeverDeliversHolds == Spec => []DeadNeverDelivers
  <1>1. Inv => DeadNeverDelivers
    BY DEF Inv, Figures, Verdicts, DeadNeverDelivers, Landed, Expiry
  <1> QED
    BY <1>1, InvHolds, PTL

(***************************************************************************)
(* EVM: types.                                                             *)
(***************************************************************************)
Places == {"none", "planned", "sent", "stuck", "confirmed", "failed", "refused", "overpriced"}
Accounts == {"treasury", "deposit"}

WorldType ==
  /\ price \in Prices /\ band \in Bands /\ coded \in SUBSET {"user", "contract"}
  /\ coin \in [Accounts -> Int] /\ tokens \in Int /\ used \in [Accounts -> Nat]
  /\ fate \in [Payments -> {"none", "delivered", "reverted"}]

RowsType ==
  /\ at \in [Payments -> Places]
  /\ locked \in [Payments -> Nat] /\ amount \in [Payments -> Nat]
  /\ quoted \in [Payments -> Bands \cup {None}]
  /\ nonce \in [Payments -> Nat] /\ behind \in [Payments -> SUBSET Payments]

Hands == [pc : {"idle", "pair", "read", "sign"}, row : Payments, fee : Nat, nonce : Nat]

GasType == WorldType /\ RowsType /\ hand \in Hands

LEMMA Bounds ==
  /\ TransferGas \in Nat \ {0} /\ TokenGas \in Nat \ {0}
  /\ \A p \in Prices : p \in Nat \ {0}
  /\ \A b \in Bands : /\ b.min \in Nat \ {0} /\ b.max \in Nat \ {0} /\ b.cap \in Nat
                      /\ b.min <= b.max /\ b.max * TokenGas <= b.cap
  BY GasAssumption

\* A quote is some price of the band, times the gas of the row.
Good(paid, gas, b) == \E p \in b.min..b.max : paid = p * gas

LEMMA BidIsInBand ==
  ASSUME GasType, Quotable
  PROVE  GasPriceBid \in band.min..band.max /\ GasPriceBid \in Nat \ {0}
  BY Bounds DEF GasType, WorldType, Quotable, GasPriceBid, Base, Least

LEMMA GoodFee ==
  ASSUME GasType, Quotable, NEW g \in Nat \ {0}
  PROVE  GasPriceBid * g \in Nat /\ Good(GasPriceBid * g, g, band)
  BY BidIsInBand DEF Good

LEMMA BeforeFacts ==
  /\ Before("token") = {}
  /\ Before("withdrawal") = IF Undecided("topup") THEN {"topup"} ELSE {}
  /\ Before("topup") = IF Undecided("withdrawal") THEN {"withdrawal"} ELSE {}
  BY DEF Before, Payments, Source

LEMMA BeforeCount ==
  ASSUME NEW r \in Payments
  PROVE  Cardinality(Before(r)) = IF Before(r) = {} THEN 0 ELSE 1
  <1>1. Cardinality({}) = 0 /\ Cardinality({"topup"}) = 1 /\ Cardinality({"withdrawal"}) = 1
    BY FS_EmptySet, FS_Singleton
  <1>2. Before(r) \in {{}, {"topup"}, {"withdrawal"}}
    BY BeforeFacts DEF Payments
  <1> QED
    BY <1>1, <1>2

LEMMA HandFacts ==
  ASSUME NEW r \in Payments, NEW n \in Nat
  PROVE  /\ Idle \in Hands /\ Idle.pc = "idle"
         /\ LET h == [Idle EXCEPT !.pc = "read", !.row = r] IN
            h \in Hands /\ h.pc = "read" /\ h.row = r
         /\ LET h == [Idle EXCEPT !.pc = "pair", !.fee = n] IN
            h \in Hands /\ h.pc = "pair" /\ h.fee = n
  BY DEF Idle, Hands, Payments

LEMMA SignFacts ==
  ASSUME NEW h \in Hands, NEW n \in Nat
  PROVE  LET k == [h EXCEPT !.pc = "sign", !.nonce = n] IN
         k \in Hands /\ k.pc = "sign" /\ k.row = h.row /\ k.nonce = n
  BY DEF Hands

(***************************************************************************)
(* EVM: the invariant.                                                     *)
(***************************************************************************)
Peer(r) == IF r = "withdrawal" THEN "topup" ELSE "withdrawal"

\* The undecided payments of an address hold its next nonces; one that nothing
\* was undecided before holds the next of them.
Nonces ==
  /\ Undecided("token") => nonce["token"] = used["deposit"]
  /\ \A r \in {"withdrawal", "topup"} :
       Undecided(r) =>
         /\ nonce[r] \in {used["treasury"], used["treasury"] + 1}
         /\ ~Undecided(Peer(r)) => nonce[r] = used["treasury"]
         /\ Undecided(Peer(r)) => nonce[r] # nonce[Peer(r)]
         /\ behind[r] = {} => nonce[r] = used["treasury"]

\* What a build has read is still so while it signs: only payments that were
\* undecided then are, and they have taken the nonces in between.
HandInv ==
  /\ hand.pc \in {"read", "sign"} => at[hand.row] = "planned"
  /\ hand.pc = "sign" =>
       LET r == hand.row IN
       /\ hand.nonce = used[Source(r)] + (IF Before(r) = {} THEN 0 ELSE 1)
       /\ Before(r) \subseteq behind[r]
       /\ behind[r] = {} => coin[Source(r)] >= Cost(r)
       /\ r = "token" => "contract" \in coded
  /\ hand.pc = "pair" => at["token"] = "none" /\ Good(hand.fee, TokenGas, band)

\* The token sweep moves what there is, once, by a call of a contract.
TokenInv ==
  /\ at["token"] = "none" <=> at["topup"] = "none"
  /\ fate["token"] # "reverted" /\ fate["topup"] # "reverted"
  /\ at["token"] # "none" => amount["token"] = 1
  /\ at["token"] \in {"sent", "stuck", "confirmed"} => "contract" \in coded
  /\ at["token"] = "confirmed" => fate["token"] = "delivered"
  /\ fate["token"] = "none" => tokens = 1
  /\ fate["token"] = "delivered" => at["token"] # "none" /\ tokens = 0

QuoteInv == \A r \in Payments : at[r] = "planned" => Good(locked[r], GasOf(r), quoted[r])

GasInv == GasType /\ Nonces /\ HandInv /\ TokenInv /\ QuoteInv /\ SentIsPayable

LEMMA GasInvInit == GasInit => GasInv
  <1> SUFFICES ASSUME GasInit PROVE GasInv
    OBVIOUS
  <1>1. Idle \in Hands /\ Idle.pc = "idle"
    BY DEF Idle, Hands, Payments
  <1>2. WorldType /\ RowsType
    BY GasAssumption DEF GasInit, WorldType, RowsType, Accounts, Places, Payments
  <1>3. \A r \in Payments : at[r] = "none" /\ fate[r] = "none" /\ ~Undecided(r)
    BY DEF GasInit, Undecided
  <1>4. hand = Idle /\ tokens = 1
    BY DEF GasInit
  <1> QED
    BY <1>1, <1>2, <1>3, <1>4
       DEF GasInv, GasType, Nonces, HandInv, TokenInv, QuoteInv, SentIsPayable, Payments

(***************************************************************************)
(* EVM: the steps.                                                         *)
(***************************************************************************)
LEMMA Names ==
  /\ Payments = {"withdrawal", "topup", "token"}
  /\ Source("withdrawal") = "treasury" /\ Source("topup") = "treasury" /\ Source("token") = "deposit"
  /\ Peer("withdrawal") = "topup" /\ Peer("topup") = "withdrawal"
  /\ GasOf("withdrawal") = TransferGas /\ GasOf("topup") = TransferGas /\ GasOf("token") = TokenGas
  BY DEF Payments, Source, Peer, GasOf

\* While the chain applies nothing and nothing is signed, no address loses coin
\* and no nonce moves.
LEMMA Still ==
  ASSUME GasInv, UNCHANGED <<used, nonce, behind>>,
         \A a \in Accounts : coin'[a] \in Int /\ coin'[a] >= coin[a],
         Undecided("withdrawal")' <=> Undecided("withdrawal"),
         Undecided("topup")' <=> Undecided("topup"),
         Undecided("token")' => Undecided("token"),
         \A r \in Payments : Undecided(r) => Cost(r)' = Cost(r)
  PROVE  Nonces' /\ SentIsPayable'
  <1>1. Nonces'
    BY Names DEF GasInv, Nonces
  <1>2. SentIsPayable'
    <2> SUFFICES ASSUME NEW r \in Payments, Undecided(r)', behind[r] = {}
                 PROVE  coin'[Source(r)] >= Cost(r)'
      BY DEF SentIsPayable
    <2>1. Undecided(r) /\ Source(r) \in Accounts
      BY Names DEF Accounts
    <2>2. coin[Source(r)] >= Cost(r) /\ Cost(r)' = Cost(r)
      BY <2>1 DEF GasInv, SentIsPayable
    <2>3. coin[Source(r)] \in Int /\ Cost(r) \in Int
      BY <2>1 DEF GasInv, GasType, WorldType, RowsType, Cost
    <2> QED
      BY <2>1, <2>2, <2>3
  <1> QED
    BY <1>1, <1>2

LEMMA QuoteStep ==
  ASSUME GasInv, QuoteWithdrawal
  PROVE  GasInv'
  <1> DEFINE bid == GasPriceBid * TransferGas
  <1>1. bid \in Nat /\ Good(bid, TransferGas, band)
    BY GoodFee, Bounds DEF QuoteWithdrawal, GasInv
  <1>2. /\ at["withdrawal"] = "none" /\ at' = [at EXCEPT !["withdrawal"] = "planned"]
        /\ locked' = [locked EXCEPT !["withdrawal"] = bid]
        /\ amount' = [amount EXCEPT !["withdrawal"] = Pays]
        /\ quoted' = [quoted EXCEPT !["withdrawal"] = band]
        /\ UNCHANGED <<world, money, nonce, behind, hand>>
    BY DEF QuoteWithdrawal
  <1> HIDE DEF bid
  <1>3. UNCHANGED <<price, band, coded, coin, tokens, used, fate>>
    BY <1>2 DEF world, money
  <1>4. GasType'
    BY <1>1, <1>2, <1>3, GasAssumption, Names DEF GasInv, GasType, WorldType, RowsType, Places
  <1>5. \A r \in {"topup", "token"} : /\ at'[r] = at[r] /\ locked'[r] = locked[r]
                                      /\ amount'[r] = amount[r] /\ quoted'[r] = quoted[r]
    BY <1>2, Names DEF GasInv, GasType, RowsType
  <1>6. at'["withdrawal"] = "planned" /\ locked'["withdrawal"] = bid /\ quoted'["withdrawal"] = band
    BY <1>2, Names DEF GasInv, GasType, RowsType
  <1>7. \A r \in Payments : Undecided(r)' <=> Undecided(r)
    BY <1>2, <1>3, <1>5, <1>6, Names DEF Undecided
  <1>8. \A r \in Payments : Undecided(r) => Cost(r)' = Cost(r)
    BY <1>2, <1>5, Names DEF Undecided, Cost
  <1>9. Nonces' /\ SentIsPayable'
    BY <1>2, <1>3, <1>4, <1>7, <1>8, Names, Still DEF GasInv, GasType, WorldType, Accounts
  <1>10. TokenInv'
    BY <1>3, <1>5 DEF GasInv, TokenInv
  <1>11. QuoteInv'
    BY <1>1, <1>5, <1>6, Names DEF GasInv, QuoteInv, Good, GasOf
  <1>12. HandInv'
    <2>1. hand' = hand /\ hand.row \in Payments
      BY <1>2 DEF GasInv, GasType, Hands
    <2>2. hand.pc \in {"read", "sign"} => hand.row # "withdrawal"
      BY <1>2 DEF GasInv, HandInv
    <2>3. hand.pc \in {"read", "sign"} => Cost(hand.row)' = Cost(hand.row)
      BY <1>5, <2>1, <2>2, Names DEF Cost
    <2>4. \A r \in Payments : Before(r)' = Before(r)
      BY <1>7 DEF Before
    <2> QED
      BY <1>2, <1>3, <1>5, <2>1, <2>2, <2>3, <2>4, Names DEF GasInv, HandInv, Good
  <1> QED
    BY <1>4, <1>9, <1>10, <1>11, <1>12 DEF GasInv

\* A row moves on or is given up; the hand is empty, or stays, or takes up a row.
LEMMA AtStep ==
  ASSUME GasInv, UNCHANGED <<world, money, locked, amount, quoted, nonce, behind>>,
         at' \in [Payments -> Places],
         \A r \in Payments : at'[r] = "planned" => at[r] = "planned",
         \A r \in Payments : at'[r] = "none" <=> at[r] = "none",
         Undecided("withdrawal")' <=> Undecided("withdrawal"),
         Undecided("topup")' <=> Undecided("topup"),
         Undecided("token")' => Undecided("token"),
         at'["token"] \in {"sent", "stuck", "confirmed"} => at["token"] \in {"sent", "stuck", "confirmed"},
         at'["token"] = "confirmed" => fate["token"] = "delivered",
         \/ hand' = Idle
         \/ hand' \in Hands /\ hand'.pc = "read" /\ at'[hand'.row] = "planned"
         \/ hand' = hand /\ at'[hand.row] = at[hand.row]
  PROVE  GasInv'
  <1>1. UNCHANGED <<price, band, coded, coin, tokens, used, fate>>
    BY DEF world, money
  <1>2. GasType'
    <2>1. Idle \in Hands /\ hand \in Hands
      BY DEF GasInv, GasType, Idle, Hands, Payments
    <2>2. hand' \in Hands
      BY <2>1
    <2>3. WorldType' /\ RowsType'
      BY <1>1 DEF GasInv, GasType, WorldType, RowsType
    <2> QED
      BY <2>2, <2>3 DEF GasType
  <1>3. \A r \in Payments : Cost(r)' = Cost(r)
    BY DEF Cost
  <1>4. Nonces' /\ SentIsPayable'
    BY <1>1, <1>2, <1>3, Still DEF GasType, GasInv, WorldType
  <1>5. TokenInv'
    BY <1>1, Names DEF GasInv, TokenInv
  <1>6. QuoteInv'
    BY DEF GasInv, QuoteInv, Good, GasOf
  <1>7. HandInv'
    <2>1. CASE hand' = Idle
      BY <2>1 DEF Idle, HandInv
    <2>2. CASE hand'.pc = "read" /\ at'[hand'.row] = "planned"
      BY <2>2 DEF HandInv
    <2>3. CASE hand' = hand /\ at'[hand.row] = at[hand.row]
      <3>1. \A r \in Payments : Before(r)' = Before(r)
        BY BeforeFacts, Names DEF Before, Undecided
      <3>2. hand.row \in Payments
        BY DEF GasInv, GasType, Hands
      <3>3. Good(hand.fee, TokenGas, band)' <=> Good(hand.fee, TokenGas, band)
        BY <1>1, <2>3 DEF Good
      <3> QED
        BY <1>1, <1>3, <2>3, <3>1, <3>2, <3>3, Names DEF GasInv, HandInv
    <2> QED
      BY <2>1, <2>2, <2>3
  <1> QED
    BY <1>2, <1>4, <1>5, <1>6, <1>7 DEF GasInv

\* A planned row is given up, with the sweep that waits for it.
LEMMA FailsPlanned ==
  ASSUME GasInv, NEW r \in Payments, at[r] = "planned",
         NEW why \in {"failed", "refused", "overpriced"}, Fails(r, why)
  PROVE  /\ at' \in [Payments -> Places]
         /\ \A q \in Payments : at'[q] = "planned" => at[q] = "planned"
         /\ \A q \in Payments : at'[q] = "none" <=> at[q] = "none"
         /\ at'["token"] \in {"sent", "stuck", "confirmed"} => at'["token"] = at["token"]
         /\ \A q \in {"withdrawal", "topup"} : q # r => at'[q] = at[q]
         /\ at'[r] \notin {"sent", "stuck"}
  BY Names DEF Fails, GasInv, GasType, RowsType, Places, TokenInv

LEMMA GiveUpStep ==
  ASSUME GasInv, NEW r \in Payments, at[r] = "planned",
         NEW why \in {"failed", "refused", "overpriced"}, Fails(r, why),
         UNCHANGED <<world, money, locked, amount, quoted, nonce, behind>>,
         hand' = Idle \/ (hand' = hand /\ hand.pc = "idle")
  PROVE  GasInv'
  <1>1. UNCHANGED fate
    BY DEF money
  <1>2. /\ Undecided("withdrawal")' <=> Undecided("withdrawal")
        /\ Undecided("topup")' <=> Undecided("topup")
        /\ Undecided("token")' => Undecided("token")
    BY <1>1, FailsPlanned, Names DEF Undecided
  <1>3. at'["token"] = "confirmed" => fate["token"] = "delivered"
    BY FailsPlanned DEF GasInv, TokenInv
  <1>4. CASE hand' = Idle
    BY <1>2, <1>3, <1>4, FailsPlanned, AtStep
  <1>5. CASE hand' = hand /\ hand.pc = "idle"
    <2>1. GasType'
      BY <1>5, FailsPlanned DEF GasInv, GasType, WorldType, RowsType, world, money
    <2>2. \A q \in Payments : Cost(q)' = Cost(q)
      BY DEF Cost
    <2>3. Nonces' /\ SentIsPayable'
      BY <1>2, <2>1, <2>2, Still DEF GasType, GasInv, WorldType, money
    <2>4. TokenInv'
      BY <1>1, <1>3, FailsPlanned, Names DEF GasInv, TokenInv, world, money
    <2>5. QuoteInv'
      BY FailsPlanned DEF GasInv, QuoteInv, Good, GasOf
    <2>6. HandInv'
      BY <1>5 DEF HandInv
    <2> QED
      BY <2>1, <2>3, <2>4, <2>5, <2>6 DEF GasInv
  <1> QED
    BY <1>4, <1>5

LEMMA BuildStep ==
  ASSUME GasInv, NEW r \in Payments, StartBuild(r) \/ GiveUp(r) \/ Throw
  PROVE  GasInv'
  <1>1. CASE StartBuild(r) /\ ~InBand(r)
    BY <1>1, GiveUpStep DEF StartBuild
  <1>2. CASE GiveUp(r)
    BY <1>2, GiveUpStep DEF GiveUp
  <1>3. CASE StartBuild(r) /\ InBand(r)
    <2> DEFINE h == [Idle EXCEPT !.pc = "read", !.row = r]
    <2>1. hand' = h /\ at' = at /\ at[r] = "planned" /\ UNCHANGED <<world, money, locked, amount, quoted, nonce, behind>>
      BY <1>3 DEF StartBuild
    <2>2. h \in Hands /\ h.pc = "read" /\ h.row = r
      BY HandFacts
    <2> HIDE DEF h
    <2>3. at \in [Payments -> Places] /\ (at["token"] = "confirmed" => fate["token"] = "delivered")
      BY DEF GasInv, GasType, RowsType, TokenInv
    <2>4. \A q \in Payments : Undecided(q)' <=> Undecided(q)
      BY <2>1 DEF Undecided, money
    <2> QED
      BY <2>1, <2>2, <2>3, <2>4, Names, AtStep
  <1>4. CASE Throw
    <2>1. hand' = Idle /\ at' = at /\ UNCHANGED <<world, money, locked, amount, quoted, nonce, behind>>
      BY <1>4 DEF Throw, rows
    <2>2. at \in [Payments -> Places] /\ (at["token"] = "confirmed" => fate["token"] = "delivered")
      BY DEF GasInv, GasType, RowsType, TokenInv
    <2>3. \A q \in Payments : Undecided(q)' <=> Undecided(q)
      BY <2>1 DEF Undecided, money
    <2> QED
      BY <2>1, <2>2, <2>3, Names, AtStep
  <1> QED
    BY <1>1, <1>2, <1>3, <1>4

LEMMA SettleStep ==
  ASSUME GasInv, NEW r \in Payments, Settle(r)
  PROVE  GasInv'
  <1>1. UNCHANGED <<world, money, locked, amount, quoted, nonce, behind, hand>> /\ at[r] \in {"sent", "stuck"}
    BY DEF Settle
  <1>2. fate' = fate /\ fate["token"] # "reverted" /\ fate["topup"] # "reverted"
    BY <1>1 DEF money, GasInv, TokenInv
  <1>3. \/ fate[r] = "delivered" /\ at' = [at EXCEPT ![r] = "confirmed"]
        \/ r = "withdrawal" /\ fate[r] = "reverted" /\ at' = [at EXCEPT ![r] = "failed"]
        \/ fate[r] = "none" /\ at' = [at EXCEPT ![r] = "stuck"]
    <2>1. CASE ReceiptOf(r) = "confirmed" /\ at' = [at EXCEPT ![r] = "confirmed"]
      BY <2>1 DEF ReceiptOf, GasInv, GasType, WorldType
    <2>2. CASE ReceiptOf(r) = "rejected" /\ Fails(r, "failed")
      <3>1. fate[r] = "reverted" /\ r = "withdrawal"
        BY <1>2, <2>2, Names DEF ReceiptOf, GasInv, GasType, WorldType
      <3> QED
        BY <2>2, <3>1, Names DEF Fails, GasInv, GasType, RowsType
    <2>3. CASE ReceiptOf(r) = "unknown" /\ at' = [at EXCEPT ![r] = "stuck"]
      BY <2>3 DEF ReceiptOf, GasInv, GasType, WorldType
    <2> QED
      BY <2>1, <2>2, <2>3 DEF Settle
  <1>4. at' \in [Payments -> Places] /\ at'[r] \in {"confirmed", "failed", "stuck"}
        /\ \A q \in Payments : q # r => at'[q] = at[q]
    BY <1>3 DEF GasInv, GasType, RowsType, Places
  <1>5. at'[r] = "stuck" <=> fate[r] = "none"
    BY <1>3 DEF GasInv, GasType, RowsType
  <1>6. \A q \in Payments : Undecided(q)' <=> Undecided(q)
    BY <1>1, <1>2, <1>4, <1>5 DEF Undecided
  <1>7. /\ \A q \in Payments : at'[q] = "planned" => at[q] = "planned"
        /\ \A q \in Payments : at'[q] = "none" <=> at[q] = "none"
    BY <1>1, <1>4
  <1>8. /\ at'["token"] \in {"sent", "stuck", "confirmed"} => at["token"] \in {"sent", "stuck", "confirmed"}
        /\ at'["token"] = "confirmed" => fate["token"] = "delivered"
    BY <1>1, <1>3, <1>4, Names DEF GasInv, GasType, RowsType, TokenInv
  <1>9. HandInv' /\ GasType'
    <2>1. GasType'
      BY <1>1, <1>4 DEF GasInv, GasType, WorldType, RowsType, world, money
    <2>2. hand.row \in Payments /\ hand' = hand
      BY <1>1 DEF GasInv, GasType, Hands
    <2>3. \A q \in Payments : Before(q)' = Before(q) /\ Cost(q)' = Cost(q)
      BY <1>1, <1>6 DEF Before, Cost
    <2>4. Good(hand.fee, TokenGas, band)' <=> Good(hand.fee, TokenGas, band)
      BY <1>1 DEF Good, world
    <2>5. hand.pc \in {"read", "sign"} => at'[hand.row] = "planned"
      BY <1>1, <1>4, <2>2 DEF GasInv, HandInv
    <2>6. hand.pc = "pair" => at'["token"] = "none"
      BY <1>7, Names DEF GasInv, HandInv
    <2> QED
      BY <1>1, <2>1, <2>2, <2>3, <2>4, <2>5, <2>6 DEF GasInv, HandInv, world, money
  <1>10. Nonces' /\ SentIsPayable'
    <2>1. \A q \in Payments : Cost(q)' = Cost(q)
      BY <1>1 DEF Cost
    <2> QED
      BY <1>1, <1>6, <1>9, <2>1, Names, Still DEF money, GasInv, GasType, WorldType
  <1>11. TokenInv' /\ QuoteInv'
    BY <1>1, <1>7, <1>8, Names DEF GasInv, TokenInv, QuoteInv, Good, GasOf, world, money
  <1> QED
    BY <1>9, <1>10, <1>11 DEF GasInv

\* The hand alone moves.
LEMMA HandStep ==
  ASSUME GasInv, UNCHANGED <<world, money, rows>>, hand' \in Hands, HandInv'
  PROVE  GasInv'
  <1>1. GasType'
    BY DEF GasInv, GasType, WorldType, RowsType, world, money, rows
  <1>2. Nonces' /\ TokenInv' /\ SentIsPayable'
    BY DEF GasInv, Nonces, TokenInv, SentIsPayable, Undecided, Cost, world, money, rows
  <1>3. QuoteInv'
    BY DEF GasInv, QuoteInv, Good, GasOf, rows
  <1> QED
    BY <1>1, <1>2, <1>3 DEF GasInv

LEMMA FeeStep ==
  ASSUME GasInv, TransferFee
  PROVE  GasInv'
  <1> DEFINE bid == GasPriceBid * TokenGas
  <1>1. bid \in Nat /\ Good(bid, TokenGas, band)
    BY GoodFee, Bounds DEF TransferFee, GasInv
  <1>2. hand' = [Idle EXCEPT !.pc = "pair", !.fee = bid] /\ at["token"] = "none" /\ UNCHANGED <<world, money, rows>>
    BY DEF TransferFee
  <1> HIDE DEF bid
  <1>3. hand' \in Hands /\ hand'.pc = "pair" /\ hand'.fee = bid
    BY <1>1, <1>2, HandFacts, Names
  <1>4. Good(hand.fee, TokenGas, band)'
    BY <1>1, <1>2, <1>3 DEF Good, world
  <1>5. HandInv'
    BY <1>2, <1>3, <1>4 DEF HandInv, rows
  <1> QED
    BY <1>2, <1>3, <1>5, HandStep

LEMMA PairStep ==
  ASSUME GasInv, PlanPair
  PROVE  GasInv'
  <1>1. hand.pc = "pair" /\ hand' = Idle /\ UNCHANGED <<world, money, nonce, behind>>
    BY DEF PlanPair
  <1>2. at["token"] = "none" /\ at["topup"] = "none" /\ Good(hand.fee, TokenGas, band) /\ hand.fee \in Nat
    BY <1>1 DEF GasInv, GasType, HandInv, TokenInv, Hands
  <1>3. Idle \in Hands /\ HandInv'
    BY <1>1 DEF Idle, Hands, Payments, HandInv
  <1>4. CASE ~Quotable
    <2>1. UNCHANGED rows
      BY <1>1, <1>4 DEF PlanPair, rows
    <2> QED
      BY <1>1, <1>3, <2>1, HandStep
  <1>5. CASE Quotable
    <2> DEFINE bid == GasPriceBid * TransferGas
    <2>1. bid \in Nat /\ Good(bid, TransferGas, band)
      BY <1>5, GoodFee, Bounds DEF GasInv
    <2>2. /\ at' = [at EXCEPT !["topup"] = "planned", !["token"] = "planned"]
          /\ locked' = [locked EXCEPT !["topup"] = bid, !["token"] = hand.fee]
          /\ amount' = [amount EXCEPT !["topup"] = hand.fee, !["token"] = tokens]
          /\ quoted' = [quoted EXCEPT !["topup"] = band, !["token"] = band]
      BY <1>5 DEF PlanPair
    <2> HIDE DEF bid
    <2>3. UNCHANGED <<price, band, coded, coin, tokens, used, fate>>
      BY <1>1 DEF world, money
    <2>4. /\ at'["topup"] = "planned" /\ at'["token"] = "planned" /\ at'["withdrawal"] = at["withdrawal"]
          /\ locked'["topup"] = bid /\ locked'["token"] = hand.fee /\ locked'["withdrawal"] = locked["withdrawal"]
          /\ amount'["token"] = tokens /\ amount'["withdrawal"] = amount["withdrawal"]
          /\ quoted'["topup"] = band /\ quoted'["token"] = band /\ quoted'["withdrawal"] = quoted["withdrawal"]
      BY <2>2, Names DEF GasInv, GasType, RowsType
    <2>5. GasType'
      <3>1. WorldType'
        BY <2>3 DEF GasInv, GasType, WorldType
      <3>2. tokens = 1 /\ band \in Bands
        BY <1>2, Names DEF GasInv, GasType, WorldType, TokenInv
      <3>3. RowsType'
        BY <1>1, <1>2, <2>1, <2>2, <3>2, Names DEF GasInv, GasType, RowsType, Places
      <3> QED
        BY <1>1, <1>3, <3>1, <3>3 DEF GasType
    <2>6. /\ Undecided("withdrawal")' <=> Undecided("withdrawal")
          /\ ~Undecided("topup") /\ ~Undecided("topup")' /\ ~Undecided("token")'
      BY <1>2, <2>3, <2>4 DEF Undecided
    <2>7. \A r \in Payments : Undecided(r) => Cost(r)' = Cost(r)
      BY <1>2, <2>4, Names DEF Undecided, Cost
    <2>8. Nonces' /\ SentIsPayable'
      BY <1>1, <2>3, <2>5, <2>6, <2>7, Still DEF GasInv, GasType, WorldType
    <2>9. TokenInv'
      BY <1>2, <2>3, <2>4, Names DEF GasInv, GasType, WorldType, TokenInv
    <2>10. QuoteInv'
      BY <1>2, <2>1, <2>4, Names DEF GasInv, QuoteInv, Good, GasOf
    <2> QED
      BY <1>3, <2>5, <2>8, <2>9, <2>10 DEF GasInv
  <1> QED
    BY <1>4, <1>5

LEMMA ReadStep ==
  ASSUME GasInv, ReadChain
  PROVE  GasInv'
  <1>1. PICK r \in Payments : hand.row = r
    BY DEF GasInv, GasType, Hands
  <1>2. at[r] = "planned" /\ hand.pc = "read" /\ UNCHANGED <<world, money, locked, amount, quoted, nonce>>
    BY <1>1 DEF ReadChain, GasInv, HandInv
  <1>3. CASE Fails(r, "refused") /\ hand' = Idle /\ UNCHANGED behind
    BY <1>2, <1>3, GiveUpStep
  <1>4. CASE hand' = Idle /\ UNCHANGED <<at, behind>>
    <2>1. Idle \in Hands /\ HandInv'
      BY <1>4 DEF Idle, Hands, Payments, HandInv
    <2> QED
      BY <1>2, <1>4, <2>1, HandStep DEF rows
  <1>5. CASE /\ Takes(r) /\ Covers(r)
             /\ hand' = [hand EXCEPT !.pc = "sign", !.nonce = used[Source(r)] + Cardinality(Before(r))]
             /\ behind' = [behind EXCEPT ![r] = Before(r)]
             /\ UNCHANGED at
    <2> DEFINE n == used[Source(r)] + Cardinality(Before(r))
    <2>1. n \in Nat /\ n = used[Source(r)] + (IF Before(r) = {} THEN 0 ELSE 1)
      BY BeforeCount, Names DEF GasInv, GasType, WorldType, Accounts
    <2>2. hand \in Hands /\ hand' = [hand EXCEPT !.pc = "sign", !.nonce = n]
      BY <1>5 DEF GasInv, GasType
    <2> HIDE DEF n
    <2>3. hand' \in Hands /\ hand'.pc = "sign" /\ hand'.row = r /\ hand'.nonce = n
      BY <1>1, <2>1, <2>2, SignFacts
    <2>4. Before(r) \in SUBSET Payments /\ behind'[r] = Before(r) /\ \A q \in Payments : q # r => behind'[q] = behind[q]
      BY <1>5 DEF Before, GasInv, GasType, RowsType
    <2>5. UNCHANGED <<price, band, coded, coin, tokens, used, fate, at, locked, amount, quoted, nonce>>
      BY <1>2, <1>5 DEF world, money
    <2>6. \A q \in Payments : (Undecided(q)' <=> Undecided(q)) /\ Cost(q)' = Cost(q)
      BY <2>5 DEF Undecided, Cost
    <2>7. ~Undecided(r)
      BY <1>2 DEF Undecided
    <2>8. GasType'
      BY <1>5, <2>3, <2>4, <2>5 DEF GasInv, GasType, WorldType, RowsType
    <2>9. Nonces'
      BY <2>4, <2>5, <2>6, <2>7, Names DEF GasInv, Nonces
    <2>10. SentIsPayable'
      BY <2>4, <2>5, <2>6, <2>7 DEF GasInv, SentIsPayable
    <2>11. TokenInv'
      BY <2>5 DEF GasInv, TokenInv
    <2>12. QuoteInv'
      BY <2>5 DEF GasInv, QuoteInv, Good, GasOf
    <2>13. Before(r)' = Before(r)
      BY <2>6 DEF Before
    <2>14. coin[Source(r)] >= Cost(r) /\ (r = "token" => "contract" \in coded)
      BY <1>5 DEF Takes, Covers
    <2>15. HandInv'
      BY <1>2, <2>1, <2>3, <2>4, <2>5, <2>6, <2>13, <2>14 DEF HandInv
    <2> QED
      BY <2>8, <2>9, <2>10, <2>11, <2>12, <2>15 DEF GasInv
  <1> QED
    BY <1>1, <1>2, <1>3, <1>4, <1>5 DEF ReadChain

\* What was read is signed: the row holds the next nonce of its address.
LEMMA SignStep ==
  ASSUME GasInv, Sign
  PROVE  GasInv'
  <1>1. PICK r \in Payments : hand.row = r
    BY DEF GasInv, GasType, Hands
  <1>2. /\ hand.pc = "sign" /\ hand' = Idle /\ at' = [at EXCEPT ![r] = "sent"]
        /\ nonce' = [nonce EXCEPT ![r] = hand.nonce]
        /\ UNCHANGED <<world, money, locked, amount, quoted, behind>>
    BY <1>1 DEF Sign
  <1>3. UNCHANGED <<price, band, coded, coin, tokens, used, fate>>
    BY <1>2 DEF world, money
  <1>4. /\ at[r] = "planned" /\ hand.nonce \in Nat
        /\ hand.nonce = used[Source(r)] + (IF Before(r) = {} THEN 0 ELSE 1)
        /\ Before(r) \subseteq behind[r]
        /\ behind[r] = {} => coin[Source(r)] >= Cost(r)
        /\ r = "token" => "contract" \in coded
    BY <1>1, <1>2 DEF GasInv, GasType, Hands, HandInv
  <1>5. Idle \in Hands /\ HandInv'
    BY <1>2 DEF Idle, Hands, Payments, HandInv
  <1>6. /\ at'[r] = "sent" /\ nonce'[r] = hand.nonce
        /\ \A q \in Payments : q # r => at'[q] = at[q] /\ nonce'[q] = nonce[q]
    BY <1>2 DEF GasInv, GasType, RowsType
  <1>7. GasType'
    BY <1>2, <1>3, <1>4, <1>5 DEF GasInv, GasType, WorldType, RowsType, Places
  <1>8. /\ \A q \in Payments : q # r => (Undecided(q)' <=> Undecided(q))
        /\ Undecided(r)' => fate[r] = "none"
        /\ ~Undecided(r)
        /\ \A q \in Payments : Cost(q)' = Cost(q)
    BY <1>2, <1>3, <1>4, <1>6 DEF Undecided, Cost
  <1>9. Nonces'
    <2>0. used["treasury"] \in Nat /\ used["deposit"] \in Nat
      BY DEF GasInv, GasType, WorldType, Accounts
    <2>1. CASE r = "token"
      <3>1. nonce'["token"] = used["deposit"]
        BY <1>4, <1>6, <2>0, <2>1, BeforeFacts, Names
      <3>2. /\ behind' = behind /\ nonce'["withdrawal"] = nonce["withdrawal"] /\ nonce'["topup"] = nonce["topup"]
            /\ Undecided("withdrawal")' <=> Undecided("withdrawal")
            /\ Undecided("topup")' <=> Undecided("topup")
        BY <1>2, <1>6, <1>8, <2>1, Names
      <3> QED
        BY <1>3, <3>1, <3>2, Names DEF GasInv, Nonces
    <2>2. CASE r = "withdrawal"
      <3>1. Before(r) = IF Undecided("topup") THEN {"topup"} ELSE {}
        BY <2>2, BeforeFacts
      <3>2. nonce'[r] = used["treasury"] + (IF Undecided("topup") THEN 1 ELSE 0)
        BY <1>4, <1>6, <2>0, <2>2, <3>1, Names
      <3>3. behind'[r] = {} => ~Undecided("topup")
        BY <1>2, <1>4, <3>1
      <3> QED
        BY <1>2, <1>3, <1>6, <1>8, <2>0, <2>2, <3>2, <3>3, Names DEF GasInv, Nonces
    <2>3. CASE r = "topup"
      <3>1. Before(r) = IF Undecided("withdrawal") THEN {"withdrawal"} ELSE {}
        BY <2>3, BeforeFacts
      <3>2. nonce'[r] = used["treasury"] + (IF Undecided("withdrawal") THEN 1 ELSE 0)
        BY <1>4, <1>6, <2>0, <2>3, <3>1, Names
      <3>3. behind'[r] = {} => ~Undecided("withdrawal")
        BY <1>2, <1>4, <3>1
      <3> QED
        BY <1>2, <1>3, <1>6, <1>8, <2>0, <2>3, <3>2, <3>3, Names DEF GasInv, Nonces
    <2> QED
      BY <2>1, <2>2, <2>3, Names
  <1>10. SentIsPayable'
    BY <1>2, <1>3, <1>4, <1>8 DEF GasInv, SentIsPayable
  <1>11. TokenInv'
    BY <1>2, <1>3, <1>4, <1>6, Names DEF GasInv, TokenInv
  <1>12. QuoteInv'
    BY <1>2, <1>6 DEF GasInv, QuoteInv, Good, GasOf
  <1> QED
    BY <1>5, <1>7, <1>9, <1>10, <1>11, <1>12 DEF GasInv

\* The chain applies a payment of the treasury: the other one, if it is undecided,
\* was built behind it and is next.
LEMMA TreasuryStep ==
  ASSUME GasInv, UNCHANGED <<world, rows, hand, tokens>>,
         NEW r \in {"withdrawal", "topup"}, Undecided(r), nonce[r] = used["treasury"],
         used' = [used EXCEPT !["treasury"] = @ + 1],
         fate' \in [Payments -> {"none", "delivered", "reverted"}], fate'[r] # "none",
         \A q \in Payments : q # r => fate'[q] = fate[q],
         fate'["topup"] # "reverted",
         coin' \in [Accounts -> Int], coin'["deposit"] >= coin["deposit"]
  PROVE  GasInv'
  <1>1. UNCHANGED <<price, band, coded, at, locked, amount, quoted, nonce, behind>>
    BY DEF world, rows
  <1>2. /\ used["treasury"] \in Nat /\ used'["treasury"] = used["treasury"] + 1
        /\ used'["deposit"] = used["deposit"] /\ used' \in [Accounts -> Nat]
    BY DEF GasInv, GasType, WorldType, Accounts
  <1>3. GasType'
    BY <1>1, <1>2 DEF GasInv, GasType, WorldType, RowsType
  <1>4. /\ ~Undecided(r)' /\ \A q \in Payments : q # r => (Undecided(q)' <=> Undecided(q))
        /\ \A q \in Payments : Cost(q)' = Cost(q)
    BY <1>1 DEF Undecided, Cost
  <1>5. PICK p \in {"withdrawal", "topup"} : p = Peer(r) /\ p # r /\ r = Peer(p)
    BY Names
  <1>6. Undecided(p) => nonce[p] = used'["treasury"] /\ behind[p] # {}
    BY <1>2, <1>5 DEF GasInv, Nonces
  <1>7. Nonces'
    <2>1. /\ ~Undecided(r)' /\ (Undecided(p)' <=> Undecided(p)) /\ (Undecided("token")' <=> Undecided("token"))
      BY <1>4, <1>5, Names
    <2>2. Undecided("token")' => nonce'["token"] = used'["deposit"]
      BY <1>1, <1>2, <2>1 DEF GasInv, Nonces
    <2>3. \A q \in {"withdrawal", "topup"} : q = r \/ q = p
      BY <1>5
    <2> QED
      BY <1>1, <1>2, <1>5, <1>6, <2>1, <2>2, <2>3 DEF Nonces
  <1>8. SentIsPayable'
    <2> SUFFICES ASSUME NEW q \in Payments, Undecided(q)', behind'[q] = {}
                 PROVE  coin'[Source(q)] >= Cost(q)'
      BY DEF SentIsPayable
    <2>1. q = "token" /\ Undecided("token")
      BY <1>1, <1>4, <1>5, <1>6, Names
    <2>2. coin["deposit"] >= Cost("token") /\ coin["deposit"] \in Int /\ Cost("token") \in Int
      BY <1>1, <2>1, Names DEF GasInv, GasType, WorldType, RowsType, SentIsPayable, Cost, Accounts
    <2> QED
      BY <1>3, <1>4, <2>1, <2>2, Names DEF GasType, WorldType, Accounts
  <1>9. TokenInv' /\ QuoteInv'
    BY <1>1, Names DEF GasInv, TokenInv, QuoteInv, Good, GasOf
  <1>10. HandInv'
    <2>1. CASE hand.pc \in {"read", "sign"}
      <3>1. PICK h \in Payments : h = hand.row /\ at[h] = "planned" /\ h # r
        BY <2>1 DEF GasInv, GasType, Hands, HandInv, Undecided
      <3>2. CASE hand.pc = "read"
        BY <1>1, <3>1, <3>2 DEF HandInv
      <3>3. CASE hand.pc = "sign"
        <4>1. /\ hand.nonce = used[Source(h)] + (IF Before(h) = {} THEN 0 ELSE 1)
              /\ Before(h) \subseteq behind[h]
              /\ behind[h] = {} => coin[Source(h)] >= Cost(h)
              /\ h = "token" => "contract" \in coded
          BY <3>1, <3>3 DEF GasInv, HandInv
        <4>2. CASE h = "token"
          <5>1. Before(h) = {} /\ Before(h)' = {}
            BY <4>2, BeforeFacts DEF Before, Payments, Source
          <5>2. /\ coin["deposit"] \in Int /\ coin'["deposit"] \in Int /\ Cost("token") \in Int
                /\ Cost("token")' = Cost("token")
            BY <1>3, <1>4, Names DEF GasInv, GasType, WorldType, RowsType, Cost, Accounts
          <5>3. behind'[h] = {} => coin'[Source(h)] >= Cost(h)'
            BY <1>1, <4>1, <4>2, <5>2, Names
          <5>4. hand'.nonce = used'[Source(h)]
            BY <1>2, <4>1, <4>2, <5>1, Names DEF GasInv, GasType, WorldType, Accounts
          <5>5. hand'.nonce = used'[Source(h)] + (IF Before(h)' = {} THEN 0 ELSE 1)
            BY <1>3, <5>1, <5>4, <4>2, Names DEF GasType, WorldType, Accounts
          <5> QED
            BY <1>1, <3>1, <3>3, <4>1, <5>1, <5>3, <5>5 DEF HandInv
        <4>3. CASE h = p
          <5>1. r \in Before(h)
            BY <1>5, <4>3, Names DEF Before
          <5>2. Before(h)' = {}
            BY <1>4, <1>5, <4>3, Names DEF Before
          <5>3. behind[h] # {} /\ hand.nonce = used["treasury"] + 1
            BY <4>1, <4>3, <5>1, Names
          <5>4. hand'.nonce = used'[Source(h)] + (IF Before(h)' = {} THEN 0 ELSE 1)
            BY <1>2, <4>3, <5>2, <5>3, Names
          <5> QED
            BY <1>1, <1>5, <3>1, <3>3, <4>3, <5>2, <5>3, <5>4 DEF HandInv
        <4> QED
          BY <1>5, <3>1, <4>2, <4>3, Names
      <3> QED
        BY <2>1, <3>2, <3>3
    <2>2. CASE hand.pc = "pair"
      BY <1>1, <2>2 DEF GasInv, HandInv, Good
    <2>3. CASE hand.pc = "idle"
      BY <2>3 DEF HandInv
    <2> QED
      BY <2>1, <2>2, <2>3 DEF GasInv, GasType, Hands
  <1> QED
    BY <1>3, <1>7, <1>8, <1>9, <1>10 DEF GasInv

LEMMA PayStep ==
  ASSUME GasInv, NEW r \in Payments, Pay(r) \/ Revert(r)
  PROVE  GasInv'
  <1>1. Apply(r, "delivered") \/ Apply(r, "reverted")
    BY DEF Pay, Revert
  <1>2. r \in {"withdrawal", "topup"} /\ UNCHANGED tokens
    BY Names DEF Pay, Revert
  <1>3. /\ Undecided(r) /\ nonce[r] = used["treasury"] /\ used' = [used EXCEPT !["treasury"] = @ + 1]
        /\ UNCHANGED <<world, rows, hand>>
    BY <1>1, <1>2, Names DEF Apply
  <1>4. /\ fate' = [fate EXCEPT ![r] = "delivered"] \/ (r = "withdrawal" /\ fate' = [fate EXCEPT ![r] = "reverted"])
    BY DEF Pay, Revert, Apply
  <1>5. /\ fate' \in [Payments -> {"none", "delivered", "reverted"}] /\ fate'[r] # "none"
        /\ \A q \in Payments : q # r => fate'[q] = fate[q]
        /\ fate'["topup"] # "reverted"
    BY <1>4, Names DEF GasInv, GasType, WorldType, TokenInv
  <1>6. Cost(r) \in Int /\ amount[r] \in Nat /\ locked[r] \in Nat /\ coin \in [Accounts -> Int]
    BY DEF GasInv, GasType, WorldType, RowsType, Cost
  <1>7. coin' \in [Accounts -> Int] /\ coin'["deposit"] >= coin["deposit"]
    <2>1. CASE Pay(r)
      <3>1. coin' = [a \in Accounts |-> IF a = "treasury" THEN coin[a] - Cost(r)
                                        ELSE IF r = "topup" THEN coin[a] + amount[r] ELSE coin[a]]
        BY <1>6, <2>1 DEF Pay
      <3> QED
        BY <1>6, <3>1 DEF Accounts
    <2>2. CASE Revert(r)
      BY <1>6, <2>2 DEF Revert, Accounts
    <2> QED
      BY <2>1, <2>2
  <1> QED
    BY <1>2, <1>3, <1>5, <1>7, TreasuryStep

\* The chain applies the call of the token contract.
LEMMA CallStep ==
  ASSUME GasInv, NEW r \in Payments, CallContract(r)
  PROVE  GasInv'
  <1>1. /\ r = "token" /\ Undecided("token") /\ used' = [used EXCEPT !["deposit"] = @ + 1]
        /\ fate' = [fate EXCEPT !["token"] = "delivered"]
        /\ UNCHANGED <<world, rows, hand>>
    BY Names DEF CallContract, Apply
  <1>2. UNCHANGED <<price, band, coded, at, locked, amount, quoted, nonce, behind>>
    BY <1>1 DEF world, rows
  <1>3. /\ at["token"] \in {"sent", "stuck"} /\ fate["token"] = "none" /\ tokens = 1
        /\ amount["token"] = 1 /\ "contract" \in coded
    BY <1>1 DEF GasInv, TokenInv, Undecided
  <1>4. tokens' = 0
    BY <1>1, <1>3 DEF CallContract
  <1>5. coin' \in [Accounts -> Int] /\ coin'["treasury"] = coin["treasury"]
    <2>1. Bid("token") \in Nat
      BY Bounds, Names DEF GasInv, GasType, RowsType, Bid
    <2>2. PICK g \in 1..TokenGas : coin' = [coin EXCEPT !["deposit"] = @ - g * Bid("token")]
      BY <1>1 DEF CallContract
    <2>3. g * Bid("token") \in Int
      BY <2>1
    <2> QED
      BY <2>2, <2>3 DEF GasInv, GasType, WorldType, Accounts
  <1>6. /\ used'["treasury"] = used["treasury"] /\ used' \in [Accounts -> Nat]
        /\ fate'["token"] = "delivered" /\ fate'["withdrawal"] = fate["withdrawal"] /\ fate'["topup"] = fate["topup"]
    BY <1>1, Names DEF GasInv, GasType, WorldType, Accounts
  <1>7. GasType'
    BY <1>1, <1>2, <1>4, <1>5, <1>6 DEF GasInv, GasType, WorldType, RowsType
  <1>8. /\ ~Undecided("token")'
        /\ Undecided("withdrawal")' <=> Undecided("withdrawal")
        /\ Undecided("topup")' <=> Undecided("topup")
        /\ \A q \in Payments : Cost(q)' = Cost(q)
    BY <1>2, <1>6 DEF Undecided, Cost
  <1>9. Nonces'
    BY <1>2, <1>6, <1>8, Names DEF GasInv, Nonces
  <1>10. SentIsPayable'
    BY <1>2, <1>5, <1>8, Names DEF GasInv, SentIsPayable
  <1>11. TokenInv' /\ QuoteInv'
    BY <1>2, <1>3, <1>4, <1>6, Names DEF GasInv, TokenInv, QuoteInv, Good, GasOf
  <1>12. HandInv'
    <2>1. hand' = hand /\ hand.row \in Payments
      BY <1>1 DEF GasInv, GasType, Hands
    <2>2. hand.pc \in {"read", "sign"} => hand.row \in {"withdrawal", "topup"}
      BY <1>3, <2>1, Names DEF GasInv, HandInv
    <2>3. Before("withdrawal")' = Before("withdrawal") /\ Before("topup")' = Before("topup")
      BY <1>8, Names DEF Before
    <2>4. Good(hand.fee, TokenGas, band)' <=> Good(hand.fee, TokenGas, band)
      BY <1>2, <2>1 DEF Good
    <2>5. \A q \in {"withdrawal", "topup"} : /\ Source(q) = "treasury" /\ Before(q)' = Before(q) /\ q \in Payments
                                           /\ Cost(q)' = Cost(q)
      BY <1>8, <2>3, Names
    <2> QED
      BY <1>2, <1>5, <1>6, <2>1, <2>2, <2>4, <2>5 DEF GasInv, HandInv
  <1> QED
    BY <1>7, <1>9, <1>10, <1>11, <1>12 DEF GasInv

\* The world moves on: coin comes, code comes, the price or the deployment changes.
LEMMA WorldStep ==
  ASSUME GasInv,
         (\E p \in Prices : MovePrice(p)) \/ (\E b \in Bands : Deploy(b))
         \/ (\E a \in {"user", "contract"} : GainCode(a)) \/ Receive
  PROVE  GasInv'
  <1>1. /\ UNCHANGED <<at, locked, amount, quoted, nonce, behind, tokens, used, fate>>
        /\ price' \in Prices /\ band' \in Bands
        /\ coded \subseteq coded' /\ coded' \in SUBSET {"user", "contract"}
        /\ (hand' = hand /\ band' = band) \/ hand' = Idle
    BY DEF GasInv, GasType, WorldType, MovePrice, Deploy, GainCode, Receive, world, money, rows
  <1>2. coin' \in [Accounts -> Int] /\ \A a \in Accounts : coin'[a] >= coin[a]
    BY GasAssumption DEF GasInv, GasType, WorldType, Accounts, MovePrice, Deploy, GainCode, Receive, money
  <1>3. Idle \in Hands /\ Idle.pc = "idle"
    BY DEF Idle, Hands, Payments
  <1>4. GasType'
    BY <1>1, <1>2, <1>3 DEF GasInv, GasType, WorldType, RowsType
  <1>5. \A q \in Payments : (Undecided(q)' <=> Undecided(q)) /\ Cost(q)' = Cost(q) /\ Before(q)' = Before(q)
    BY <1>1 DEF Undecided, Cost, Before
  <1>6. Nonces' /\ SentIsPayable'
    BY <1>1, <1>2, <1>4, <1>5, Names, Still DEF GasType, WorldType
  <1>7. TokenInv' /\ QuoteInv'
    BY <1>1, Names DEF GasInv, TokenInv, QuoteInv, Good, GasOf
  <1>8. HandInv'
    <2>1. CASE hand' = Idle
      BY <1>3, <2>1 DEF HandInv
    <2>2. CASE hand' = hand /\ band' = band
      <3>1. hand.row \in Payments /\ Source(hand.row) \in Accounts
        BY Names DEF GasInv, GasType, Hands, Accounts
      <3>2. coin[Source(hand.row)] >= Cost(hand.row) => coin'[Source(hand.row)] >= Cost(hand.row)
        <4>1. Cost(hand.row) \in Int /\ coin[Source(hand.row)] \in Int /\ coin'[Source(hand.row)] \in Int
          BY <1>2, <3>1 DEF GasInv, GasType, WorldType, RowsType, Cost
        <4> QED
          BY <1>2, <3>1, <4>1
      <3>3. Good(hand.fee, TokenGas, band)' <=> Good(hand.fee, TokenGas, band)
        BY <2>2 DEF Good
      <3> QED
        BY <1>1, <1>5, <2>2, <3>1, <3>2, <3>3 DEF GasInv, HandInv
    <2> QED
      BY <1>1, <2>1, <2>2
  <1> QED
    BY <1>4, <1>6, <1>7, <1>8 DEF GasInv

LEMMA GasInvStep == GasInv /\ [GasNext]_gasVars => GasInv'
  <1> SUFFICES ASSUME GasInv, [GasNext]_gasVars PROVE GasInv'
    OBVIOUS
  <1>1. CASE QuoteWithdrawal \/ TransferFee \/ PlanPair \/ ReadChain \/ Sign
    BY <1>1, QuoteStep, FeeStep, PairStep, ReadStep, SignStep
  <1>2. CASE Throw \/ \E r \in Payments : StartBuild(r) \/ GiveUp(r) \/ Settle(r)
    BY <1>2, BuildStep, SettleStep, Names
  <1>3. CASE \E r \in Payments : Pay(r) \/ Revert(r) \/ CallContract(r)
    BY <1>3, PayStep, CallStep
  <1>4. CASE (\E p \in Prices : MovePrice(p)) \/ (\E b \in Bands : Deploy(b))
             \/ (\E a \in {"user", "contract"} : GainCode(a)) \/ Receive
    BY <1>4, WorldStep
  <1>5. CASE UNCHANGED gasVars
    <2>1. UNCHANGED <<world, money, rows, hand>> /\ hand \in Hands
      BY <1>5 DEF gasVars, GasInv, GasType
    <2>2. HandInv'
      BY <2>1 DEF GasInv, HandInv, Good, Before, Undecided, Cost, world, money, rows
    <2> QED
      BY <2>1, <2>2, HandStep
  <1> QED
    BY <1>1, <1>2, <1>3, <1>4, <1>5 DEF GasNext

LEMMA GasInvHolds == GasSpec => []GasInv
  BY GasInvInit, GasInvStep, PTL DEF GasSpec

\* A token sweep that is confirmed has moved its tokens: it was signed when the
\* contract held code, which stays, and it is applied once.
THEOREM ConfirmedMovesTokensHolds == GasSpec => []ConfirmedMovesTokens
  <1>1. GasInv => ConfirmedMovesTokens
    BY DEF GasInv, TokenInv, ConfirmedMovesTokens
  <1> QED
    BY <1>1, GasInvHolds, PTL

\* A payment that was sent, and was not built behind a stuck one, stays payable
\* until it is decided, whatever is built behind it and in whichever order.
THEOREM SentIsPayableHolds == GasSpec => []SentIsPayable
  <1>1. GasInv => SentIsPayable
    BY DEF GasInv
  <1> QED
    BY <1>1, GasInvHolds, PTL

\* A fee that is a price of the band times the gas of the row is not refused.
LEMMA GoodIsInBand ==
  ASSUME GasInv, NEW r \in Payments, Good(locked[r], GasOf(r), band)
  PROVE  InBand(r)
  <1>1. GasOf(r) \in Nat \ {0} /\ GasOf(r) <= TokenGas /\ TokenGas \in Nat
    BY GasAssumption, Names
  <1>2. band \in Bands
    BY DEF GasInv, GasType, WorldType
  <1>3. /\ band.min \in Nat \ {0} /\ band.max \in Nat \ {0} /\ band.cap \in Nat
        /\ band.max * TokenGas <= band.cap
    BY <1>2, Bounds
  <1>4. PICK p \in band.min..band.max : locked[r] = p * GasOf(r)
    BY DEF Good
  <1>5. p \in Nat \ {0} /\ p <= band.max
    BY <1>3
  <1>6. \A g \in Nat \ {0} : (p * g) \div g = p /\ (p * g) % g = 0
    BY <1>5
  <1>7. p * GasOf(r) <= band.max * TokenGas
    BY <1>1, <1>3, <1>5
  <1>8. p * GasOf(r) \in Nat \ {0}
    BY <1>1, <1>5
  <1>9. locked[r] \in 1..band.cap
    BY <1>3, <1>4, <1>7, <1>8, <1>1
  <1>10. locked[r] % GasOf(r) = 0 /\ GasPriceForLockedFee(r) = p
    BY <1>1, <1>4, <1>6 DEF GasPriceForLockedFee
  <1> QED
    BY <1>9, <1>10, <1>4 DEF InBand

\* A row is refused for its fee only under other bounds than those it was quoted
\* under, whatever the price did in between.
THEOREM QuotedIsBuildableHolds == GasSpec => QuotedIsBuildable
  <1>1. GasInv /\ [GasNext]_gasVars =>
          \A r \in Payments : at[r] = "planned" /\ at'[r] = "overpriced" => quoted[r] # band
    <2> SUFFICES ASSUME GasInv, [GasNext]_gasVars,
                        NEW r \in Payments, at[r] = "planned", at'[r] = "overpriced", quoted[r] = band
                 PROVE  FALSE
      OBVIOUS
    <2>1. InBand(r)
      BY GoodIsInBand DEF GasInv, QuoteInv
    <2>2. at \in [Payments -> Places]
      BY DEF GasInv, GasType, RowsType
    <2>3. ASSUME NEW q \in Payments, StartBuild(q) PROVE FALSE
      BY <2>1, <2>3, <2>2 DEF StartBuild, Fails
    <2>4. ASSUME NEW q \in Payments, GiveUp(q) \/ Settle(q) PROVE FALSE
      BY <2>2, <2>4 DEF GiveUp, Settle, Fails
    <2>5. CASE ReadChain \/ Sign \/ Throw \/ UNCHANGED gasVars
      BY <2>2, <2>5 DEF ReadChain, Sign, Throw, Fails, gasVars, rows, GasInv, GasType, Hands
    <2>6. CASE QuoteWithdrawal \/ TransferFee \/ PlanPair
      BY <2>2, <2>6 DEF QuoteWithdrawal, TransferFee, PlanPair, rows
    <2>7. ASSUME NEW q \in Payments, Pay(q) \/ Revert(q) \/ CallContract(q) PROVE FALSE
      BY <2>2, <2>7 DEF Pay, Revert, CallContract, Apply, rows
    <2>8. CASE (\E p \in Prices : MovePrice(p)) \/ (\E b \in Bands : Deploy(b))
               \/ (\E a \in {"user", "contract"} : GainCode(a)) \/ Receive
      BY <2>2, <2>8 DEF MovePrice, Deploy, GainCode, Receive, rows
    <2> QED
      BY <2>3, <2>4, <2>5, <2>6, <2>7, <2>8 DEF GasNext
  <1> QED
    BY <1>1, GasInvHolds, PTL DEF GasSpec, QuotedIsBuildable
=============================================================================
