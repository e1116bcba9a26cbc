-------------------------------- MODULE Gas --------------------------------
(***************************************************************************)
(* The EVM adapter, evm.ts, as far as money goes: the fee of a row is      *)
(* quoted at one gas price and locked, and the row is built later, when    *)
(* the chain asks another price, under bounds a deployment may have        *)
(* changed, from a balance and a nonce that are read at once and used a    *)
(* signature later.  A withdrawal and a top-up spend the treasury; the     *)
(* token sweep spends the gas its top-up brought to a deposit address.     *)
(*                                                                         *)
(* Signing, committing and sending are one step, and the slot of the chain *)
(* and the order of the pair are guards: the module Outbound has them step *)
(* by step.  Encodings, chain ids and checksums are left out.              *)
(***************************************************************************)
EXTENDS Integers, FiniteSets

CONSTANTS
  Prices,       \* what eth_gasPrice may answer
  Bands,        \* the bounds a deployment may have: [min, max, cap]
  TransferGas,  \* TRANSFER_GAS
  TokenGas,     \* TOKEN_TRANSFER_GAS
  Pays,         \* what the withdrawal pays
  Held,         \* what the treasury may hold at first
  Income,       \* coin that may still come to it
  MaxMoves,     \* bound: changes of the gas price
  MaxDeploys    \* bound: deployments with other bounds

\* min <= max is checked at the start (env.ts); that no fee inside the band of
\* prices exceeds the cap is true of the defaults and checked nowhere.
ASSUME GasAssumption ==
  /\ TransferGas \in Nat \ {0} /\ TokenGas \in Nat \ {0} /\ TransferGas <= TokenGas
  /\ Prices \subseteq Nat \ {0} /\ Pays \in Nat \ {0} /\ Held \subseteq Nat /\ Income \in Nat
  /\ Bands \subseteq [min : Nat \ {0}, max : Nat \ {0}, cap : Nat]
  /\ \A b \in Bands : b.min <= b.max /\ b.max * TokenGas <= b.cap
  /\ MaxMoves \in Nat /\ MaxDeploys \in Nat

Payments == {"withdrawal", "topup", "token"}

VARIABLES
  price, moved,     \* the gas price of the chain, and its changes so far
  band, deploys,    \* the bounds of this deployment, and their changes so far
  coin, tokens,     \* coin of the treasury and the deposit address, tokens of the latter
  coded,            \* which of the user's address and the contract hold code
  used,             \* transactions of each address the chain has applied
  at,               \* where each row is
  locked, amount,   \* its fee and amount
  quoted,           \* the bounds its fee was quoted under
  nonce, behind,    \* the nonce it was built at, and the undecided rows before it
  fate,             \* what the chain did with it
  hand              \* the call in progress

world == <<price, moved, band, deploys, coded>>
money == <<coin, tokens, used, fate>>
rows  == <<at, locked, amount, quoted, nonce, behind>>
gasVars == <<world, money, rows, hand>>

None == [min |-> 0, max |-> 0, cap |-> 0]
Idle == [pc |-> "idle", row |-> "withdrawal", fee |-> 0, nonce |-> 0]

\* The purpose of a row decides the address it spends and the shape of its bytes,
\* in one place; the shape decides the gas its fee is divided by.
Source(r) == IF r = "token" THEN "deposit" ELSE "treasury"

\* Mutant: every fee is divided by the gas of a native transfer.
GasOf_Native(r) == TransferGas
GasOf(r) == IF r = "token" THEN TokenGas ELSE TransferGas

(***************************************************************************)
(* Prices and fees.                                                        *)
(***************************************************************************)
Least(m, n) == IF m < n THEN m ELSE n

Base == IF price > band.min THEN price ELSE band.min

\* The ceiling is looked at before the price is doubled.
Quotable == Base <= band.max
GasPriceBid == Least(2 * Base, band.max)

GasPriceForLockedFee(r) == locked[r] \div GasOf(r)

\* What gasPriceForLockedFee does not refuse.
InBand(r) ==
  /\ locked[r] \in 1..band.cap /\ locked[r] % GasOf(r) = 0
  /\ GasPriceForLockedFee(r) \in band.min..band.max

\* GET /v1/fees, which wallet locks onto the withdrawal it asks for.
QuoteWithdrawal ==
  /\ at["withdrawal"] = "none" /\ Quotable
  /\ at' = [at EXCEPT !["withdrawal"] = "planned"]
  /\ locked' = [locked EXCEPT !["withdrawal"] = GasPriceBid * TransferGas]
  /\ amount' = [amount EXCEPT !["withdrawal"] = Pays]
  /\ quoted' = [quoted EXCEPT !["withdrawal"] = band]
  /\ UNCHANGED <<world, money, nonce, behind, hand>>

\* planTokenSweep: what the sweep will cost, and only then what its top-up will.
TransferFee ==
  /\ hand.pc = "idle" /\ at["token"] = "none" /\ tokens > 0 /\ Quotable
  /\ hand' = [Idle EXCEPT !.pc = "pair", !.fee = GasPriceBid * TokenGas]
  /\ UNCHANGED <<world, money, rows>>

PlanPair ==
  /\ hand.pc = "pair"
  /\ hand' = Idle
  /\ IF Quotable
     THEN /\ at' = [at EXCEPT !["topup"] = "planned", !["token"] = "planned"]
          /\ locked' = [locked EXCEPT !["topup"] = GasPriceBid * TransferGas, !["token"] = hand.fee]
          /\ amount' = [amount EXCEPT !["topup"] = hand.fee, !["token"] = tokens]
          /\ quoted' = [quoted EXCEPT !["topup"] = band, !["token"] = band]
     ELSE UNCHANGED <<at, locked, amount, quoted>>
  /\ UNCHANGED <<world, money, nonce, behind>>

(***************************************************************************)
(* build, and what follows.                                                *)
(***************************************************************************)
Slot(r) == r # "token" \/ at["topup"] = "confirmed"
Undecided(r) == at[r] \in {"sent", "stuck"} /\ fate[r] = "none"

\* A row fails with the row that waits for it.
Fails(r, why) ==
  at' = [q \in Payments |-> IF q = r THEN why
                            ELSE IF r = "topup" /\ q = "token" THEN "failed" ELSE at[q]]

\* The fee is looked at before the node is asked anything.
StartBuild(r) ==
  /\ hand.pc = "idle"
  /\ at[r] = "planned" /\ Slot(r) /\ \A q \in Payments : at[q] # "sent"
  /\ IF InBand(r) THEN hand' = [Idle EXCEPT !.pc = "read", !.row = r] /\ UNCHANGED at
                  ELSE Fails(r, "overpriced") /\ UNCHANGED hand
  /\ UNCHANGED <<world, money, locked, amount, quoted, nonce, behind>>

\* What the source must hold: a token sweep its fee alone.
Cost(r) == IF r = "token" THEN locked[r] ELSE amount[r] + locked[r]

\* Mutant: the fee is left out.
Covers_Value(r) == coin[Source(r)] >= amount[r]
Covers(r) == coin[Source(r)] >= Cost(r)

\* Mutant: a contract is asked for what a destination is asked for.
Takes_Plain(r) == r = "withdrawal" => "user" \notin coded

\* A payment goes to an address without code, a token sweep to one with code.
Takes(r) ==
  /\ r = "withdrawal" => "user" \notin coded
  /\ r = "token" => "contract" \in coded

Before(r) == {q \in Payments : q # r /\ Source(q) = Source(r) /\ Undecided(q)}

\* The nonce at pending, the balance and the code at latest, all at once.  Too
\* little coin puts the row back; code in the wrong place refuses it.
ReadChain ==
  LET r == hand.row IN
  /\ hand.pc = "read"
  /\ \/ ~Takes(r) /\ Fails(r, "refused") /\ hand' = Idle /\ UNCHANGED behind
     \/ Takes(r) /\ ~Covers(r) /\ hand' = Idle /\ UNCHANGED <<at, behind>>
     \/ /\ Takes(r) /\ Covers(r)
        /\ hand' = [hand EXCEPT !.pc = "sign", !.nonce = used[Source(r)] + Cardinality(Before(r))]
        /\ behind' = [behind EXCEPT ![r] = Before(r)]
        /\ UNCHANGED at
  /\ UNCHANGED <<world, money, locked, amount, quoted, nonce>>

Sign ==
  /\ hand.pc = "sign"
  /\ at' = [at EXCEPT ![hand.row] = "sent"]
  /\ nonce' = [nonce EXCEPT ![hand.row] = hand.nonce]
  /\ hand' = Idle
  /\ UNCHANGED <<world, money, locked, amount, quoted, behind>>

\* A call fails, or the process dies; the claim of a row in building is given back.
Throw ==
  /\ hand.pc # "idle"
  /\ hand' = Idle
  /\ UNCHANGED <<world, money, rows>>

\* A row that is put back again and again is given up at its deadline.
GiveUp(r) ==
  /\ hand.pc = "idle" /\ at[r] = "planned" /\ Slot(r)
  /\ Fails(r, "failed")
  /\ UNCHANGED <<world, money, locked, amount, quoted, nonce, behind, hand>>

\* statusOf: a receipt decides, at the depth the chain declares.
ReceiptOf(r) ==
  CASE fate[r] = "none" -> "unknown" [] fate[r] = "reverted" -> "rejected" [] OTHER -> "confirmed"

Settle(r) ==
  /\ at[r] \in {"sent", "stuck"}
  /\ \/ ReceiptOf(r) = "confirmed" /\ at' = [at EXCEPT ![r] = "confirmed"]
     \/ ReceiptOf(r) = "rejected" /\ Fails(r, "failed")
     \/ ReceiptOf(r) = "unknown" /\ at[r] = "sent" /\ at' = [at EXCEPT ![r] = "stuck"]
  /\ UNCHANGED <<world, money, locked, amount, quoted, nonce, behind, hand>>

(***************************************************************************)
(* The chain: nonces in order, at the price of the block, from what is     *)
(* there; a token call burns what it uses and leaves the rest.             *)
(***************************************************************************)
Bid(r) == locked[r] \div IF r = "token" THEN TokenGas ELSE TransferGas

Apply(r, how) ==
  /\ Undecided(r) /\ nonce[r] = used[Source(r)]
  /\ Bid(r) >= price /\ coin[Source(r)] >= Cost(r)
  /\ used' = [used EXCEPT ![Source(r)] = @ + 1]
  /\ fate' = [fate EXCEPT ![r] = how]
  /\ UNCHANGED <<world, rows, hand>>

Pay(r) ==
  /\ r # "token"
  /\ Apply(r, "delivered")
  /\ coin' = [a \in DOMAIN coin |->
       CASE a = "treasury" -> coin[a] - Cost(r)
         [] OTHER -> IF r = "topup" THEN coin[a] + amount[r] ELSE coin[a]]
  /\ UNCHANGED tokens

\* A transfer runs the code that came to its destination, out of gas.
Revert(r) ==
  /\ r = "withdrawal" /\ "user" \in coded
  /\ Apply(r, "reverted")
  /\ coin' = [coin EXCEPT !["treasury"] = @ - locked[r]]
  /\ UNCHANGED tokens

\* A call of an address without code succeeds and moves nothing.
CallContract(r) ==
  /\ r = "token"
  /\ Apply(r, "delivered")
  /\ \E g \in 1..TokenGas : coin' = [coin EXCEPT !["deposit"] = @ - g * Bid(r)]
  /\ tokens' = IF "contract" \in coded THEN tokens - amount[r] ELSE tokens

MovePrice(p) ==
  /\ p # price /\ moved < MaxMoves
  /\ price' = p /\ moved' = moved + 1
  /\ UNCHANGED <<band, deploys, coded, money, rows, hand>>

\* The process is replaced by one with other bounds.
Deploy(b) ==
  /\ b # band /\ deploys < MaxDeploys
  /\ band' = b /\ deploys' = deploys + 1
  /\ hand' = Idle
  /\ UNCHANGED <<price, moved, coded, money, rows>>

\* Code comes to an address and stays.
GainCode(a) ==
  /\ a \notin coded
  /\ coded' = coded \cup {a}
  /\ UNCHANGED <<price, moved, band, deploys, money, rows, hand>>

\* Once: nobody has to fund the treasury.
Receive ==
  /\ coin["treasury"] \in Held
  /\ coin' = [coin EXCEPT !["treasury"] = @ + Income]
  /\ UNCHANGED <<world, tokens, used, fate, rows, hand>>

GasInit ==
  /\ price \in Prices /\ moved = 0 /\ band \in Bands /\ deploys = 0
  /\ \E h \in Held : coin = [a \in {"treasury", "deposit"} |-> IF a = "treasury" THEN h ELSE 0]
  /\ tokens = 1
  /\ coded \in SUBSET {"user", "contract"}
  /\ used = [a \in {"treasury", "deposit"} |-> 0]
  /\ at = [r \in Payments |-> "none"]
  /\ locked = [r \in Payments |-> 0] /\ amount = [r \in Payments |-> 0]
  /\ quoted = [r \in Payments |-> None]
  /\ nonce = [r \in Payments |-> 0] /\ behind = [r \in Payments |-> {}]
  /\ fate = [r \in Payments |-> "none"]
  /\ hand = Idle

GasNext ==
  \/ QuoteWithdrawal \/ TransferFee \/ PlanPair
  \/ ReadChain \/ Sign \/ Throw
  \/ \E r \in Payments : StartBuild(r) \/ GiveUp(r) \/ Settle(r)
  \/ \E r \in Payments : Pay(r) \/ Revert(r) \/ CallContract(r)
  \/ \E p \in Prices : MovePrice(p)
  \/ \E b \in Bands : Deploy(b)
  \/ \E a \in {"user", "contract"} : GainCode(a)
  \/ Receive

GasSpec == GasInit /\ [][GasNext]_gasVars

(***************************************************************************)
(* Properties.                                                             *)
(***************************************************************************)
\* A row is refused for its fee only by a deployment whose bounds are not those
\* its fee was quoted under, whatever the price of the chain did meanwhile and
\* whichever gas the fee is for.
QuotedIsBuildable ==
  [][\A r \in Payments : at[r] = "planned" /\ at'[r] = "overpriced" => quoted[r] # band]_gasVars

\* A payment that was sent keeps what it costs at its source until the chain has
\* decided it, whatever is built behind it; only one that was built behind a
\* stuck payment, which the balance did not count, may find too little.
SentIsPayable ==
  \A r \in Payments :
    Undecided(r) /\ behind[r] = {} => coin[Source(r)] >= Cost(r)

\* A token sweep that is confirmed has moved its tokens: a call of an address
\* that holds no code succeeds on the chain, and none is ever signed.
ConfirmedMovesTokens == at["token"] = "confirmed" => tokens = 0
=============================================================================
