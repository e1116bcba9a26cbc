------------------------------- MODULE Sweeps -------------------------------
(***************************************************************************)
(* The sweep planner of one (chain, network), sweeps.ts: what it reads     *)
(* before it decides, the rows it plans, and the addresses it takes the    *)
(* money from.  Every await of a pass is a step; between two of them the   *)
(* chain moves, users deposit, operators settle stuck rows, and even the   *)
(* driver runs, which the shared lease forbids as long as it holds.        *)
(*                                                                         *)
(* The driver appears as far as it moves a row through its states: the     *)
(* module Outbound has its steps.  One token stands for the registry.      *)
(***************************************************************************)
EXTENDS Integers, Sequences, FiniteSets, FiniteSetsExt

CONSTANTS
  Sources,     \* deposit addresses wallet may register
  Fee,         \* what a transfer off an address costs, and what a top-up brings
  Multiple,    \* minFeeMultiple
  MinToken,    \* minimumTokenSweep; zero disables it
  ProbeLimit,  \* candidates probed in one pass
  Wanted,      \* the float target, or what the treasury owes if that is more
  Sizes,       \* what users deposit at once
  MaxCoin,     \* bound: coin deposited in all
  MaxTokens,   \* bound: tokens deposited in all
  MaxFails     \* bound: passes that throw half way

\* A top-up adds to what users deposit: one for each balance of tokens.
Amounts == 1..MaxCoin + Fee * MaxTokens
Tokens  == 1..MaxTokens

ASSUME SweepsAssumption ==
  /\ IsFiniteSet(Sources)
  /\ Sizes \subseteq Nat \ {0}
  /\ Fee \in Nat \ {0} /\ Multiple \in Nat \ {0} /\ MinToken \in Nat
  /\ ProbeLimit \in Nat /\ Wanted \in Nat /\ MaxCoin \in Nat /\ MaxTokens \in Nat
  /\ MaxFails \in Nat

VARIABLES
  \* the chain
  bal, tok,     \* coin and tokens at each deposit address
  given,        \* coin deposited so far
  tokGiven,     \* and tokens
  held,         \* spendable at the treasury
  fate,         \* what became of the bytes of each row
  \* the database
  row,          \* the state of each row, by its idempotency key
  registered,   \* the rows of sweep_sources,
  observed,     \* their last probe,
  probed,       \* the addresses from the least recently probed to the last,
  swept,        \* and what matured sweeps took off them
  matured,      \* rows with matured_at
  maturing,     \* confirmations that have yet to call matureSweepFor
  \* one pass
  pc, away, list, seen,
  fails

chain == <<bal, tok, given, tokGiven, held, fate>>
books == <<row, registered, observed, probed, swept, matured, maturing>>
pass  == <<pc, away, list, seen>>
vars  == <<chain, books, pass, fails>>

Unknown == -1   \* a null observation

\* The idempotency key of a row: its purpose, the address and the balance it moves.
Key(purpose, s, n) == <<purpose, s, n>>
Keys == ({"sweep"} \X Sources \X Amounts) \cup ({"gas_topup", "token_sweep"} \X Sources \X Tokens)
Purpose(k) == k[1]
Source(k)  == k[2]
Moves(k)   == k[3]

Sweep(s, n)      == Key("sweep", s, n)
TopUp(s, n)      == Key("gas_topup", s, n)
TokenSweep(s, n) == Key("token_sweep", s, n)

Unretired == {"planned", "flying"}
Flying == {k \in Keys : row[k] = "flying"}

(***************************************************************************)
(* What a pass reads.                                                      *)
(***************************************************************************)
TreasuryShortfall == Wanted > held

\* Mutants: native sweeps alone; what the driver holds alone; confirmed rows too.
AddressesInFlight_NativeOnly ==
  {Source(k) : k \in {j \in Keys : row[j] \in Unretired /\ Purpose(j) = "sweep"}}

AddressesInFlight_Flying == {Source(k) : k \in Flying}

AddressesInFlight_Confirmed ==
  {Source(k) : k \in {j \in Keys : row[j] \in Unretired \cup {"confirmed"}}}

\* Every purpose and both ends; stuck and confirmed rows are not in it.
AddressesInFlight == {Source(k) : k \in {j \in Keys : row[j] \in Unretired}}

SweepQuote(s) == bal[s] > Fee

Rank(s) == CHOOSE i \in DOMAIN probed : probed[i] = s

\* observed desc nulls first, observed_at asc nulls first: a tie among
\* addresses no probe has seen is broken either way.
Before(s, t) ==
  \/ observed[s] = Unknown
  \/ observed[t] # Unknown /\ observed[s] > observed[t]
  \/ observed[t] # Unknown /\ observed[s] = observed[t] /\ Rank(s) <= Rank(t)

Limit == IF ProbeLimit < Cardinality(registered) THEN ProbeLimit ELSE Cardinality(registered)

\* What the query may answer with,
SweepCandidates ==
  {C \in SUBSET registered :
     /\ Cardinality(C) = Limit
     /\ \A s \in C, t \in registered \ C : Before(s, t)}

\* and the order in which it may list it.
Listed(C) ==
  {l \in [1..Cardinality(C) -> C] :
     \A i, j \in 1..Cardinality(C) : i < j => l[i] # l[j] /\ Before(l[i], l[j])}

(***************************************************************************)
(* What a pass writes.                                                     *)
(***************************************************************************)
Go(where, a, l, n) == pc' = where /\ away' = a /\ list' = l /\ seen' = n
End(where) == Go(where, {}, <<>>, 0)
Rest == Tail(list)
First == list[1]

\* planOutbound: on conflict do nothing.
Created(ks) == {k \in ks : row[k] = "none"}
PlanOutbound(ks) ==
  row' = [k \in Keys |-> IF k \in Created(ks) THEN "planned" ELSE row[k]]

ProbedBefore(s) == \E i \in DOMAIN probed : probed[i] = s

\* The address is now the last one probed.
RecordObservation(s, n) ==
  /\ observed' = [observed EXCEPT ![s] = n]
  /\ probed' = IF ProbedBefore(s)
               THEN SubSeq(probed, 1, Rank(s) - 1) \o SubSeq(probed, Rank(s) + 1, Len(probed)) \o <<s>>
               ELSE Append(probed, s)

(***************************************************************************)
(* planSweep.                                                              *)
(***************************************************************************)
StartPass ==
  /\ pc = "idle"
  /\ End(IF TreasuryShortfall THEN "in flight" ELSE "tokens")
  /\ UNCHANGED <<chain, books, fails>>

\* unmaturedByAddress and addressesInFlight: a row that retires between the two
\* would only have its address passed over.
ReadInFlight ==
  /\ pc \in {"in flight", "tokens"}
  /\ Go(IF pc = "tokens" THEN "token candidates" ELSE "candidates", AddressesInFlight, <<>>, 0)
  /\ UNCHANGED <<chain, books, fails>>

\* An address that is moving is passed over before its balance is asked for.
ReadCandidates ==
  /\ pc \in {"candidates", "token candidates"}
  /\ \E C \in SweepCandidates : \E l \in Listed(C \ away) :
       Go(IF pc = "candidates" THEN "probe" ELSE "balance", {}, l, 0)
  /\ UNCHANGED <<chain, books, fails>>

Probe ==
  /\ pc = "probe"
  /\ \/ list = <<>> /\ End("tokens")
     \/ list # <<>> /\ Go("observe", {}, list, IF SweepQuote(First) THEN bal[First] ELSE 0)
  /\ UNCHANGED <<chain, books, fails>>

Worthwhile(n) == n > Fee /\ n >= Fee * Multiple

Observe ==
  /\ pc = "observe"
  /\ RecordObservation(First, seen)
  /\ IF Worthwhile(seen) THEN Go("plan", {}, list, seen) ELSE Go("probe", {}, Rest, 0)
  /\ UNCHANGED <<chain, row, registered, swept, matured, maturing, fails>>

\* The row that is created ends the native half; one that was there does not.
PlanSweep ==
  LET k == Sweep(First, seen) IN
  /\ pc = "plan"
  /\ PlanOutbound({k})
  /\ IF Created({k}) # {} THEN End("tokens") ELSE Go("probe", {}, Rest, 0)
  /\ UNCHANGED <<chain, registered, observed, probed, swept, matured, maturing, fails>>

(***************************************************************************)
(* planTokenSweep, in the same handler whatever planSweep answered.        *)
(***************************************************************************)
EnoughTokens(n) == n > 0 /\ n >= MinToken

TokenBalance ==
  /\ pc = "balance"
  /\ \/ list = <<>> /\ End("idle")
     \/ list # <<>> /\ ~EnoughTokens(tok[First]) /\ Go("balance", {}, Rest, 0)
     \/ list # <<>> /\ EnoughTokens(tok[First]) /\ Go("pair", {}, list, tok[First])
  /\ UNCHANGED <<chain, books, fails>>

\* Both rows in one transaction.
PlanPair ==
  LET ks == {TopUp(First, seen), TokenSweep(First, seen)} IN
  /\ pc = "pair"
  /\ PlanOutbound(ks)
  /\ IF Created(ks) # {} THEN End("idle") ELSE Go("balance", {}, Rest, 0)
  /\ UNCHANGED <<chain, registered, observed, probed, swept, matured, maturing, fails>>

\* A query or a call of the chain fails, or the process dies.
Throw ==
  /\ pc # "idle" /\ fails < MaxFails
  /\ fails' = fails + 1
  /\ End("idle")
  /\ UNCHANGED <<chain, books>>

(***************************************************************************)
(* The rows on their way: one flies at a time.                             *)
(***************************************************************************)
SetRow(k, st) == row' = [row EXCEPT ![k] = st]

Ready(k) ==
  Purpose(k) = "token_sweep" => row[TopUp(Source(k), Moves(k))] = "confirmed"

Start(k) ==
  /\ row[k] = "planned" /\ Flying = {} /\ Ready(k)
  /\ SetRow(k, "flying")
  /\ UNCHANGED <<chain, registered, observed, probed, swept, matured, maturing, pass, fails>>

\* A row fails with what depends on it.
Failed(k) ==
  LET d == TokenSweep(Source(k), Moves(k)) IN
  row' = IF Purpose(k) = "gas_topup" /\ row[d] = "planned"
         THEN [row EXCEPT ![k] = "failed", ![d] = "failed"]
         ELSE [row EXCEPT ![k] = "failed"]

\* A build the chain or custody refuses; a rejection; a proof that bytes are dead.
Fail(k) ==
  /\ \/ row[k] = "planned" /\ Flying = {} /\ Ready(k)
     \/ row[k] = "flying" /\ fate[k] = "reverted"
     \/ row[k] = "stuck" /\ fate[k] \in {"reverted", "dead"}
  /\ Failed(k)
  /\ UNCHANGED <<chain, registered, observed, probed, swept, matured, maturing, pass, fails>>

\* Mutant: a row of any purpose matures.
Confirm_AnyPurpose(k) ==
  /\ row[k] \in {"flying", "stuck"} /\ fate[k] = "landed"
  /\ SetRow(k, "confirmed")
  /\ maturing' = maturing \cup {k}
  /\ UNCHANGED <<chain, registered, observed, probed, swept, matured, pass, fails>>

\* By the driver, or for a stuck row by an operator: the same two statements.
Confirm(k) ==
  /\ row[k] \in {"flying", "stuck"} /\ fate[k] = "landed"
  /\ SetRow(k, "confirmed")
  /\ maturing' = IF Purpose(k) = "sweep" THEN maturing \cup {k} ELSE maturing
  /\ UNCHANGED <<chain, registered, observed, probed, swept, matured, pass, fails>>

GoStuck(k) ==
  /\ row[k] = "flying" /\ fate[k] = "none"
  /\ SetRow(k, "stuck")
  /\ UNCHANGED <<chain, registered, observed, probed, swept, matured, maturing, pass, fails>>

\* Mutant: the observation is not clamped at zero.
MatureSweep_Unclamped(k) ==
  LET s == Source(k) IN
  /\ k \in maturing
  /\ maturing' = maturing \ {k}
  /\ matured' = matured \cup {k}
  /\ swept' = [swept EXCEPT ![s] = @ + Moves(k)]
  /\ observed' = [observed EXCEPT ![s] = @ - Moves(k)]
  /\ UNCHANGED <<chain, row, registered, probed, pass, fails>>

\* The transaction after the confirmation; a process that dies in between
\* leaves the row confirmed and never matured.
MatureSweep(k) ==
  LET s == Source(k) IN
  /\ k \in maturing
  /\ maturing' = maturing \ {k}
  /\ \/ /\ k \notin matured
        /\ matured' = matured \cup {k}
        /\ swept' = [swept EXCEPT ![s] = @ + Moves(k)]
        /\ observed' = [observed EXCEPT ![s] = IF @ > Moves(k) THEN @ - Moves(k) ELSE 0]
     \/ UNCHANGED <<matured, swept, observed>>
  /\ UNCHANGED <<chain, row, registered, probed, pass, fails>>

(***************************************************************************)
(* The chain and the users.                                                *)
(***************************************************************************)
Live(k) == row[k] \in {"flying", "stuck"} /\ fate[k] = "none"

\* A sweep takes its locked amount and fee, and only where they are there.
Land(k) ==
  LET s == Source(k) IN
  /\ Live(k)
  /\ fate' = [fate EXCEPT ![k] = "landed"]
  /\ \/ /\ Purpose(k) = "sweep" /\ bal[s] >= Moves(k)
        /\ bal' = [bal EXCEPT ![s] = @ - Moves(k)]
        /\ held' = held + Moves(k) - Fee
        /\ UNCHANGED tok
     \/ /\ Purpose(k) = "gas_topup" /\ held >= 2 * Fee
        /\ bal' = [bal EXCEPT ![s] = @ + Fee]
        /\ held' = held - 2 * Fee
        /\ UNCHANGED tok
     \/ /\ Purpose(k) = "token_sweep" /\ bal[s] >= Fee /\ tok[s] >= Moves(k)
        /\ bal' = [bal EXCEPT ![s] = @ - Fee]
        /\ tok' = [tok EXCEPT ![s] = @ - Moves(k)]
        /\ UNCHANGED held
  /\ UNCHANGED <<given, tokGiven, books, pass, fails>>

\* A token call reverts and burns its gas.
Revert(k) ==
  /\ Live(k) /\ Purpose(k) = "token_sweep" /\ bal[Source(k)] >= Fee
  /\ bal' = [bal EXCEPT ![Source(k)] = @ - Fee]
  /\ fate' = [fate EXCEPT ![k] = "reverted"]
  /\ UNCHANGED <<tok, given, tokGiven, held, books, pass, fails>>

\* Another transaction takes the nonce; it makes no difference before the row
\* is stuck.
Die(k) ==
  /\ Live(k) /\ row[k] = "stuck"
  /\ fate' = [fate EXCEPT ![k] = "dead"]
  /\ UNCHANGED <<bal, tok, given, tokGiven, held, books, pass, fails>>

\* What an address holds before it is registered is as if it came then.
Deposit(s, n) ==
  /\ s \in registered /\ given + n <= MaxCoin
  /\ bal' = [bal EXCEPT ![s] = @ + n]
  /\ given' = given + n
  /\ UNCHANGED <<tok, tokGiven, held, fate, books, pass, fails>>

DepositToken(s) ==
  /\ s \in registered /\ tokGiven < MaxTokens
  /\ tok' = [tok EXCEPT ![s] = @ + 1]
  /\ tokGiven' = tokGiven + 1
  /\ UNCHANGED <<bal, given, held, fate, books, pass, fails>>

\* Registering an address again changes only its binding.
Upsert(s) == registered' = registered \cup {s}

\* wallet registers a deposit address it has minted.
RegisterSweepSource(s) ==
  /\ s \notin registered
  /\ Upsert(s)
  /\ UNCHANGED <<chain, row, observed, probed, swept, matured, maturing, pass, fails>>

Init ==
  /\ bal = [s \in Sources |-> 0] /\ tok = [s \in Sources |-> 0]
  /\ given = 0 /\ tokGiven = 0
  /\ held = 2 * Fee
  /\ fate = [k \in Keys |-> "none"]
  /\ row = [k \in Keys |-> "none"]
  /\ registered = {}
  /\ observed = [s \in Sources |-> Unknown]
  /\ probed = <<>>
  /\ swept = [s \in Sources |-> 0]
  /\ matured = {} /\ maturing = {}
  /\ pc = "idle" /\ away = {} /\ list = <<>> /\ seen = 0
  /\ fails = 0

Pass ==
  \/ StartPass \/ ReadInFlight \/ ReadCandidates
  \/ Probe \/ Observe \/ PlanSweep \/ TokenBalance \/ PlanPair

Drive == \E k \in Keys : Start(k) \/ Fail(k) \/ Confirm(k) \/ GoStuck(k)
Chain == \E k \in Keys : Land(k) \/ Revert(k) \/ Die(k)

Users ==
  \/ \E s \in Sources, n \in Sizes : Deposit(s, n)
  \/ \E s \in Sources : DepositToken(s)
  \/ \E s \in Sources : RegisterSweepSource(s)

Next == Pass \/ Throw \/ Drive \/ (\E k \in Keys : MatureSweep(k)) \/ Chain \/ Users

\* The recurring job passes again and again, the driver and the operators bring
\* every row to an end, and the chain decides every transaction.  Nobody has to
\* deposit, and maturity may be lost.
Spec == Init /\ [][Next]_vars /\ WF_vars(Pass) /\ WF_vars(Drive) /\ WF_vars(Chain)

(***************************************************************************)
(* Properties.                                                             *)
(***************************************************************************)
RowStates == {"none", "planned", "flying", "confirmed", "stuck", "failed"}

NativeLabels == {"in flight", "candidates", "probe", "observe", "plan"}
TokenLabels  == {"tokens", "token candidates", "balance", "pair"}

\* Every variable keeps its type.
TypeOK ==
  /\ bal \in [Sources -> Nat] /\ tok \in [Sources -> Nat]
  /\ given \in 0..MaxCoin /\ tokGiven \in 0..MaxTokens
  /\ held \in Nat
  /\ fate \in [Keys -> {"none", "landed", "reverted", "dead"}]
  /\ row \in [Keys -> RowStates]
  /\ registered \subseteq Sources /\ away \subseteq Sources
  /\ observed \in [Sources -> Nat \cup {Unknown}] /\ probed \in Seq(Sources)
  /\ swept \in [Sources -> Nat] /\ matured \subseteq Keys /\ maturing \subseteq Keys
  /\ pc \in {"idle"} \cup NativeLabels \cup TokenLabels
  /\ list \in Seq(Sources) /\ seen \in Nat /\ fails \in 0..MaxFails

\* A pair counts as one movement.
SameMovement(j, k) ==
  j = k \/ ("sweep" \notin {Purpose(j), Purpose(k)} /\ Moves(j) = Moves(k))

\* An address has one movement planned or in the air, a sweep or a pair, however
\* the chain, the driver and the operators step between what a pass reads and
\* what it inserts ("fund once", sweeps.ts on addressesInFlight).
OneMovement ==
  \A j, k \in Keys :
    Source(j) = Source(k) /\ {row[j], row[k]} \subseteq Unretired => SameMovement(j, k)

\* The gas a top-up brought waits for the token sweep it was brought for: only
\* a movement that was given up as stuck may still take it.
GasWaits ==
  [][\A s \in Sources, n \in Tokens :
       /\ row[TopUp(s, n)] = "confirmed" /\ row[TokenSweep(s, n)] = "planned"
       /\ bal'[s] < bal[s]
       => \E k \in Keys : Source(k) = s /\ row[k] = "stuck" /\ fate'[k] # fate[k]]_vars

\* swept never exceeds what native sweeps took off the address: no token amount
\* and no sweep that failed enters it, and none enters it twice.
Taken(s) ==
  SumSet({n \in Amounts : fate[Sweep(s, n)] = "landed"})
SweptHasLeft == \A s \in Sources : swept[s] <= Taken(s)

\* There is always a later time at which every balance worth its fee has been
\* planned or the treasury is not short, as long as every candidate fits in one
\* pass and whatever happened to earlier sweeps of the address.
Unplanned(s) ==
  /\ s \in registered /\ Worthwhile(bal[s]) /\ TreasuryShortfall
  /\ row[Sweep(s, bal[s])] = "none"

BalanceIsPlanned == []<>(\A s \in Sources : ~Unplanned(s))

(***************************************************************************)
(* What a comment says of the program and the code does not do.            *)
(***************************************************************************)
\* The sweep of this very balance has landed, and the address holds it again.
HoldsItAgain(s) ==
  /\ s \in registered /\ Worthwhile(bal[s]) /\ TreasuryShortfall
  /\ row[Sweep(s, bal[s])] = "confirmed"

\* "A balance that HAS moved produces a different key, so the re-plan is a new
\* row rather than a conflict with a stale one" (sweeps.ts on planSweep): what is
\* deposited after a sweep is swept like what was deposited before it.
MovedBalanceIsPlanned == \A s \in Sources : []<>~HoldsItAgain(s)
=============================================================================
