------------------------------ MODULE Treasury ------------------------------
(***************************************************************************)
(* The treasury of one (chain, network), treasury.ts: the row this service *)
(* keeps of it, the pin custody keeps, the addresses the indexer counts,   *)
(* and the ledger that must agree with what it counts.  The row is a cache *)
(* of the pin that four kinds of caller read, adopt and replace with no    *)
(* lock between them: the treasury-watch job, the sweep planner, the       *)
(* intake of withdrawals and an operator who provisions.                   *)
(*                                                                         *)
(* Every await is the end of a step.  A call that fails, an answer that is *)
(* lost and a process that dies all end an execution where it awaits       *)
(* (jobs.ts swallows the error), and are one action, Fail.                 *)
(***************************************************************************)
EXTENDS Integers, FiniteSets, Functions

CONSTANTS
  Legacy,        \* addresses of the platform that custody did not derive here
  Fresh,         \* addresses custody may still derive
  NoAddress,     \* a null key
  Watchers,      \* executions of registerTreasuryWithIndexer
  Sweepers,      \* executions of assertSweepable, each with the sweep it allows
  Payers,        \* executions of resolveSource, each with the payment it plans
  Provisioners,  \* executions of provisionTreasury
  Early,         \* what may happen before the opening is booked
  MaxCoin,       \* bound: coin at one address at the start
  MaxFails,      \* bound: executions that end half way
  MaxHands       \* bound: what operators do at custody and on chain by hand

Addresses == Legacy \cup Fresh
Callers   == Watchers \cup Sweepers \cup Payers
Processes == Callers \cup Provisioners

ASSUME TreasuryAssumption ==
  /\ NoAddress \notin Addresses
  /\ Legacy \cap Fresh = {}
  /\ IsFiniteSet(Addresses)
  /\ Watchers \cap Sweepers = {} /\ Watchers \cap Payers = {} /\ Sweepers \cap Payers = {}
  /\ Provisioners \cap Callers = {}
  /\ Early \subseteq {"sweep", "withdrawal", "rotation"}
  /\ MaxCoin \in Nat /\ MaxFails \in Nat /\ MaxHands \in Nat

VARIABLES
  row,       \* the row of treasuries; its address is NoAddress before there is one
  \* custody
  pin,       \* the address a sweep may target
  minted,    \* addresses derived so far
  pinned,    \* those that were ever the pin
  \* the indexer
  custody,   \* the treasury addresses in its custody set
  claimed,   \* those watched as freshly derived
  cold,      \* its record starts above the first block of the chain
  \* the ledger
  entry,     \* the opening entry under the idempotency key of each address
  books,     \* its custody account
  \* the chain
  coin,      \* at each treasury address
  deposits,  \* at deposit addresses: always in the custody set, always booked
  \* one execution
  pc, mem,
  fails, hands

estate == <<custody, claimed, cold, entry, books, coin, deposits>>
keys   == <<pin, minted, pinned>>
local  == <<pc, mem>>
vars   == <<row, keys, estate, local, fails, hands>>

Nothing == -1  \* no entry, and no balance read
Absent  == [address |-> NoAddress, watched |-> NoAddress, derived |-> NoAddress,
            booked |-> FALSE, opening |-> Nothing]
Blank   == [checked |-> NoAddress, pin |-> NoAddress, row |-> Absent, seen |-> Nothing]

Found == row # Absent

\* The end of a step of c: where it awaits next, and what it then remembers.
Go(c, where, m) ==
  /\ pc' = [pc EXCEPT ![c] = where]
  /\ mem' = [mem EXCEPT ![c] = IF where = "idle" THEN Blank ELSE m]

(***************************************************************************)
(* What is supposed of the people and the jobs around the treasury while   *)
(* its opening is not on the ledger, unless Early says otherwise.          *)
(***************************************************************************)
\* Nothing is swept into a treasury no pass has watched, nothing is paid from
\* one that is not booked.
Timely(c) ==
  /\ c \in Sweepers /\ Found => row.watched # NoAddress \/ "sweep" \in Early
  /\ c \in Payers /\ Found => row.booked \/ "withdrawal" \in Early

\* A treasury is replaced once it is booked, by one operator at a time.
MayReplace == row.booked \/ "rotation" \in Early
Alone == "rotation" \in Early \/ \A o \in Provisioners : pc[o] = "idle"

(***************************************************************************)
(* The row.                                                                *)
(***************************************************************************)
UpsertTreasury_Bug(a, derivedKey) ==
  row' = IF row.address # a THEN [Absent EXCEPT !.address = a, !.derived = derivedKey] ELSE row

UpsertTreasury(a, derivedKey) ==
  row' = IF ~Found THEN [Absent EXCEPT !.address = a, !.derived = derivedKey]
         ELSE IF row.address # a THEN [row EXCEPT !.address = a, !.derived = derivedKey]
         ELSE row

(***************************************************************************)
(* registerTreasuryWithIndexer, from the row it was given.                 *)
(***************************************************************************)
IsWatched(r)   == r.watched = r.address
OwesOpening_Bug(r) == ~IsWatched(r)
OwesOpening(r) == ~r.booked
DerivedHere(r) == r.derived = r.address

MeasureFirst_Bug(r) == OwesOpening(r)
\* A pin that was adopted is measured before it is watched, a minted one after.
MeasureFirst(r) == OwesOpening(r) /\ (IsWatched(r) \/ ~DerivedHere(r))

StartWatch(r) ==
  IF MeasureFirst(r) THEN "measure" ELSE IF IsWatched(r) THEN "idle" ELSE "watch"

(***************************************************************************)
(* assertSweepable, with the pin it read before the row.                   *)
(***************************************************************************)
NotBooked(r) == r.watched # NoAddress /\ ~r.booked

Sweepable_Bug(p, r) == p = r.address
Sweepable(p, r) == p = r.address /\ ~NotBooked(r)

(***************************************************************************)
(* requireTreasury, for every caller.                                      *)
(***************************************************************************)
\* Where a caller goes with the row it was given.
Resume(c, r) ==
  CASE c \in Watchers -> StartWatch(r)
    [] c \in Sweepers -> IF Sweepable(mem[c].checked, r) THEN "send" ELSE "idle"
    [] OTHER          -> "send"

\* And what it keeps of it.
Keep(c, r) ==
  CASE c \in Watchers -> [Blank EXCEPT !.row = r]
    [] c \in Sweepers -> [Blank EXCEPT !.checked = mem[c].checked]
    [] OTHER          -> [Blank EXCEPT !.pin = r.address]

CheckPin(s) ==
  /\ pc[s] = "idle"
  /\ pin # NoAddress
  /\ Go(s, "checked", [mem[s] EXCEPT !.checked = pin])
  /\ UNCHANGED <<row, keys, estate, fails, hands>>

ReadPin(c) ==
  /\ pc[c] = IF c \in Sweepers THEN "checked" ELSE "idle"
  /\ Go(c, "find", [mem[c] EXCEPT !.pin = pin])
  /\ UNCHANGED <<row, keys, estate, fails, hands>>

FindTreasury(c) ==
  /\ pc[c] = "find"
  /\ Timely(c)
  /\ \/ Found /\ Go(c, Resume(c, row), Keep(c, row))
     \/ ~Found /\ Go(c, IF mem[c].pin = NoAddress THEN "idle" ELSE "adopt", mem[c])
  /\ UNCHANGED <<row, keys, estate, fails, hands>>

\* The upsert of an adopted pin, and the row read again.
Adopt(c) ==
  /\ pc[c] = "adopt"
  /\ UpsertTreasury(mem[c].pin, NoAddress)
  /\ Go(c, "find", mem[c])
  /\ UNCHANGED <<keys, estate, fails, hands>>

(***************************************************************************)
(* One pass of treasury-watch.                                             *)
(***************************************************************************)
\* The indexer refuses an address whose past nobody has stated.
CustodyBalance(w, next) ==
  LET a == mem[w].row.address IN
  IF cold /\ a \notin claimed
  THEN Go(w, "idle", mem[w])
  ELSE Go(w, next, [mem[w] EXCEPT !.seen = coin[a]])

Measure(w) ==
  /\ pc[w] = "measure"
  /\ CustodyBalance(w, IF IsWatched(mem[w].row) THEN "book" ELSE "watch")
  /\ UNCHANGED <<row, keys, estate, fails, hands>>

MeasureLate(w) ==
  /\ pc[w] = "measure late"
  /\ CustodyBalance(w, "book")
  /\ UNCHANGED <<row, keys, estate, fails, hands>>

Watch(w) ==
  LET r == mem[w].row IN
  /\ pc[w] = "watch"
  /\ custody' = custody \cup {r.address}
  /\ claimed' = claimed \cup IF DerivedHere(r) THEN {r.address} ELSE {}
  /\ Go(w, "record", mem[w])
  /\ UNCHANGED <<row, keys, cold, entry, books, coin, deposits, fails, hands>>

RecordWatch(w) ==
  LET r == mem[w].row IN
  /\ pc[w] = "record"
  /\ row' = [row EXCEPT !.watched = r.address]
  /\ Go(w, IF mem[w].seen # Nothing THEN "book"
           ELSE IF OwesOpening(r) THEN "measure late" ELSE "idle", mem[w])
  /\ UNCHANGED <<keys, estate, fails, hands>>

PostOpening_Bug(w) ==
  LET a == mem[w].row.address IN
  /\ pc[w] = "book" /\ mem[w].seen > 0
  /\ entry' = [entry EXCEPT ![a] = mem[w].seen]
  /\ books' = books + mem[w].seen
  /\ Go(w, "settle", mem[w])
  /\ UNCHANGED <<row, keys, custody, claimed, cold, coin, deposits, fails, hands>>

\* The ledger answers a key it has seen with the entry it has; a balance of
\* zero is not posted.
PostOpening(w) ==
  LET a == mem[w].row.address IN
  /\ pc[w] = "book" /\ mem[w].seen > 0
  /\ \/ /\ entry[a] = Nothing
        /\ entry' = [entry EXCEPT ![a] = mem[w].seen]
        /\ books' = books + mem[w].seen
     \/ entry[a] # Nothing /\ UNCHANGED <<entry, books>>
  /\ Go(w, "settle", mem[w])
  /\ UNCHANGED <<row, keys, custody, claimed, cold, coin, deposits, fails, hands>>

MarkBooked(w) ==
  /\ pc[w] = "settle" \/ (pc[w] = "book" /\ mem[w].seen = 0)
  /\ row' = IF row.booked THEN row ELSE [row EXCEPT !.booked = TRUE, !.opening = mem[w].seen]
  /\ Go(w, "idle", mem[w])
  /\ UNCHANGED <<keys, estate, fails, hands>>

(***************************************************************************)
(* What a caller was given the treasury for.  Custody signs a sweep to the *)
(* pin it has now; a payment is signed for the row it was planned with.    *)
(***************************************************************************)
Sweep(s) ==
  /\ s \in Sweepers /\ pc[s] = "send"
  /\ \/ /\ mem[s].checked = pin /\ deposits > 0
        /\ deposits' = deposits - 1
        /\ coin' = [coin EXCEPT ![pin] = @ + 1]
     \/ /\ mem[s].checked # pin \/ deposits = 0
        /\ UNCHANGED <<deposits, coin>>
  /\ Go(s, "idle", mem[s])
  /\ UNCHANGED <<row, keys, custody, claimed, cold, entry, books, fails, hands>>

Pay(p) ==
  LET a == mem[p].pin IN
  /\ p \in Payers /\ pc[p] = "send"
  /\ coin[a] > 0
  /\ coin' = [coin EXCEPT ![a] = @ - 1]
  /\ books' = books - 1
  /\ Go(p, "idle", mem[p])
  /\ UNCHANGED <<row, keys, custody, claimed, cold, entry, deposits, fails, hands>>

(***************************************************************************)
(* provisionTreasury.                                                      *)
(***************************************************************************)
ReadRow(o) ==
  /\ pc[o] = "idle" /\ Alone
  /\ Go(o, "current", [mem[o] EXCEPT !.checked = row.address])
  /\ UNCHANGED <<row, keys, estate, fails, hands>>

\* Agreement ends the call, and so does a row when no rotation was asked for.
ReadCurrentPin(o) ==
  LET existing == mem[o].checked IN
  /\ pc[o] = "current"
  /\ \/ existing # NoAddress /\ Go(o, "idle", mem[o])
     \/ /\ existing = NoAddress \/ pin # existing
        /\ (existing = NoAddress /\ pin = NoAddress) \/ MayReplace
        /\ Go(o, "mint", Blank)
  /\ UNCHANGED <<row, keys, estate, fails, hands>>

\* A candidate that was never pinned is handed out again; which address is
\* derived next makes no difference.
Outstanding == minted \ pinned
Candidates == IF Outstanding # {} THEN Outstanding ELSE Fresh \ minted

MintTreasury(o) ==
  /\ pc[o] = "mint"
  /\ Candidates # {}
  /\ LET a == CHOOSE a \in Candidates : TRUE IN
       /\ minted' = minted \cup {a}
       /\ Go(o, "pin", [mem[o] EXCEPT !.pin = a])
  /\ UNCHANGED <<row, pin, pinned, estate, fails, hands>>

Pin(a) ==
  /\ pin' = a
  /\ pinned' = pinned \cup ({a} \ {NoAddress})

PinTreasury(o) ==
  /\ pc[o] = "pin"
  /\ Pin(mem[o].pin)
  /\ Go(o, "upsert", mem[o])
  /\ UNCHANGED <<row, minted, estate, fails, hands>>

RecordTreasury(o) ==
  /\ pc[o] = "upsert"
  /\ UpsertTreasury(mem[o].pin, mem[o].pin)
  /\ Go(o, "idle", mem[o])
  /\ UNCHANGED <<keys, estate, fails, hands>>

(***************************************************************************)
(* By hand: an operator moves the pin at custody, or the balance on chain. *)
(***************************************************************************)
ByHand ==
  /\ hands < MaxHands
  /\ hands' = hands + 1
  /\ Alone

PinByHand(a) ==
  /\ ByHand
  /\ a \in Legacy /\ a # pin
  /\ (~Found /\ pin = NoAddress) \/ MayReplace
  /\ Pin(a)
  /\ UNCHANGED <<row, minted, estate, local, fails>>

Unpin ==
  /\ ByHand
  /\ pin # NoAddress
  /\ MayReplace
  /\ Pin(NoAddress)
  /\ UNCHANGED <<row, minted, estate, local, fails>>

\* What the books know of is moved to a candidate, or to the treasury.
MoveBalance(a, b) ==
  /\ ByHand
  /\ MayReplace
  /\ a # b /\ a \in custody /\ coin[a] > 0
  /\ b \in (Outstanding \cup {pin, row.address}) \ {NoAddress}
  /\ coin' = [coin EXCEPT ![a] = 0, ![b] = @ + coin[a]]
  /\ UNCHANGED <<row, keys, custody, claimed, cold, entry, books, deposits, local, fails>>

Fail(c) ==
  /\ pc[c] # "idle"
  /\ fails < MaxFails
  /\ fails' = fails + 1
  /\ Go(c, "idle", mem[c])
  /\ UNCHANGED <<row, keys, estate, hands>>

Init ==
  /\ row = Absent
  /\ pin \in {NoAddress} \cup Legacy
  /\ minted = {}
  /\ pinned = {pin} \ {NoAddress}
  /\ custody = {} /\ claimed = {}
  /\ cold \in BOOLEAN
  /\ entry = [a \in Addresses |-> Nothing]
  /\ coin \in [Addresses -> 0..MaxCoin]
  /\ \A a \in Fresh : coin[a] = 0
  /\ deposits = MaxCoin
  /\ books = deposits
  /\ pc = [c \in Processes |-> "idle"]
  /\ mem = [c \in Processes |-> Blank]
  /\ fails = 0 /\ hands = 0

RequireTreasury(c) == ReadPin(c) \/ FindTreasury(c) \/ Adopt(c)

RegisterTreasury(w) ==
  RequireTreasury(w) \/ Measure(w) \/ MeasureLate(w) \/ Watch(w) \/ RecordWatch(w)
    \/ PostOpening(w) \/ MarkBooked(w)

SweepInto(s) == CheckPin(s) \/ RequireTreasury(s) \/ Sweep(s)

PayFrom(p) == RequireTreasury(p) \/ Pay(p)

Provision(o) ==
  ReadRow(o) \/ ReadCurrentPin(o) \/ MintTreasury(o) \/ PinTreasury(o) \/ RecordTreasury(o)

Hands == (\E a \in Legacy : PinByHand(a)) \/ Unpin \/ \E a, b \in Addresses : MoveBalance(a, b)

Next ==
  \/ \E w \in Watchers : RegisterTreasury(w)
  \/ \E s \in Sweepers : SweepInto(s)
  \/ \E p \in Payers : PayFrom(p)
  \/ \E o \in Provisioners : Provision(o)
  \/ \E c \in Processes : Fail(c)
  \/ Hands

Spec == Init /\ [][Next]_vars

\* The watch job is queued for ever, so a pass takes its next step.
FairSpec == Spec /\ \A w \in Watchers : WF_vars(RegisterTreasury(w))

(***************************************************************************)
(* Properties.                                                             *)
(***************************************************************************)
Keys == Addresses \cup {NoAddress}
Amount == Nat \cup {Nothing}
RowType ==
  [address : Keys, watched : Keys, derived : Keys, booked : BOOLEAN, opening : Amount]
MemType == [checked : Keys, pin : Keys, row : RowType, seen : Amount]
Labels == {"idle", "checked", "find", "adopt", "measure", "watch", "record", "measure late",
           "book", "settle", "send", "current", "mint", "pin", "upsert"}

\* Every variable keeps its type.
TypeOK ==
  /\ row \in RowType /\ (Found => row.address # NoAddress)
  /\ pin \in Keys /\ minted \subseteq Fresh /\ pinned \subseteq Addresses
  /\ custody \subseteq Addresses /\ claimed \subseteq custody /\ cold \in BOOLEAN
  /\ entry \in [Addresses -> Amount] /\ books \in Int
  /\ coin \in [Addresses -> Nat] /\ deposits \in Nat
  /\ pc \in [Processes -> Labels] /\ mem \in [Processes -> MemType]
  /\ fails \in 0..MaxFails /\ hands \in 0..MaxHands

CoinAt(S) == deposits + FoldFunctionOnSet(+, 0, coin, S)

\* What micro-ledger reconciles its custody account with.
Aggregate == CoinAt(custody)
Held == CoinAt(Addresses)

Registered == row.booked /\ IsWatched(row)
InTransit == \E a \in Addresses \ custody : coin[a] > 0

\* Once the treasury is registered the indexer counts what the ledger has
\* booked, whatever failed, was swept, paid or rotated on the way (treasury.ts on
\* registerTreasuryWithIndexer: EMBER reconciles at zero tolerance).
BooksMatch == Registered /\ ~InTransit => Aggregate = books

\* "An opening is owed once per treasury row": a retry, a rotation and a second
\* pass at the same time never post another one.
OneOpening ==
  \A a, b \in Addresses : entry[a] # Nothing /\ entry[b] # Nothing => a = b

\* A watched key on the row is one the indexer has: an attempt is never recorded.
WatchedIsRecorded == row.watched # NoAddress => row.watched \in custody

\* An opening is owed once per row: a booked row stays booked, with the amount
\* it was booked with, through every rotation.
OpeningStays ==
  [][row.booked => row'.booked /\ row'.opening = row.opening]_vars

\* The books follow the coin as Float says: the opening enters the whole float
\* or nothing, once, and a sweep or a rotation enters nothing.
FloatEntersOnce == INSTANCE Float WITH held <- Held, booked <- books
KeepsTheBooks == FloatEntersOnce!Spec

\* A treasury whose past may be stated, because it was minted here or because
\* the indexer needs no statement, gets registered.
Registers == Found /\ (~cold \/ DerivedHere(row)) ~> Registered
=============================================================================
