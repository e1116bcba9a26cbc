---------------------------- MODULE SweepsProofs ----------------------------
(***************************************************************************)
(* Theorems about the sweep planner, for every set of deposit addresses    *)
(* and every fee, target, limit and sequence of deposits.                  *)
(***************************************************************************)
EXTENDS Sweeps, Sums, SequenceTheorems

\* What the planner's decisions need of the types.
Shape ==
  /\ row \in [Keys -> RowStates]
  /\ registered \in SUBSET Sources
  /\ list \in Seq(Sources)
  /\ pc \in {"idle"} \cup NativeLabels \cup TokenLabels

\* What a pass has read stays true while it uses it: rows of an address retire
\* behind its back, and none is planned but by the pass itself.
Reading ==
  /\ pc \in {"candidates", "token candidates"} => AddressesInFlight \subseteq away
  /\ \A i \in 1..Len(list) : list[i] \notin AddressesInFlight
  /\ pc \in {"observe", "plan", "pair"} => list # <<>>

Inv == Shape /\ Reading /\ OneMovement

\* The parts of a key.
LEMMA KeyParts ==
  ASSUME NEW s, NEW n
  PROVE  /\ Source(Sweep(s, n)) = s /\ Source(TopUp(s, n)) = s /\ Source(TokenSweep(s, n)) = s
         /\ Purpose(TopUp(s, n)) = "gas_topup" /\ Purpose(TokenSweep(s, n)) = "token_sweep"
         /\ Moves(TopUp(s, n)) = n /\ Moves(TokenSweep(s, n)) = n
  BY DEF Source, Purpose, Moves, Sweep, TopUp, TokenSweep, Key

LEMMA EmptyList == <<>> \in Seq(Sources) /\ \A i \in 1..Len(<<>>) : FALSE
  <1>1. Len(<<>>) = 0
    BY EmptySeq
  <1> QED
    BY <1>1, EmptySeq

LEMMA InvInit == Init => Inv
  <1> SUFFICES ASSUME Init PROVE Inv
    OBVIOUS
  <1>1. Shape
    BY EmptySeq DEF Init, Shape, RowStates
  <1>2. Reading
    BY DEF Init, Reading
  <1>3. OneMovement
    BY DEF Init, OneMovement, Unretired
  <1> QED
    BY <1>1, <1>2, <1>3 DEF Inv

\* A step of a row by anybody but the planner: no address becomes busy.
LEMMA Retires ==
  ASSUME Inv, UNCHANGED <<pass, registered>>, row' \in [Keys -> RowStates],
         \A k \in Keys : row'[k] \in Unretired => row[k] \in Unretired
  PROVE  Inv'
  <1>1. Shape'
    BY DEF Inv, Shape, pass
  <1>2. AddressesInFlight' \subseteq AddressesInFlight
    BY DEF AddressesInFlight
  <1>3. Reading'
    BY <1>1, <1>2 DEF Inv, Shape, Reading, pass
  <1>4. OneMovement'
    BY DEF Inv, OneMovement
  <1> QED
    BY <1>1, <1>3, <1>4 DEF Inv

\* A step of the pass that plans nothing, and holds nothing the read did not clear.
LEMMA Reads ==
  ASSUME Inv, UNCHANGED <<row, registered>>,
         pc' \in {"idle"} \cup NativeLabels \cup TokenLabels, list' \in Seq(Sources),
         pc' \in {"candidates", "token candidates"} => AddressesInFlight \subseteq away',
         \A i \in 1..Len(list') : list'[i] \notin AddressesInFlight,
         pc' \in {"observe", "plan", "pair"} => list' # <<>>
  PROVE  Inv'
  <1>1. Shape'
    BY DEF Inv, Shape
  <1>2. AddressesInFlight' = AddressesInFlight
    BY DEF AddressesInFlight
  <1>3. Reading'
    BY <1>2 DEF Reading
  <1>4. OneMovement'
    BY DEF Inv, OneMovement
  <1> QED
    BY <1>1, <1>3, <1>4 DEF Inv

LEMMA ListFacts ==
  ASSUME Inv
  PROVE  /\ <<>> \in Seq(Sources) /\ Len(<<>>) = 0
         /\ list # <<>> => /\ First \in Sources /\ First \notin AddressesInFlight
                           /\ Rest \in Seq(Sources) /\ \A i \in 1..Len(Rest) : Rest[i] \notin AddressesInFlight
  <1>1. ASSUME list # <<>>
        PROVE  /\ First \in Sources /\ First \notin AddressesInFlight
               /\ Rest \in Seq(Sources) /\ \A i \in 1..Len(Rest) : Rest[i] \notin AddressesInFlight
    <2>1. list \in Seq(Sources) /\ Len(list) \in Nat \ {0}
      BY <1>1, EmptySeq DEF Inv, Shape
    <2>a. 1 \in 1..Len(list)
      BY <2>1
    <2>2. \A i \in 1..Len(list) : list[i] \notin AddressesInFlight
      BY DEF Inv, Reading
    <2>3. First \in Sources /\ First \notin AddressesInFlight
      BY <2>1, <2>a, <2>2, ElementOfSeq DEF First
    <2>4. Rest \in Seq(Sources) /\ Len(Rest) = Len(list) - 1
      BY <2>1, <1>1, HeadTailProperties DEF Rest
    <2>5. \A i \in 1..Len(Rest) : Rest[i] = list[i + 1]
      BY <2>1, <1>1, HeadTailProperties DEF Rest
    <2>6. ASSUME NEW i \in 1..Len(Rest) PROVE Rest[i] \notin AddressesInFlight
      <3>1. i + 1 \in 1..Len(list)
        BY <2>1, <2>4
      <3>2. Rest[i] = list[i + 1]
        BY <2>5
      <3> QED
        BY <2>2, <3>1, <3>2
    <2> QED
      BY <2>3, <2>4, <2>6
  <1> QED
    BY <1>1, EmptySeq

LEMMA Ended ==
  ASSUME Inv, UNCHANGED <<row, registered>>, NEW c, End(c),
         c \in {"idle", "in flight", "tokens"}
  PROVE  Inv'
  <1>1. /\ pc' = c /\ pc' \notin {"candidates", "token candidates"}
        /\ pc' \in {"idle"} \cup NativeLabels \cup TokenLabels
    BY DEF End, Go, NativeLabels, TokenLabels
  <1>2. list' = <<>>
    BY DEF End, Go
  <1>3. list' \in Seq(Sources)
    BY <1>2, EmptyList
  <1>4. \A i \in 1..Len(list') : list'[i] \notin AddressesInFlight
    BY <1>2, EmptyList
  <1>5. pc' \notin {"observe", "plan", "pair"}
    BY <1>1
  <1> QED
    BY <1>1, <1>3, <1>4, <1>5, Reads

(***************************************************************************)
(* The pass.                                                               *)
(***************************************************************************)
LEMMA ReadStep ==
  ASSUME Inv, StartPass \/ ReadInFlight \/ ReadCandidates
  PROVE  Inv'
  <1>1. CASE StartPass
    BY <1>1, Ended DEF StartPass, books
  <1>2. CASE ReadInFlight
    <2>1. /\ pc' \in {"candidates", "token candidates"} /\ away' = AddressesInFlight
          /\ UNCHANGED <<row, registered>>
      BY <1>2 DEF ReadInFlight, Go, books
    <2>2. pc' \in NativeLabels \cup TokenLabels
      BY <2>1 DEF NativeLabels, TokenLabels
    <2>3. list' = <<>>
      BY <1>2 DEF ReadInFlight, Go
    <2>4. list' \in Seq(Sources) /\ \A i \in 1..Len(list') : list'[i] \notin AddressesInFlight
      BY <2>3
    <2> QED
      BY <2>1, <2>2, <2>4, Reads
  <1>3. CASE ReadCandidates
    <2>1. pc \in {"candidates", "token candidates"} /\ UNCHANGED <<row, registered>>
      BY <1>3 DEF ReadCandidates, books
    <2>2. PICK C \in SweepCandidates :
            \E l \in Listed(C \ away) :
              Go(IF pc = "candidates" THEN "probe" ELSE "balance", {}, l, 0)
      BY <1>3 DEF ReadCandidates
    <2>3. PICK l \in Listed(C \ away) :
            Go(IF pc = "candidates" THEN "probe" ELSE "balance", {}, l, 0)
      BY <2>2
    <2>4. pc' \in {"probe", "balance"} /\ list' = l
      BY <2>1, <2>3 DEF Go
    <2> DEFINE D == C \ away
    <2>5. D \subseteq Sources /\ D \cap AddressesInFlight = {}
      BY <2>1, <2>2 DEF SweepCandidates, Inv, Shape, Reading
    <2>6. Cardinality(D) \in Nat
      BY <2>5, SweepsAssumption, FS_Subset, FS_CardinalityType
    <2>7. l \in [1..Cardinality(D) -> D]
      BY <2>3 DEF Listed
    <2> HIDE DEF D
    <2>8. l \in Seq(Sources) /\ Len(l) = Cardinality(D)
      BY <2>5, <2>6, <2>7
    <2>9. \A i \in 1..Len(l) : l[i] \notin AddressesInFlight
      BY <2>5, <2>7, <2>8
    <2>10. /\ pc' \in NativeLabels \cup TokenLabels
           /\ pc' \notin {"candidates", "token candidates", "observe", "plan", "pair"}
      BY <2>4 DEF NativeLabels, TokenLabels
    <2> QED
      BY <2>1, <2>4, <2>8, <2>9, <2>10, Reads
  <1> QED
    BY <1>1, <1>2, <1>3

\* A step along the list.
LEMMA Walks ==
  ASSUME Inv, UNCHANGED <<row, registered>>, list # <<>>,
         NEW c \in {"probe", "observe", "plan", "balance", "pair"}, NEW n,
         Go(c, {}, list, n) \/ (c \in {"probe", "balance"} /\ Go(c, {}, Rest, n))
  PROVE  Inv'
  <1>1. pc' = c /\ list' \in {list, Rest} /\ (c \notin {"probe", "balance"} => list' = list)
    BY DEF Go
  <1>2. pc' \in NativeLabels \cup TokenLabels /\ pc' \notin {"candidates", "token candidates"}
    BY <1>1 DEF NativeLabels, TokenLabels
  <1>3. list' \in Seq(Sources) /\ \A i \in 1..Len(list') : list'[i] \notin AddressesInFlight
    BY <1>1, ListFacts DEF Inv, Shape, Reading
  <1>4. pc' \in {"observe", "plan", "pair"} => list' # <<>>
    BY <1>1
  <1> QED
    BY <1>2, <1>3, <1>4, Reads

LEMMA ProbeStep ==
  ASSUME Inv, Probe \/ TokenBalance \/ Throw
  PROVE  Inv'
  <1>1. UNCHANGED <<row, registered>>
    BY DEF Probe, TokenBalance, Throw, books
  <1>2. CASE Probe
    BY <1>1, <1>2, Ended, Walks DEF Probe
  <1>3. CASE TokenBalance
    BY <1>1, <1>3, Ended, Walks DEF TokenBalance
  <1>4. CASE Throw
    BY <1>1, <1>4, Ended DEF Throw
  <1> QED
    BY <1>2, <1>3, <1>4

(***************************************************************************)
(* What is planned, and what becomes of a row.                             *)
(***************************************************************************)
\* A movement of an address that had none, after which the pass holds no list.
LEMMA PlanStep ==
  ASSUME Inv, NEW ks, NEW c \in {"idle", "tokens"}, NEW s \in Sources,
         s \notin AddressesInFlight, PlanOutbound(ks), End(c), UNCHANGED registered,
         \A j, k \in ks : Source(j) = s /\ SameMovement(j, k)
  PROVE  Inv'
  <1>1. row' = [k \in Keys |-> IF k \in Created(ks) THEN "planned" ELSE row[k]]
    BY DEF PlanOutbound
  <1>2. row' \in [Keys -> RowStates]
    BY <1>1 DEF RowStates, Inv, Shape
  <1>3. \A k \in Keys : row'[k] \in Unretired => row[k] \in Unretired \/ k \in ks
    BY <1>1 DEF Created
  <1>4. \A k \in Keys : row[k] \in Unretired => Source(k) # s
    BY DEF AddressesInFlight
  <1>5. OneMovement'
    <2> SUFFICES ASSUME NEW j \in Keys, NEW k \in Keys, Source(j) = Source(k),
                        row'[j] \in Unretired, row'[k] \in Unretired
                 PROVE  SameMovement(j, k)
      BY DEF OneMovement, SameMovement
    <2>1. CASE row[j] \in Unretired /\ row[k] \in Unretired
      BY <2>1 DEF Inv, OneMovement
    <2>2. CASE j \in ks /\ k \in ks
      BY <2>2
    <2> QED
      BY <1>3, <1>4, <2>1, <2>2
  <1>6. list' = <<>> /\ pc' = c
    BY DEF End, Go
  <1>7. list' \in Seq(Sources) /\ pc' \in {"idle"} \cup TokenLabels
    BY <1>6, EmptyList DEF TokenLabels
  <1>8. Shape'
    BY <1>2, <1>7 DEF Inv, Shape
  <1>9. Reading'
    <2>1. \A i \in 1..Len(list') : FALSE
      BY <1>6, EmptyList
    <2>2. pc' \notin {"candidates", "token candidates", "observe", "plan", "pair"}
      BY <1>6
    <2> QED
      BY <2>1, <2>2 DEF Reading
  <1> QED
    BY <1>5, <1>8, <1>9 DEF Inv

LEMMA ListStep ==
  ASSUME Inv, Observe \/ PlanSweep \/ PlanPair
  PROVE  Inv'
  <1>e. list # <<>>
    BY DEF Inv, Reading, Observe, PlanSweep, PlanPair
  <1>f. First \in Sources /\ First \notin AddressesInFlight
    BY <1>e, ListFacts
  <1>1. CASE Observe
    <2>1. UNCHANGED <<row, registered>>
      BY <1>1 DEF Observe
    <2> QED
      BY <1>1, <1>e, <2>1, Walks DEF Observe
  <1>2. CASE PlanSweep
    <2> DEFINE k == Sweep(First, seen)
    <2>1. PlanOutbound({k}) /\ UNCHANGED registered
      BY <1>2 DEF PlanSweep
    <2>2. CASE Created({k}) # {} /\ End("tokens")
      <3>1. \A i, j \in {k} : Source(i) = First /\ SameMovement(i, j)
        BY KeyParts DEF SameMovement
      <3> HIDE DEF k
      <3> QED
        BY <1>f, <2>1, <2>2, <3>1, PlanStep
    <2>3. CASE Created({k}) = {} /\ Go("probe", {}, Rest, 0)
      <3>1. row' = row
        BY <2>1, <2>3 DEF PlanOutbound, Inv, Shape
      <3> QED
        BY <1>e, <2>1, <2>3, <3>1, Walks
    <2> QED
      BY <1>2, <2>2, <2>3 DEF PlanSweep
  <1>3. CASE PlanPair
    <2> DEFINE ks == {TopUp(First, seen), TokenSweep(First, seen)}
    <2>1. PlanOutbound(ks) /\ UNCHANGED registered
      BY <1>3 DEF PlanPair
    <2>2. CASE Created(ks) # {} /\ End("idle")
      <3>1. \A i, j \in ks : Source(i) = First /\ SameMovement(i, j)
        BY KeyParts DEF SameMovement
      <3> HIDE DEF ks
      <3> QED
        BY <1>f, <2>1, <2>2, <3>1, PlanStep
    <2>3. CASE Created(ks) = {} /\ Go("balance", {}, Rest, 0)
      <3>1. row' = row
        BY <2>1, <2>3 DEF PlanOutbound, Inv, Shape
      <3> QED
        BY <1>e, <2>1, <2>3, <3>1, Walks
    <2> QED
      BY <1>3, <2>2, <2>3 DEF PlanPair
  <1> QED
    BY <1>1, <1>2, <1>3

LEMMA RowStep ==
  ASSUME Inv, NEW k \in Keys, Start(k) \/ Fail(k) \/ Confirm(k) \/ GoStuck(k)
  PROVE  Inv'
  <1>1. UNCHANGED <<pass, registered>>
    BY DEF Start, Fail, Confirm, GoStuck
  <1>2. row' \in [Keys -> RowStates]
    BY DEF Start, Fail, Confirm, GoStuck, SetRow, Failed, Inv, Shape, RowStates
  <1>3. \A j \in Keys : row'[j] \in Unretired => row[j] \in Unretired
    BY DEF Start, Fail, Confirm, GoStuck, SetRow, Failed, Inv, Shape, Unretired
  <1> QED
    BY <1>1, <1>2, <1>3, Retires

\* The chain, maturity and the users touch no row.
LEMMA OtherStep ==
  ASSUME Inv,
         \/ \E k \in Keys : MatureSweep(k) \/ Land(k) \/ Revert(k) \/ Die(k)
         \/ Users \/ UNCHANGED vars
  PROVE  Inv'
  <1>1. UNCHANGED <<pass, row>> /\ registered' \in SUBSET Sources
    BY DEF MatureSweep, Land, Revert, Die, Users, Deposit, DepositToken, RegisterSweepSource, Upsert,
           vars, books, Inv, Shape
  <1>2. Shape'
    BY <1>1 DEF Inv, Shape, pass
  <1>3. AddressesInFlight' = AddressesInFlight
    BY <1>1 DEF AddressesInFlight
  <1>4. Reading' /\ OneMovement'
    BY <1>1, <1>3 DEF Inv, Reading, OneMovement, pass
  <1> QED
    BY <1>2, <1>4 DEF Inv

LEMMA InvStep == Inv /\ [Next]_vars => Inv'
  <1> SUFFICES ASSUME Inv, [Next]_vars PROVE Inv'
    OBVIOUS
  <1>1. CASE Pass
    BY <1>1, ReadStep, ProbeStep, ListStep DEF Pass
  <1>2. CASE Throw
    BY <1>2, ProbeStep
  <1>3. CASE Drive
    BY <1>3, RowStep DEF Drive
  <1>4. CASE (\E k \in Keys : MatureSweep(k)) \/ Chain \/ Users \/ UNCHANGED vars
    BY <1>4, OtherStep DEF Chain
  <1> QED
    BY <1>1, <1>2, <1>3, <1>4 DEF Next

LEMMA InvHolds == Spec => []Inv
  BY InvInit, InvStep, PTL DEF Spec

\* An address has one movement planned or in the air, whatever steps between
\* what a pass reads and what it inserts.
THEOREM OneMovementHolds == Spec => []OneMovement
  <1>1. Inv => OneMovement
    BY DEF Inv
  <1> QED
    BY <1>1, InvHolds, PTL

(***************************************************************************)
(* The gas of a top-up.  Money leaves an address through a row of it that  *)
(* is live; while the token sweep waits, no other movement of the address  *)
(* is in the air, so the row is a stuck one.                               *)
(***************************************************************************)
Ledger ==
  /\ bal \in [Sources -> Int]
  /\ fate \in [Keys -> {"none", "landed", "reverted", "dead"}]

LEMMA KeyTypes == \A k \in Keys : Source(k) \in Sources /\ Moves(k) \in Int
  BY SweepsAssumption DEF Keys, Source, Moves, Amounts, Tokens

LEMMA LedgerStep == Ledger /\ [Next]_vars => Ledger'
  <1> SUFFICES ASSUME Ledger, [Next]_vars PROVE Ledger'
    OBVIOUS
  <1>1. ASSUME NEW k \in Keys, Land(k) \/ Revert(k) \/ Die(k) PROVE Ledger'
    BY <1>1, KeyTypes, SweepsAssumption DEF Land, Revert, Die, Ledger
  <1>2. CASE Users
    <2>1. ASSUME NEW s \in Sources, NEW n \in Sizes, Deposit(s, n) PROVE Ledger'
      BY <2>1, SweepsAssumption DEF Deposit, Ledger
    <2>2. ASSUME NEW s \in Sources, DepositToken(s) \/ RegisterSweepSource(s) PROVE Ledger'
      BY <2>2 DEF DepositToken, RegisterSweepSource, chain, Ledger
    <2> QED
      BY <1>2, <2>1, <2>2 DEF Users
  <1>3. CASE Pass \/ Throw \/ Drive \/ (\E k \in Keys : MatureSweep(k)) \/ UNCHANGED vars
    <2>1. UNCHANGED chain
      BY <1>3 DEF Pass, StartPass, ReadInFlight, ReadCandidates, Probe, Observe, PlanSweep,
                  TokenBalance, PlanPair, Throw, Drive, Start, Fail, Confirm, GoStuck, MatureSweep, vars
    <2> QED
      BY <2>1 DEF chain, Ledger
  <1> QED
    BY <1>1, <1>2, <1>3 DEF Next, Chain

\* Coin leaves an address by the bytes of one of its rows.
LEMMA Leaves ==
  ASSUME Ledger, [Next]_vars, NEW s \in Sources, bal'[s] < bal[s]
  PROVE  \E k \in Keys : Source(k) = s /\ Live(k) /\ fate'[k] # fate[k]
  <1>1. ASSUME NEW k \in Keys, Land(k) \/ Revert(k)
        PROVE  Source(k) = s /\ Live(k) /\ fate'[k] # fate[k]
    <2>1. Live(k) /\ fate'[k] # fate[k]
      BY <1>1 DEF Land, Revert, Live, Ledger
    <2>2. Source(k) # s => bal'[s] = bal[s]
      BY <1>1, KeyTypes DEF Land, Revert, Ledger
    <2>3. bal[s] \in Int
      BY DEF Ledger
    <2> QED
      BY <2>1, <2>2, <2>3
  <1>2. ASSUME NEW t \in Sources, NEW n \in Sizes, Deposit(t, n) PROVE FALSE
    <2>1. bal' = [bal EXCEPT ![t] = @ + n] /\ n \in Nat /\ bal[t] \in Int /\ bal[s] \in Int
      BY <1>2, SweepsAssumption DEF Deposit, Ledger
    <2> QED
      BY <2>1 DEF Ledger
  <1>3. ASSUME bal' = bal PROVE FALSE
    BY <1>3 DEF Ledger
  <1>4. ASSUME NEW t \in Sources, DepositToken(t) \/ RegisterSweepSource(t) PROVE bal' = bal
    BY <1>4 DEF DepositToken, RegisterSweepSource, chain
  <1>5. ASSUME NEW k \in Keys, Die(k) \/ MatureSweep(k) PROVE bal' = bal
    BY <1>5 DEF Die, MatureSweep, chain
  <1>6. CASE Pass \/ Throw \/ Drive \/ UNCHANGED vars
    <2>1. bal' = bal
      BY <1>6 DEF Pass, StartPass, ReadInFlight, ReadCandidates, Probe, Observe, PlanSweep,
                  TokenBalance, PlanPair, Throw, Drive, Start, Fail, Confirm, GoStuck, vars, chain
    <2> QED
      BY <1>3, <2>1
  <1> QED
    BY <1>1, <1>2, <1>3, <1>4, <1>5, <1>6 DEF Next, Chain, Users

LEMMA GasStep ==
  ASSUME Inv, Ledger, [Next]_vars, NEW s \in Sources, NEW n \in Tokens,
         row[TopUp(s, n)] = "confirmed", row[TokenSweep(s, n)] = "planned", bal'[s] < bal[s]
  PROVE  \E k \in Keys : Source(k) = s /\ row[k] = "stuck" /\ fate'[k] # fate[k]
  <1>1. PICK k \in Keys : Source(k) = s /\ Live(k) /\ fate'[k] # fate[k]
    BY Leaves
  <1>2. TopUp(s, n) \in Keys /\ TokenSweep(s, n) \in Keys
    BY DEF TopUp, TokenSweep, Key, Keys
  <1>3. CASE row[k] = "flying"
    <2>1. SameMovement(k, TokenSweep(s, n))
      BY <1>1, <1>2, <1>3, KeyParts DEF Inv, OneMovement, Unretired
    <2>2. k = TopUp(s, n) \/ k = TokenSweep(s, n)
      <3>1. CASE k = TokenSweep(s, n)
        BY <3>1
      <3>2. CASE Purpose(k) # "sweep" /\ Moves(k) = n
        BY <1>1, <3>2 DEF Keys, Source, Purpose, Moves, TopUp, TokenSweep, Key
      <3> QED
        BY <2>1, <3>1, <3>2, KeyParts DEF SameMovement
    <2> QED
      BY <1>3, <2>2
  <1> QED
    BY <1>1, <1>3 DEF Live

\* The gas a top-up brought waits for the token sweep it was brought for: only a
\* movement that was given up as stuck may still take it.
THEOREM GasWaitsHolds == Spec => GasWaits
  <1>1. Init => Ledger
    BY DEF Init, Ledger
  <1>2. Inv /\ Ledger /\ [Next]_vars =>
          [\A s \in Sources, n \in Tokens :
             /\ row[TopUp(s, n)] = "confirmed" /\ row[TokenSweep(s, n)] = "planned"
             /\ bal'[s] < bal[s]
             => \E k \in Keys : Source(k) = s /\ row[k] = "stuck" /\ fate'[k] # fate[k]]_vars
    BY GasStep
  <1> QED
    BY <1>1, <1>2, InvHolds, LedgerStep, PTL DEF Spec, GasWaits

(***************************************************************************)
(* Types.  The treasury does not go below nothing because a native sweep   *)
(* is planned for more than its fee, and the pass that plans it has        *)
(* compared the two a step before.                                         *)
(***************************************************************************)
Worth ==
  /\ pc = "plan" => seen > Fee
  /\ \A k \in Keys : row[k] # "none" /\ Purpose(k) = "sweep" => Moves(k) > Fee

TypeInv == TypeOK /\ Worth

LEMMA KeyNats == \A k \in Keys : Source(k) \in Sources /\ Moves(k) \in Nat /\ Moves(k) >= 1
  BY SweepsAssumption DEF Keys, Source, Moves, Amounts, Tokens

LEMMA InFlightAreSources == AddressesInFlight \subseteq Sources
  BY KeyNats DEF AddressesInFlight

LEMMA ProbedType ==
  ASSUME NEW s \in Sources, NEW n, probed \in Seq(Sources), RecordObservation(s, n)
  PROVE  probed' \in Seq(Sources)
  <1>1. CASE ProbedBefore(s)
    <2> DEFINE a == SubSeq(probed, 1, Rank(s) - 1)
               b == SubSeq(probed, Rank(s) + 1, Len(probed))
    <2>1. Rank(s) \in DOMAIN probed /\ Len(probed) \in Nat /\ DOMAIN probed = 1..Len(probed)
      BY <1>1 DEF ProbedBefore, Rank
    <2>2. \A i \in 1..Len(probed) : probed[i] \in Sources
      BY ElementOfSeq
    <2>3. a \in Seq(Sources)
      <3>1. Rank(s) - 1 \in Int /\ \A i \in 1..Rank(s) - 1 : probed[i] \in Sources
        BY <2>1, <2>2
      <3> QED
        BY <3>1, SubSeqProperties
    <2>4. b \in Seq(Sources)
      <3>1. Rank(s) + 1 \in Int /\ \A i \in Rank(s) + 1..Len(probed) : probed[i] \in Sources
        BY <2>1, <2>2
      <3> QED
        BY <2>1, <3>1, SubSeqProperties
    <2>5. probed' = a \o b \o <<s>>
      BY <1>1 DEF RecordObservation
    <2> HIDE DEF a, b
    <2>6. a \o b \in Seq(Sources)
      BY <2>3, <2>4, ConcatProperties
    <2>7. <<s>> \in Seq(Sources)
      OBVIOUS
    <2>8. (a \o b) \o <<s>> \in Seq(Sources)
      BY <2>6, <2>7, ConcatProperties
    <2> QED
      BY <2>5, <2>8
  <1>2. CASE ~ProbedBefore(s)
    BY <1>2, AppendProperties DEF RecordObservation
  <1> QED
    BY <1>1, <1>2

LEMMA TypeInit == Init => TypeInv
  <1> SUFFICES ASSUME Init PROVE TypeInv
    OBVIOUS
  <1>1. \A k \in Keys : row[k] = "none"
    BY DEF Init
  <1>2. <<>> \in Seq(Sources)
    BY EmptyList
  <1> QED
    BY <1>1, <1>2, SweepsAssumption
    DEF Init, TypeInv, TypeOK, Worth, RowStates, NativeLabels, TokenLabels, Unknown

\* A step of the pass that observes nothing.
LEMMA PassType ==
  ASSUME Inv, Inv', TypeInv,
         UNCHANGED <<chain, registered, observed, probed, swept, matured, maturing>>,
         away' \subseteq Sources, seen' \in Nat, fails' \in 0..MaxFails, Worth'
  PROVE  TypeInv'
  <1>1. /\ row' \in [Keys -> RowStates] /\ list' \in Seq(Sources)
        /\ pc' \in {"idle"} \cup NativeLabels \cup TokenLabels
    BY DEF Inv, Shape
  <1> QED
    BY <1>1 DEF TypeInv, TypeOK, chain

LEMMA TypePass ==
  ASSUME Inv, Inv', TypeInv, Pass \/ Throw
  PROVE  TypeInv'
  <1> USE DEF TypeInv, TypeOK
  <1>e. pc \in {"observe", "plan", "pair"} => list # <<>>
    BY DEF Inv, Reading
  <1>f. list # <<>> => First \in Sources
    BY ListFacts
  <1>0. /\ 0 \in Nat /\ {} \subseteq Sources
    OBVIOUS
  <1>1. CASE StartPass \/ Throw
    <2>1. /\ UNCHANGED <<chain, row, registered, observed, probed, swept, matured, maturing>>
          /\ away' = {} /\ seen' = 0 /\ pc' # "plan"
      BY <1>1 DEF StartPass, Throw, End, Go, books
    <2>2. Worth'
      BY <2>1 DEF Worth
    <2>3. fails' \in 0..MaxFails
      <3>1. MaxFails \in Nat /\ fails \in 0..MaxFails
        BY SweepsAssumption
      <3>2. fails' = fails \/ (fails < MaxFails /\ fails' = fails + 1)
        BY <1>1 DEF StartPass, Throw
      <3> QED
        BY <3>1, <3>2
    <2> QED
      BY <2>1, <2>2, <2>3, PassType
  <1>2. CASE ReadInFlight \/ ReadCandidates
    <2>1. /\ UNCHANGED <<chain, row, registered, observed, probed, swept, matured, maturing, fails>>
          /\ away' \in {AddressesInFlight, {}} /\ seen' = 0 /\ pc' # "plan"
      BY <1>2 DEF ReadInFlight, ReadCandidates, Go, books
    <2>2. Worth'
      BY <2>1 DEF Worth
    <2> QED
      BY <2>1, <2>2, PassType, InFlightAreSources
  <1>3. CASE Probe \/ TokenBalance
    <2>1. /\ UNCHANGED <<chain, row, registered, observed, probed, swept, matured, maturing, fails>>
          /\ away' = {} /\ pc' # "plan"
      BY <1>3 DEF Probe, TokenBalance, End, Go, books
    <2>2. seen' \in Nat
      <3>1. CASE Probe
        BY <1>f, <3>1 DEF Probe, End, Go
      <3>2. CASE TokenBalance
        BY <1>f, <3>2 DEF TokenBalance, End, Go
      <3> QED
        BY <1>3, <3>1, <3>2
    <2>3. Worth'
      BY <2>1 DEF Worth
    <2> QED
      BY <2>1, <2>2, <2>3, PassType
  <1>4. CASE Observe
    <2>1. RecordObservation(First, seen) /\ First \in Sources
      BY <1>4, <1>e, <1>f DEF Observe
    <2>2. probed' \in Seq(Sources)
      BY <2>1, ProbedType
    <2>3. observed' \in [Sources -> Nat \cup {Unknown}]
      BY <2>1 DEF RecordObservation
    <2>4. /\ UNCHANGED <<chain, row, registered, swept, matured, maturing, fails>>
          /\ away' = {} /\ seen' \in Nat
      BY <1>4 DEF Observe, Go
    <2>5. Worth'
      BY <1>4 DEF Observe, Go, Worth, Worthwhile
    <2>6. /\ row' \in [Keys -> RowStates] /\ list' \in Seq(Sources)
          /\ pc' \in {"idle"} \cup NativeLabels \cup TokenLabels
      BY DEF Inv, Shape
    <2> QED
      BY <2>2, <2>3, <2>4, <2>5, <2>6 DEF chain
  <1>5. CASE PlanSweep
    <2>1. /\ UNCHANGED <<chain, registered, observed, probed, swept, matured, maturing, fails>>
          /\ away' = {} /\ seen' = 0 /\ pc' # "plan" /\ pc = "plan"
      BY <1>5 DEF PlanSweep, End, Go
    <2>2. \A k \in Keys : row'[k] # "none" => row[k] # "none" \/ k = Sweep(First, seen)
      BY <1>5 DEF PlanSweep, PlanOutbound, Created
    <2>3. Moves(Sweep(First, seen)) = seen
      BY DEF Moves, Sweep, Key
    <2>4. Worth'
      BY <2>1, <2>2, <2>3 DEF Worth
    <2> QED
      BY <2>1, <2>4, PassType
  <1>6. CASE PlanPair
    <2>1. /\ UNCHANGED <<chain, registered, observed, probed, swept, matured, maturing, fails>>
          /\ away' = {} /\ seen' = 0 /\ pc' # "plan"
      BY <1>6 DEF PlanPair, End, Go
    <2>2. \A k \in Keys : row'[k] # "none" =>
            row[k] # "none" \/ k \in {TopUp(First, seen), TokenSweep(First, seen)}
      BY <1>6 DEF PlanPair, PlanOutbound, Created
    <2>3. Worth'
      BY <2>1, <2>2, KeyParts DEF Worth
    <2> QED
      BY <2>1, <2>3, PassType
  <1> QED
    BY <1>1, <1>2, <1>3, <1>4, <1>5, <1>6 DEF Pass

LEMMA TypeRow ==
  ASSUME Inv', TypeInv, NEW k \in Keys,
         Start(k) \/ Fail(k) \/ Confirm(k) \/ GoStuck(k) \/ MatureSweep(k)
  PROVE  TypeInv'
  <1> USE DEF TypeInv, TypeOK
  <1>1. /\ row' \in [Keys -> RowStates] /\ list' \in Seq(Sources)
        /\ pc' \in {"idle"} \cup NativeLabels \cup TokenLabels
    BY DEF Inv, Shape
  <1>2. UNCHANGED <<chain, registered, probed, pass, fails>>
    BY DEF Start, Fail, Confirm, GoStuck, MatureSweep
  <1>3. \A j \in Keys : row'[j] # "none" => row[j] # "none"
    BY DEF Start, Fail, Failed, Confirm, GoStuck, MatureSweep, SetRow
  <1>4. Worth'
    BY <1>2, <1>3 DEF Worth, pass
  <1>5. /\ maturing' \subseteq Keys /\ matured' \subseteq Keys
        /\ swept' \in [Sources -> Nat] /\ observed' \in [Sources -> Nat \cup {Unknown}]
    <2>1. CASE Start(k) \/ Fail(k) \/ GoStuck(k)
      BY <2>1 DEF Start, Fail, GoStuck
    <2>2. CASE Confirm(k)
      BY <2>2 DEF Confirm
    <2>3. CASE MatureSweep(k)
      <3>1. maturing' \subseteq Keys /\ matured' \subseteq Keys
        BY <2>3 DEF MatureSweep
      <3>2. swept' \in [Sources -> Nat] /\ observed' \in [Sources -> Nat \cup {Unknown}]
        <4> DEFINE s == Source(k)
                   m == Moves(k)
        <4>1. s \in Sources /\ m \in Nat /\ Unknown \in Int /\ swept[s] \in Nat
          BY KeyNats DEF Unknown
        <4>2. observed[s] \in Int /\ (observed[s] > m => observed[s] - m \in Nat)
          BY <4>1 DEF Unknown
        <4>3. \/ UNCHANGED <<swept, observed>>
              \/ /\ swept' = [swept EXCEPT ![s] = @ + m]
                 /\ observed' = [observed EXCEPT ![s] = IF @ > m THEN @ - m ELSE 0]
          BY <2>3 DEF MatureSweep
        <4> HIDE DEF s, m
        <4>4. swept[s] + m \in Nat /\ (IF observed[s] > m THEN observed[s] - m ELSE 0) \in Nat
          BY <4>1, <4>2
        <4>5. CASE UNCHANGED <<swept, observed>>
          BY <4>5
        <4>6. CASE swept' = [swept EXCEPT ![s] = @ + m]
                   /\ observed' = [observed EXCEPT ![s] = IF @ > m THEN @ - m ELSE 0]
          <5>1. swept' \in [Sources -> Nat]
            BY <4>1, <4>4, <4>6
          <5>2. observed' \in [Sources -> Nat \cup {Unknown}]
            BY <4>1, <4>4, <4>6
          <5> QED
            BY <5>1, <5>2
        <4> QED
          BY <4>3, <4>5, <4>6
      <3> QED
        BY <3>1, <3>2
    <2> QED
      BY <2>1, <2>2, <2>3
  <1> QED
    BY <1>1, <1>2, <1>4, <1>5 DEF chain, pass

LEMMA TypeChain ==
  ASSUME Inv', TypeInv, Chain \/ Users \/ UNCHANGED vars
  PROVE  TypeInv'
  <1> USE DEF TypeInv, TypeOK
  <1>1. /\ row' \in [Keys -> RowStates] /\ list' \in Seq(Sources)
        /\ pc' \in {"idle"} \cup NativeLabels \cup TokenLabels
    BY DEF Inv, Shape
  <1>2. /\ UNCHANGED <<row, observed, probed, swept, matured, maturing, pass, fails>>
        /\ registered' \subseteq Sources
    BY DEF Chain, Land, Revert, Die, Users, Deposit, DepositToken, RegisterSweepSource, Upsert, books, vars
  <1>3. Worth'
    BY <1>2 DEF Worth, pass
  <1>4. /\ bal' \in [Sources -> Nat] /\ tok' \in [Sources -> Nat] /\ held' \in Nat
        /\ given' \in 0..MaxCoin /\ tokGiven' \in 0..MaxTokens
        /\ fate' \in [Keys -> {"none", "landed", "reverted", "dead"}]
    <2>1. ASSUME NEW k \in Keys, Land(k)
          PROVE  /\ bal' \in [Sources -> Nat] /\ tok' \in [Sources -> Nat] /\ held' \in Nat
                 /\ UNCHANGED <<given, tokGiven>>
                 /\ fate' \in [Keys -> {"none", "landed", "reverted", "dead"}]
      <3> DEFINE s == Source(k)
      <3>1. s \in Sources /\ Moves(k) \in Nat /\ bal[s] \in Nat /\ tok[s] \in Nat /\ Fee \in Nat /\ held \in Nat
        BY KeyNats, SweepsAssumption
      <3>2. UNCHANGED <<given, tokGiven>> /\ fate' \in [Keys -> {"none", "landed", "reverted", "dead"}]
        BY <2>1 DEF Land
      <3>3. CASE Purpose(k) = "sweep" /\ bal[s] >= Moves(k)
                 /\ bal' = [bal EXCEPT ![s] = @ - Moves(k)]
                 /\ held' = held + Moves(k) - Fee /\ UNCHANGED tok
        <4>1. Moves(k) > Fee
          BY <2>1, <3>3 DEF Land, Live, Worth
        <4> HIDE DEF s
        <4>2. held' \in Nat /\ bal[s] - Moves(k) \in Nat
          <5>1. \A x, y, z, b \in Nat : y > z /\ b >= y => x + y - z \in Nat /\ b - y \in Nat
            OBVIOUS
          <5> QED
            BY <3>1, <3>3, <4>1, <5>1
        <4>3. bal' \in [Sources -> Nat]
          BY <3>1, <3>3, <4>2
        <4> QED
          BY <3>2, <3>3, <4>2, <4>3
      <3>4. CASE Purpose(k) = "gas_topup" /\ held >= 2 * Fee
                 /\ bal' = [bal EXCEPT ![s] = @ + Fee]
                 /\ held' = held - 2 * Fee /\ UNCHANGED tok
        <4>2. held' \in Nat /\ bal[s] + Fee \in Nat
          BY <3>1, <3>4
        <4> HIDE DEF s
        <4> QED
          BY <3>1, <3>2, <3>4, <4>2
      <3>5. CASE Purpose(k) = "token_sweep" /\ bal[s] >= Fee /\ tok[s] >= Moves(k)
                 /\ bal' = [bal EXCEPT ![s] = @ - Fee]
                 /\ tok' = [tok EXCEPT ![s] = @ - Moves(k)] /\ UNCHANGED held
        <4>2. bal[s] - Fee \in Nat /\ tok[s] - Moves(k) \in Nat
          BY <3>1, <3>5
        <4> HIDE DEF s
        <4> QED
          BY <3>1, <3>2, <3>5, <4>2
      <3> QED
        BY <2>1, <3>2, <3>3, <3>4, <3>5 DEF Land
    <2>2. ASSUME NEW k \in Keys, Revert(k)
          PROVE  /\ bal' \in [Sources -> Nat]
                 /\ fate' \in [Keys -> {"none", "landed", "reverted", "dead"}]
      <3> DEFINE s == Source(k)
      <3>1. s \in Sources /\ bal[s] >= Fee /\ bal' = [bal EXCEPT ![s] = @ - Fee]
        BY <2>2, KeyNats DEF Revert
      <3>2. Fee \in Nat /\ bal[s] \in Nat
        BY <3>1, SweepsAssumption
      <3> HIDE DEF s
      <3>3. bal' \in [Sources -> Nat]
        BY <3>1, <3>2
      <3> QED
        BY <2>2, <3>3 DEF Revert
    <2>3. ASSUME NEW k \in Keys, Die(k)
          PROVE  fate' \in [Keys -> {"none", "landed", "reverted", "dead"}]
      BY <2>3 DEF Die
    <2>4. ASSUME NEW s \in Sources, NEW n \in Sizes, Deposit(s, n)
          PROVE  bal' \in [Sources -> Nat] /\ given' \in 0..MaxCoin
      <3>1. n \in Nat /\ MaxCoin \in Nat
        BY SweepsAssumption
      <3> QED
        BY <2>4, <3>1 DEF Deposit
    <2>5. ASSUME NEW s \in Sources, DepositToken(s)
          PROVE  tok' \in [Sources -> Nat] /\ tokGiven' \in 0..MaxTokens
      <3>1. MaxTokens \in Nat
        BY SweepsAssumption
      <3> QED
        BY <2>5, <3>1 DEF DepositToken
    <2> QED
      BY <2>1, <2>2, <2>3, <2>4, <2>5
      DEF Chain, Users, Revert, Die, Deposit, DepositToken, RegisterSweepSource, chain, vars
  <1> QED
    BY <1>1, <1>2, <1>3, <1>4 DEF pass

LEMMA TypeHolds == Spec => []TypeInv
  <1>1. Inv /\ Inv' /\ TypeInv /\ [Next]_vars => TypeInv'
    BY TypePass, TypeRow, TypeChain DEF Next, Drive
  <1> QED
    BY <1>1, TypeInit, InvHolds, PTL DEF Spec

\* Every variable keeps its type; above all, no balance and no observation of
\* one goes below zero.
THEOREM TypeOKHolds == Spec => []TypeOK
  <1>1. TypeInv => TypeOK
    BY DEF TypeInv
  <1> QED
    BY <1>1, TypeHolds, PTL

(***************************************************************************)
(* What matured sweeps took off an address: only a native sweep that has   *)
(* landed matures, each once, and what has landed stays landed.            *)
(***************************************************************************)
Worths(s) == {n \in Amounts : Sweep(s, n) \in matured}
Landed(s) == {n \in Amounts : fate[Sweep(s, n)] = "landed"}
Own == [n \in Amounts |-> n]

SweptInv ==
  /\ \A k \in maturing \cup matured : k \in Keys /\ Purpose(k) = "sweep" /\ fate[k] = "landed"
  /\ \A s \in Sources : swept[s] = Total(Own, Worths(s))

LEMMA AmountFacts ==
  /\ IsFiniteSet(Amounts) /\ Amounts \subseteq Nat
  /\ \A n \in Amounts : Own[n] \in Nat /\ Own[n] \in Int /\ Own[n] = n
  /\ \A s \in Sources, n \in Amounts : Sweep(s, n) \in Keys
  /\ \A k \in Keys : Purpose(k) = "sweep" =>
       Moves(k) \in Amounts /\ Source(k) \in Sources /\ k = Sweep(Source(k), Moves(k))
  <1>1. MaxCoin + Fee * MaxTokens \in Int
    BY SweepsAssumption
  <1>2. IsFiniteSet(Amounts) /\ Amounts \subseteq Nat
    BY <1>1, FS_Interval DEF Amounts
  <1>3. \A n \in Amounts : Own[n] \in Nat /\ Own[n] \in Int /\ Own[n] = n
    BY <1>2 DEF Own
  <1>4. \A s \in Sources, n \in Amounts : Sweep(s, n) \in Keys
    BY DEF Keys, Sweep, Key
  <1>5. \A k \in Keys : Purpose(k) = "sweep" =>
          Moves(k) \in Amounts /\ Source(k) \in Sources /\ k = Sweep(Source(k), Moves(k))
    BY DEF Keys, Purpose, Moves, Source, Sweep, Key
  <1> QED
    BY <1>2, <1>3, <1>4, <1>5

\* The sums of the model and the sums that are reasoned about.
LEMMA TakenIsTotal == ASSUME NEW s PROVE Taken(s) = Total(Own, Landed(s))
  <1> DEFINE L == Landed(s)
  <1>1. L \subseteq Amounts /\ IsFiniteSet(L)
    BY AmountFacts, FS_Subset DEF Landed
  <1>2. \A n \in L : Own[n] = n /\ Own[n] \in Int
    BY <1>1, AmountFacts
  <1> HIDE DEF L
  <1>3. SumSet(L) = Total(Own, L)
    BY <1>1, <1>2, SumSetIsTotal
  <1> QED
    BY <1>3 DEF Taken, L, Landed

LEMMA SweptInit == Init => SweptInv
  <1> SUFFICES ASSUME Init PROVE SweptInv
    OBVIOUS
  <1>1. \A s \in Sources : Worths(s) = {} /\ swept[s] = 0
    BY DEF Init, Worths
  <1>2. maturing \cup matured = {}
    BY DEF Init
  <1> QED
    BY <1>1, <1>2, TotalEmpty DEF SweptInv

\* A step under which nothing matures.
LEMMA SweptKept ==
  ASSUME SweptInv, UNCHANGED <<matured, swept>>,
         \A k \in maturing' : k \in maturing \/ (k \in Keys /\ Purpose(k) = "sweep" /\ fate'[k] = "landed"),
         \A k \in Keys : fate[k] = "landed" => fate'[k] = "landed"
  PROVE  SweptInv'
  <1>1. \A s \in Sources : Worths(s)' = Worths(s)
    BY DEF Worths
  <1>2. \A s \in Sources : swept'[s] = Total(Own, Worths(s)')
    BY <1>1 DEF SweptInv
  <1>3. \A k \in maturing' \cup matured' : k \in Keys /\ Purpose(k) = "sweep" /\ fate'[k] = "landed"
    BY DEF SweptInv
  <1> QED
    BY <1>2, <1>3 DEF SweptInv

LEMMA SweptMatures ==
  ASSUME TypeOK, SweptInv, NEW k \in Keys, MatureSweep(k), k \notin matured,
         matured' = matured \cup {k}, swept' = [swept EXCEPT ![Source(k)] = @ + Moves(k)]
  PROVE  SweptInv'
  <1>1. Purpose(k) = "sweep" /\ fate[k] = "landed" /\ maturing' \subseteq maturing /\ fate' = fate
    BY DEF MatureSweep, SweptInv, chain
  <1>2. PICK s \in Sources, n \in Amounts : k = Sweep(s, n) /\ s = Source(k) /\ n = Moves(k)
    BY <1>1, AmountFacts
  <1>3. \A k1 \in maturing' \cup matured' : k1 \in Keys /\ Purpose(k1) = "sweep" /\ fate'[k1] = "landed"
    BY <1>1 DEF SweptInv
  <1>4. Worths(s)' = Worths(s) \cup {n} /\ n \notin Worths(s)
    BY <1>2 DEF Worths, Sweep, Key
  <1>5. \A t \in Sources \ {s} : Worths(t)' = Worths(t)
    BY <1>2 DEF Worths, Sweep, Key
  <1>6. Total(Own, Worths(s) \cup {n}) = Total(Own, Worths(s)) + n
    <2> DEFINE W == Worths(s)
    <2>1. W \subseteq Amounts /\ IsFiniteSet(W)
      BY AmountFacts, FS_Subset DEF Worths
    <2>2. \A y \in W \cup {n} : Own[y] \in Int
      BY <2>1, AmountFacts
    <2>3. Own[n] = n /\ n \notin W
      BY <1>4, AmountFacts
    <2> HIDE DEF W
    <2>4. Total(Own, W \cup {n}) = Total(Own, W) + Own[n]
      BY <2>1, <2>2, <2>3, TotalAdd
    <2> QED
      BY <2>3, <2>4 DEF W
  <1>7. \A t \in Sources : swept'[t] = IF t = s THEN swept[s] + n ELSE swept[t]
    BY <1>2 DEF TypeOK
  <1>8. \A t \in Sources : swept'[t] = Total(Own, Worths(t)')
    BY <1>4, <1>5, <1>6, <1>7 DEF SweptInv
  <1> QED
    BY <1>3, <1>8 DEF SweptInv

LEMMA SweptStep == TypeOK /\ SweptInv /\ [Next]_vars => SweptInv'
  <1> SUFFICES ASSUME TypeOK, SweptInv, [Next]_vars PROVE SweptInv'
    OBVIOUS
  <1>1. CASE \E k \in Keys : MatureSweep(k)
    <2>1. PICK k \in Keys : MatureSweep(k)
      BY <1>1
    <2>2. CASE /\ k \notin matured /\ matured' = matured \cup {k}
               /\ swept' = [swept EXCEPT ![Source(k)] = @ + Moves(k)]
      BY <2>1, <2>2, SweptMatures
    <2>3. CASE UNCHANGED <<matured, swept>>
      BY <2>1, <2>3, SweptKept DEF MatureSweep, chain
    <2> QED
      BY <2>1, <2>2, <2>3 DEF MatureSweep
  <1>2. ASSUME NEW k \in Keys, Confirm(k) PROVE SweptInv'
    <2>1. UNCHANGED <<matured, swept, fate>> /\ fate[k] = "landed"
          /\ maturing' = IF Purpose(k) = "sweep" THEN maturing \cup {k} ELSE maturing
      BY <1>2 DEF Confirm, chain
    <2> QED
      BY <2>1, SweptKept
  <1>3. ASSUME NEW k \in Keys, Land(k) \/ Revert(k) \/ Die(k) PROVE SweptInv'
    <2>1. UNCHANGED <<matured, swept, maturing>> /\ fate[k] = "none"
      BY <1>3 DEF Land, Revert, Die, Live, books
    <2>2. \A j \in Keys : fate[j] = "landed" => fate'[j] = "landed"
      BY <1>3, <2>1 DEF Land, Revert, Die, TypeOK
    <2> QED
      BY <2>1, <2>2, SweptKept
  <1>4. CASE \/ Pass \/ Throw \/ Users \/ UNCHANGED vars
             \/ \E k \in Keys : Start(k) \/ Fail(k) \/ GoStuck(k)
    <2>1. UNCHANGED <<matured, swept, maturing, fate>>
      BY <1>4 DEF Pass, StartPass, ReadInFlight, ReadCandidates, Probe, Observe, PlanSweep,
                  TokenBalance, PlanPair, Throw, Users, Deposit, DepositToken, RegisterSweepSource,
                  Start, Fail, GoStuck, chain, books, vars
    <2> QED
      BY <2>1, SweptKept
  <1> QED
    BY <1>1, <1>2, <1>3, <1>4 DEF Next, Drive, Chain

\* swept never exceeds what native sweeps took off the address: no token amount
\* and no sweep that failed enters it, and none enters it twice.
THEOREM SweptHasLeftHolds == Spec => []SweptHasLeft
  <1>1. SweptInv => SweptHasLeft
    <2> SUFFICES ASSUME SweptInv, NEW s \in Sources PROVE swept[s] <= Taken(s)
      BY DEF SweptHasLeft
    <2>1. Worths(s) \subseteq Landed(s) /\ Landed(s) \subseteq Amounts
      BY DEF SweptInv, Worths, Landed
    <2>2. IsFiniteSet(Landed(s)) /\ \A n \in Landed(s) : Own[n] \in Nat
      BY <2>1, AmountFacts, FS_Subset
    <2>3. Total(Own, Worths(s)) <= Total(Own, Landed(s))
      BY <2>1, <2>2, TotalGrows
    <2> QED
      BY <2>3, TakenIsTotal DEF SweptInv
  <1> QED
    BY <1>1, SweptInit, SweptStep, TypeOKHolds, PTL DEF Spec
=============================================================================
