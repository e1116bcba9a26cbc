---------------------------- MODULE CoinsProofs ----------------------------
(***************************************************************************)
(* Theorems about the adapter of the Bitcoin family, for every set of      *)
(* coins and values, every quote and median, every size and bound.         *)
(***************************************************************************)
EXTENDS Coins, Sums

(***************************************************************************)
(* Numbers, orders and sums.                                               *)
(***************************************************************************)
LEMMA Products ==
  ASSUME NEW a \in Nat, NEW b \in Nat, NEW c \in Nat, NEW d \in Nat, a <= b, c <= d
  PROVE  a * c <= b * d
  <1>1. a * c \in Nat /\ a * d \in Nat /\ b * d \in Nat
    OBVIOUS
  <1>2. a * c <= a * d
    <2>1. PICK e \in Nat : d = c + e
      <3>1. d - c \in Nat /\ d = c + (d - c)
        OBVIOUS
      <3> QED
        BY <3>1
    <2>2. a * d = a * c + a * e /\ a * e \in Nat
      BY <2>1
    <2> QED
      BY <1>1, <2>2
  <1>3. a * d <= b * d
    <2>1. PICK e \in Nat : b = a + e
      <3>1. b - a \in Nat /\ b = a + (b - a)
        OBVIOUS
      <3> QED
        BY <3>1
    <2>2. b * d = a * d + e * d /\ e * d \in Nat
      BY <2>1
    <2> QED
      BY <1>1, <2>2
  <1> QED
    BY <1>1, <1>2, <1>3

LEMMA MinOfNats ==
  ASSUME NEW S \in SUBSET Nat, S # {}
  PROVE  Min(S) \in S /\ \A y \in S : Min(S) <= y
  <1>1. PICK x \in S : \A y \in S : ~(<<y, x>> \in OpToRel(<, Nat))
    BY NatLessThanWellFounded, WFMin
  <1>2. \A y \in S : x <= y
    <2> SUFFICES ASSUME NEW y \in S, y < x PROVE FALSE
      OBVIOUS
    <2>1. <<y, x>> \in OpToRel(<, Nat)
      BY DEF OpToRel
    <2> QED
      BY <1>1, <2>1
  <1> QED
    BY <1>2 DEF Min

\* A finite set has a last element in a total order, here a set of pairs.
LEMMA LastOfFinite ==
  ASSUME NEW S, IsFiniteSet(S), S # {}, NEW R,
         \A x, y \in S : <<x, y>> \in R \/ <<y, x>> \in R,
         \A x, y, z \in S : <<x, y>> \in R /\ <<y, z>> \in R => <<x, z>> \in R
  PROVE  \E m \in S : \A x \in S : <<x, m>> \in R
  <1> DEFINE F == {T \in SUBSET S : T = {} \/ \E m \in T : \A x \in T : <<x, m>> \in R}
  <1>1. {} \in F
    OBVIOUS
  <1>2. ASSUME NEW T \in SUBSET S, NEW x \in S \ T, T \in F PROVE T \cup {x} \in F
    <2>1. CASE T = {}
      <3>1. <<x, x>> \in R
        OBVIOUS
      <3> QED
        BY <2>1, <3>1
    <2>2. CASE T # {}
      <3>1. PICK m \in T : \A y \in T : <<y, m>> \in R
        BY <1>2, <2>2
      <3>2. CASE <<x, m>> \in R
        BY <3>1, <3>2
      <3>3. CASE <<m, x>> \in R
        <4>1. <<x, x>> \in R /\ \A y \in T : <<y, x>> \in R
          BY <3>1, <3>3
        <4> QED
          BY <4>1
      <3> QED
        BY <3>2, <3>3
    <2> QED
      BY <2>1, <2>2
  <1> HIDE DEF F
  <1>3. S \in F
    BY <1>1, <1>2, SubsetInduction
  <1> QED
    BY <1>3 DEF F

LEMMA TotalOfIsTotal == ASSUME NEW S PROVE TotalOf(S) = Total(value, S)
  BY DEF TotalOf, MapThenSumSet, Total, FoldFunctionOnSet

LEMMA TotalOfType ==
  ASSUME value \in [Outpoints -> Values], NEW S \in SUBSET Outpoints
  PROVE  TotalOf(S) \in Int
  <1>1. IsFiniteSet(S) /\ \A c \in S : value[c] \in Int
    <2>1. IsFiniteSet(S)
      BY CoinsAssumption, FS_Subset
    <2>2. Values \subseteq Nat
      BY CoinsAssumption
    <2>3. ASSUME NEW c \in S PROVE value[c] \in Int
      <3>1. value[c] \in Values
        OBVIOUS
      <3>2. value[c] \in Nat
        BY <2>2, <3>1
      <3> QED
        BY <3>2
    <2> QED
      BY <2>1, <2>3
  <1> QED
    BY <1>1, TotalOfIsTotal, TotalType

(***************************************************************************)
(* The rate.  Half of the blocks that were asked have a median, so there   *)
(* is a greatest one, and every usable block is at most that.              *)
(***************************************************************************)
LEMMA DerivedType ==
  ASSUME NEW t \in 1..MaxTip
  PROVE  DeriveFeeRateFromBlocks(t) \in Nat
  <1> DEFINE asked  == {h \in 1..t : h > t - Window}
             usable == {h \in asked : Median[h] > 0}
             rank   == (9 * Cardinality(usable) + 9) \div 10
             AtMost(r) == {h \in usable : Median[h] <= r}
             Chosen == {Median[h] : h \in {g \in usable : Cardinality(AtMost(Median[g])) >= rank}}
  <1>1. /\ Window \in Nat \ {0} /\ t \in Nat /\ t >= 1 /\ MaxTip \in Nat
        /\ \A h \in 1..t : Median[h] \in Nat
    BY CoinsAssumption
  <1>2. IsFiniteSet(asked) /\ t \in asked
    <2>1. IsFiniteSet(1..t)
      BY <1>1, FS_Interval
    <2>2. t \in asked /\ asked \subseteq 1..t
      BY <1>1
    <2> QED
      BY <2>1, <2>2, FS_Subset
  <1>3. IsFiniteSet(usable) /\ \A h \in usable : Median[h] \in Nat
    BY <1>1, <1>2, FS_Subset
  <1>4. Cardinality(usable) \in Nat /\ Cardinality(asked) \in Nat /\ Cardinality(asked) # 0
    BY <1>2, <1>3, FS_CardinalityType, FS_EmptySet
  <1>5. ASSUME 2 * Cardinality(usable) >= Cardinality(asked)
        PROVE  Chosen \subseteq Nat /\ Chosen # {}
    <2>1. usable # {} /\ Cardinality(usable) >= 1
      <3> HIDE DEF usable, asked
      <3>1. Cardinality(usable) >= 1
        BY <1>4, <1>5
      <3> QED
        BY <3>1, FS_EmptySet
    <2> DEFINE R == {p \in usable \X usable : Median[p[1]] <= Median[p[2]]}
    <2>2. PICK m \in usable : \A h \in usable : Median[h] <= Median[m]
      <3>1. \A x, y \in usable : <<x, y>> \in R <=> Median[x] <= Median[y]
        OBVIOUS
      <3> HIDE DEF R, usable
      <3>2. ASSUME NEW x \in usable, NEW y \in usable PROVE <<x, y>> \in R \/ <<y, x>> \in R
        <4>1. Median[x] <= Median[y] \/ Median[y] <= Median[x]
          BY <1>3
        <4> QED
          BY <3>1, <4>1
      <3>3. \A x, y, z \in usable : <<x, y>> \in R /\ <<y, z>> \in R => <<x, z>> \in R
        BY <1>3, <3>1
      <3>4. \E m \in usable : \A x \in usable : <<x, m>> \in R
        BY <1>3, <2>1, <3>2, <3>3, LastOfFinite
      <3> QED
        BY <3>1, <3>4
    <2>3. AtMost(Median[m]) = usable
      BY <2>2
    <2>4. Cardinality(usable) >= rank
      <3> DEFINE u == Cardinality(usable)
      <3>1. u \in Nat /\ u >= 1
        BY <1>4, <2>1
      <3> HIDE DEF u
      <3>2. (9 * u + 9) \div 10 <= u
        BY <3>1
      <3> QED
        BY <3>2 DEF u
    <2>5. Median[m] \in Chosen
      BY <2>3, <2>4
    <2> QED
      BY <1>3, <2>5
  <1>6. DeriveFeeRateFromBlocks(t) =
          IF 2 * Cardinality(usable) < Cardinality(asked) THEN NoEstimate ELSE Min(Chosen)
    BY DEF DeriveFeeRateFromBlocks
  <1> HIDE DEF asked, usable, Chosen
  <1>7. CASE 2 * Cardinality(usable) < Cardinality(asked)
    BY <1>6, <1>7 DEF NoEstimate
  <1>8. CASE ~(2 * Cardinality(usable) < Cardinality(asked))
    <2>1. Chosen \subseteq Nat /\ Chosen # {}
      BY <1>4, <1>5, <1>8
    <2>2. Min(Chosen) \in Chosen
      BY <2>1, MinOfNats
    <2> QED
      BY <1>6, <1>8, <2>1, <2>2
  <1> QED
    BY <1>7, <1>8

\* Every rate a call works with relays, and is below the clamp.
LEMMA FeeRateBounds ==
  ASSUME tip \in 1..MaxTip, NEW q \in Quotes \cup {NoEstimate}, NEW s \in Shapes
  PROVE  FeeRate(q, s) \in Nat /\ Floor <= FeeRate(q, s) /\ FeeRate(q, s) <= Ceiling[s]
  <1> DEFINE d == DeriveFeeRateFromBlocks(tip)
             r == IF q # NoEstimate THEN q ELSE IF d # NoEstimate THEN d ELSE Floor
  <1>1. Floor \in Nat /\ Ceiling[s] \in Nat /\ Floor <= Ceiling[s] /\ q \in Nat
    BY CoinsAssumption DEF NoEstimate
  <1>2. d \in Nat
    BY DerivedType
  <1>3. FeeRate(q, s) = Clamp(r, s)
    BY DEF FeeRate
  <1> HIDE DEF d
  <1>4. r \in Nat
    BY <1>1, <1>2
  <1> HIDE DEF r
  <1> QED
    BY <1>1, <1>3, <1>4 DEF Clamp

(***************************************************************************)
(* The selection.                                                          *)
(***************************************************************************)
\* No more than n coins are among the n largest: the last of them has the
\* others before it.
LEMMA LargestFew ==
  ASSUME value \in [Outpoints -> Values], NEW S \in SUBSET Outpoints, NEW n \in Nat
  PROVE  /\ Largest(S, n) \subseteq S /\ IsFiniteSet(Largest(S, n))
         /\ Cardinality(Largest(S, n)) \in Nat /\ Cardinality(Largest(S, n)) <= n
  <1> DEFINE L == Largest(S, n)
             R == {p \in L \X L : Before(p[1], p[2])}
  <1>1. IsFiniteSet(S) /\ \A c \in S : value[c] \in Nat /\ c \in Nat
    <2>1. IsFiniteSet(Outpoints) /\ Values \subseteq Nat /\ Outpoints \subseteq Nat
      BY CoinsAssumption
    <2> QED
      BY <2>1, FS_Subset
  <1>2. L \subseteq S /\ IsFiniteSet(L) /\ Cardinality(L) \in Nat
    <2>1. L \subseteq S
      BY DEF Largest
    <2> QED
      BY <1>1, <2>1, FS_Subset, FS_CardinalityType
  <1>3. CASE L = {}
    BY <1>2, <1>3, FS_EmptySet
  <1>4. CASE L # {}
    <2>1. \A x, y \in L : <<x, y>> \in R <=> Before(x, y)
      OBVIOUS
    <2> HIDE DEF R, L
    <2>2. \A x \in L : value[x] \in Nat /\ x \in Nat
      BY <1>1, <1>2
    <2>3. ASSUME NEW x \in L, NEW y \in L PROVE <<x, y>> \in R \/ <<y, x>> \in R
      <3>1. Before(x, y) \/ Before(y, x)
        BY <2>2 DEF Before
      <3> QED
        BY <2>1, <3>1
    <2>4. \A x, y, z \in L : <<x, y>> \in R /\ <<y, z>> \in R => <<x, z>> \in R
      BY <2>1, <2>2 DEF Before
    <2>5. PICK m \in L : \A x \in L : <<x, m>> \in R
      BY <1>2, <1>4, <2>3, <2>4, LastOfFinite
    <2> DEFINE B == {d \in S : Before(d, m)}
    <2>6. L \subseteq B
      BY <1>2, <2>1, <2>5
    <2>7. Cardinality(B) <= n
      BY <2>5 DEF L, Largest
    <2>8. IsFiniteSet(B)
      BY <1>1, FS_Subset
    <2> HIDE DEF B
    <2>9. Cardinality(L) <= Cardinality(B) /\ Cardinality(B) \in Nat
      BY <2>6, <2>8, FS_Subset, FS_CardinalityType
    <2>10. Cardinality(L) <= n
      BY <1>2, <2>7, <2>9
    <2> QED
      BY <1>2, <2>10 DEF L
  <1> QED
    BY <1>3, <1>4

LEMMA VsizeType ==
  ASSUME NEW m \in Nat, NEW n \in Nat, m <= n, NEW i \in Nat, NEW o \in Nat, i <= o
  PROVE  VsizeOf(m, i) \in Nat /\ VsizeOf(n, o) \in Nat /\ VsizeOf(m, i) >= 1 /\ VsizeOf(m, i) <= VsizeOf(n, o)
  <1>1. Overhead \in Nat /\ Overhead >= 1 /\ InSize \in Nat /\ OutSize \in Nat
    BY CoinsAssumption
  <1>2. m * InSize <= n * InSize /\ i * OutSize <= o * OutSize
    BY <1>1, Products
  <1>3. m * InSize \in Nat /\ n * InSize \in Nat /\ i * OutSize \in Nat /\ o * OutSize \in Nat
    BY <1>1
  <1> DEFINE a == m * InSize
             b == n * InSize
             c == i * OutSize
             d == o * OutSize
  <1> HIDE DEF a, b, c, d
  <1>4. Overhead + a + c \in Nat /\ Overhead + b + d \in Nat /\ Overhead + a + c >= 1
        /\ Overhead + a + c <= Overhead + b + d
    BY <1>1, <1>2, <1>3 DEF a, b, c, d
  <1> QED
    BY <1>4 DEF VsizeOf, a, b, c, d

LEMMA OneOrTwo ==
  ASSUME NEW n \in Nat
  PROVE  VsizeOf(n, 1) \in Nat /\ VsizeOf(n, 2) \in Nat /\ VsizeOf(n, 1) <= VsizeOf(n, 2)
  <1>1. n <= n /\ 1 \in Nat /\ 2 \in Nat /\ 1 <= 2
    OBVIOUS
  <1> QED
    BY <1>1, VsizeType

LEMMA FewerAreSmaller ==
  ASSUME NEW m \in Nat, NEW n \in Nat, m <= n, NEW r \in Nat, NEW f \in Nat, f <= r,
         NEW o \in {1, 2}
  PROVE  f * VsizeOf(m, o) <= r * VsizeOf(n, o) /\ f * VsizeOf(m, o) \in Nat
  <1>1. VsizeOf(m, o) \in Nat /\ VsizeOf(n, o) \in Nat /\ VsizeOf(m, o) <= VsizeOf(n, o)
    <2>1. o \in Nat /\ o <= o
      OBVIOUS
    <2> QED
      BY <2>1, VsizeType
  <1> QED
    BY <1>1, Products

\* What a selection for enough coins returns.
LEMMA Selected ==
  ASSUME value \in [Outpoints -> Values], NEW S \in SUBSET Outpoints, NEW target \in Nat,
         NEW r \in Nat, Floor <= r, Enough(S, target, r) # {}
  PROVE  LET s == SelectCoins(S, target, r) IN
         /\ s \in [inputs : SUBSET S, value : Nat, change : Nat, fee : Nat]
         /\ s.value = target
         /\ TotalOf(s.inputs) = s.value + s.change + s.fee
         /\ s.change = 0 \/ s.change >= Dust
         /\ s.fee >= Floor * VsizeOf(Cardinality(s.inputs), Outputs(s))
  <1> DEFINE E == Enough(S, target, r)
             n == Min(E)
             L == Largest(S, n)
             total == TotalOf(L)
             with == r * VsizeOf(n, 2)
             without == r * VsizeOf(n, 1)
             rest == total - (target + with)
             change == IF rest >= Dust THEN rest ELSE 0
             s == [inputs |-> L, value |-> target, change |-> change, fee |-> total - target - change]
  <1>1. n \in E /\ n \in Nat
    <2>1. E \subseteq Nat /\ E # {}
      BY DEF Enough
    <2> HIDE DEF E
    <2> QED
      BY <2>1, MinOfNats
  <1>2. Pays(S, n, target, r)
    BY <1>1 DEF Enough
  <1>3. SelectCoins(S, target, r) = s
    BY DEF SelectCoins, WithChange
  <1>4. L \subseteq S /\ Cardinality(L) \in Nat /\ Cardinality(L) <= n
    BY <1>1, LargestFew
  <1>5. total \in Int
    BY <1>4, TotalOfType
  <1> HIDE DEF E, n
  <1>6. with \in Nat /\ without \in Nat /\ Dust \in Nat /\ Floor \in Nat
    <2>1. VsizeOf(n, 2) \in Nat /\ VsizeOf(n, 1) \in Nat
      BY <1>1, OneOrTwo
    <2> QED
      BY <2>1, CoinsAssumption
  <1>7. \/ total >= target + with
        \/ total >= target + without /\ total - (target + without) < Dust
    BY <1>2 DEF Pays, WithChange, WithoutChange
  <1>8. /\ Floor * VsizeOf(Cardinality(L), 1) <= without /\ Floor * VsizeOf(Cardinality(L), 1) \in Nat
        /\ Floor * VsizeOf(Cardinality(L), 2) <= with /\ Floor * VsizeOf(Cardinality(L), 2) \in Nat
    <2> HIDE DEF L
    <2> QED
      BY <1>1, <1>4, <1>6, FewerAreSmaller
  <1>9. without <= with
    <2>1. VsizeOf(n, 1) \in Nat /\ VsizeOf(n, 2) \in Nat /\ VsizeOf(n, 1) <= VsizeOf(n, 2)
      BY <1>1, OneOrTwo
    <2> QED
      BY <2>1, Products
  <1> DEFINE f1 == Floor * VsizeOf(Cardinality(L), 1)
             f2 == Floor * VsizeOf(Cardinality(L), 2)
  <1>10. f1 \in Nat /\ f2 \in Nat /\ f1 <= without /\ f2 <= with
    BY <1>8
  <1>11. /\ s.inputs = L /\ s.value = target /\ s.change = change /\ s.fee = total - target - change
         /\ Outputs(s) = IF change > 0 THEN 2 ELSE 1
    BY DEF Outputs
  <1> HIDE DEF total, with, without, f1, f2, L
  <1>12. /\ change \in Nat /\ (change = 0 \/ change >= Dust)
         /\ total - target - change \in Nat
         /\ total = target + change + (total - target - change)
         /\ change > 0 => total - target - change >= f2
         /\ change = 0 => total - target - change >= f1
    BY <1>5, <1>6, <1>7, <1>9, <1>10
  <1>13. s \in [inputs : SUBSET S, value : Nat, change : Nat, fee : Nat]
    BY <1>4, <1>12
  <1>14. s.fee >= Floor * VsizeOf(Cardinality(s.inputs), Outputs(s))
    <2>1. CASE change > 0
      BY <1>11, <1>12, <2>1 DEF f2
    <2>2. CASE change = 0
      BY <1>11, <1>12, <2>2 DEF f1
    <2> QED
      BY <1>12, <2>1, <2>2
  <1>15. TotalOf(s.inputs) = s.value + s.change + s.fee
    BY <1>11, <1>12 DEF total
  <1> QED
    BY <1>3, <1>11, <1>12, <1>13, <1>14, <1>15

(***************************************************************************)
(* Types.                                                                  *)
(***************************************************************************)
NetworkType ==
  /\ tip \in 1..MaxTip /\ reorgs \in 0..MaxReorgs /\ mined \in Heights
  /\ born \in [Outpoints -> Heights] /\ rival \in [Outpoints -> Heights]

RecordType ==
  /\ state \in States /\ locked \in 0..MaxFee /\ amount \in Nat
  /\ tx \in [inputs : SUBSET Outpoints, value : Nat, change : Nat, fee : Nat]

CallType ==
  /\ pc \in {"idle", "list", "confirm", "listed", "inputs"} /\ rate \in Nat
  /\ todo \subseteq Outpoints /\ found \subseteq Outpoints /\ late \in BOOLEAN

\* A call that has a rate has one that relays.
Priced == pc \in {"list", "confirm", "listed"} => Floor <= rate

\* A proof of death is about a row given up as stuck, and about its own inputs.
Proving == pc = "inputs" => state = "stuck" /\ todo \subseteq tx.inputs

CoinsType == value \in [Outpoints -> Values] /\ wallet \in BOOLEAN /\ shape \in Shapes

Typed == CoinsType /\ NetworkType /\ RecordType /\ CallType /\ Priced /\ Proving

LEMMA NetworkStep == NetworkType /\ [Next]_bitcoin => NetworkType'
  <1> SUFFICES ASSUME NetworkType, [Next]_bitcoin PROVE NetworkType'
    OBVIOUS
  <1>0. MaxTip \in Nat /\ MaxReorgs \in Nat /\ Unspent \in Heights /\ 0 \in Heights
    BY CoinsAssumption DEF Unspent, Heights
  <1>1. CASE NewBlock
    <2>1. tip' = tip + 1 /\ tip' \in 1..MaxTip /\ tip' \in Heights /\ reorgs' = reorgs
      BY <1>0, <1>1 DEF NewBlock, NetworkType, Heights
    <2>2. born' \in [Outpoints -> Heights]
      BY <1>1, <2>1 DEF NewBlock, NetworkType
    <2>3. rival' \in [Outpoints -> Heights]
      BY <1>1, <2>1 DEF NewBlock, NetworkType
    <2>4. mined' \in Heights
      BY <1>0, <1>1, <2>1 DEF NewBlock, NetworkType
    <2> QED
      BY <2>1, <2>2, <2>3, <2>4 DEF NetworkType
  <1>2. ASSUME NEW c \in Outpoints, Replace(c) PROVE NetworkType'
    BY <1>0, <1>2 DEF Replace, NetworkType
  <1>3. CASE Forget
    BY <1>0, <1>3 DEF Forget, NetworkType
  <1>4. CASE Reorg
    <2>1. tip' \in 1..MaxTip /\ reorgs' \in 0..MaxReorgs
      BY <1>0, <1>4 DEF Reorg, NetworkType
    <2> QED
      BY <1>0, <1>4, <2>1 DEF Reorg, NetworkType
  <1>5. CASE Broadcast
    BY <1>0, <1>5 DEF Broadcast, NetworkType
  <1>6. CASE Quote \/ List \/ Build \/ Advance \/ GoStuck \/ ProveStatus \/ ProveInput \/ UNCHANGED bitcoin
    <2>1. UNCHANGED network
      BY <1>6 DEF Quote, EstimateFee, SweepQuote, List, StartCall, WalletUnspent, Candidates, ConfirmCandidate,
                  Build, BuildPayment, BuildSweep, Advance, GoStuck, ProveStatus, ProveInput, bitcoin
    <2> QED
      BY <2>1 DEF network, NetworkType
  <1> QED
    BY <1>1, <1>2, <1>3, <1>4, <1>5, <1>6 DEF Next, Settle, Blocks

LEMMA CallStep == Typed /\ [Next]_bitcoin => CallType' /\ Priced' /\ CoinsType'
  <1> SUFFICES ASSUME Typed, [Next]_bitcoin PROVE CallType' /\ Priced' /\ CoinsType'
    OBVIOUS
  <1>0. CoinsType'
    BY DEF Typed, CoinsType, Next, Quote, EstimateFee, SweepQuote, List, StartCall, WalletUnspent, Candidates,
           ConfirmCandidate, Build, BuildPayment, BuildSweep, Settle, Broadcast, Advance, GoStuck, ProveStatus,
           ProveInput, Blocks, NewBlock, Replace, Forget, Reorg, bitcoin, coins
  <1>1. CASE StartCall
    <2>1. PICK q \in Quotes \cup {NoEstimate} : Call("list", FeeRate(q, shape), {}, {})
      BY <1>1 DEF StartCall
    <2>2. FeeRate(q, shape) \in Nat /\ Floor <= FeeRate(q, shape)
      BY FeeRateBounds DEF Typed, NetworkType, CoinsType
    <2> QED
      BY <1>0, <2>1, <2>2 DEF Call, CallType, Priced, Typed
  <1>2. CASE Quote \/ Build
    <2>1. Return
      BY <1>2 DEF Quote, EstimateFee, SweepQuote, Build, BuildPayment, BuildSweep
    <2> QED
      BY <1>0, <2>1 DEF Return, Call, CallType, Priced, Typed
  <1>3. CASE WalletUnspent \/ Candidates \/ ConfirmCandidate
    <2>1. /\ pc' \in {"confirm", "listed"} /\ rate' = rate /\ late' = late
          /\ todo' \subseteq Outpoints /\ found' \subseteq Outpoints
          /\ pc \in {"list", "confirm"}
      BY <1>3 DEF WalletUnspent, Candidates, ConfirmCandidate, Listing, Call, Typed, CallType
    <2> QED
      BY <1>0, <2>1 DEF CallType, Priced, Typed
  <1>4. CASE ProveStatus \/ ProveInput
    <2>1. /\ pc' \in {"idle", "inputs"} /\ rate' = rate /\ late' \in BOOLEAN /\ found' = found
          /\ todo' \subseteq Outpoints
      BY <1>4 DEF ProveStatus, ProveInput, Typed, CallType, RecordType
    <2> QED
      BY <1>0, <2>1 DEF CallType, Priced, Typed
  <1>5. CASE NewBlock
    <2>1. UNCHANGED <<pc, rate, todo, found>> /\ late' \in BOOLEAN
      BY <1>5 DEF NewBlock, Typed, CallType
    <2> QED
      BY <1>0, <2>1 DEF CallType, Priced, Typed
  <1>6. CASE \/ Broadcast \/ Advance \/ GoStuck \/ Forget \/ Reorg \/ UNCHANGED bitcoin
             \/ \E c \in Outpoints : Replace(c)
    <2>1. UNCHANGED call
      BY <1>6 DEF Broadcast, Advance, GoStuck, Forget, Reorg, Replace, bitcoin
    <2> QED
      BY <1>0, <2>1 DEF CallType, Priced, Typed, call
  <1> QED
    BY <1>1, <1>2, <1>3, <1>4, <1>5, <1>6 DEF Next, List, Settle, Blocks

\* What a sweep of the coins found comes to.
LEMMA SweepFacts ==
  ASSUME Typed, pc = "listed"
  PROVE  LET p == SweepPlan(found, rate) IN
         /\ p.inputs = found /\ p.change = 0 /\ p.fee \in Nat
         /\ TotalOf(p.inputs) = p.value + p.change + p.fee
         /\ p.fee >= Floor * VsizeOf(Cardinality(p.inputs), Outputs(p))
         /\ Sweepable(found, rate) => p.value \in Nat /\ p.value > Dust
  <1> DEFINE k == Cardinality(found)
             fee == rate * VsizeOf(k, 1)
             low == Floor * VsizeOf(k, 1)
             total == TotalOf(found)
             p == SweepPlan(found, rate)
  <1>1. k \in Nat /\ total \in Int
    <2>1. IsFiniteSet(found) /\ value \in [Outpoints -> Values] /\ found \in SUBSET Outpoints
      BY CoinsAssumption, FS_Subset DEF Typed, CallType, CoinsType
    <2> QED
      BY <2>1, FS_CardinalityType, TotalOfType
  <1>2. fee \in Nat /\ low \in Nat /\ low <= fee
    <2>1. rate \in Nat /\ Floor \in Nat /\ Floor <= rate /\ k <= k
      BY <1>1, CoinsAssumption DEF Typed, CallType, Priced
    <2>2. VsizeOf(k, 1) \in Nat
      BY <1>1, OneOrTwo
    <2> HIDE DEF k
    <2>3. Floor * VsizeOf(k, 1) <= rate * VsizeOf(k, 1) /\ Floor * VsizeOf(k, 1) \in Nat
      BY <1>1, <2>1, FewerAreSmaller
    <2> QED
      BY <2>1, <2>2, <2>3
  <1>3. p.inputs = found /\ p.change = 0 /\ p.fee = fee /\ p.value = total - fee /\ Outputs(p) = 1
    BY DEF SweepPlan, Outputs
  <1>4. Dust \in Nat
    BY CoinsAssumption
  <1>5. Sweepable(found, rate) => p.value > Dust
    BY DEF Sweepable
  <1>6. TotalOf(p.inputs) = total /\ Cardinality(p.inputs) = k
    BY <1>3
  <1> HIDE DEF fee, low, total, p
  <1>7. p.value + p.change + p.fee = total /\ (p.value > Dust => p.value \in Nat)
    BY <1>1, <1>2, <1>3, <1>4
  <1>8. p.fee >= Floor * VsizeOf(Cardinality(p.inputs), Outputs(p))
    BY <1>2, <1>3, <1>6 DEF low
  <1> QED
    BY <1>2, <1>3, <1>5, <1>6, <1>7, <1>8 DEF p

(***************************************************************************)
(* What is committed: the fee and the outputs were decided by one listing  *)
(* at one rate, and nothing touches them later.                            *)
(***************************************************************************)
Committed == state \in {"signed", "broadcast", "stuck", "confirmed", "dead"}

Pay(t) ==
  /\ t.value = amount /\ amount > Dust
  /\ TotalOf(t.inputs) = t.value + t.change + t.fee
  /\ t.fee <= locked /\ (shape = "sweep" => t.fee = locked)
  /\ t.change = 0 \/ t.change >= Dust
  /\ t.fee >= Floor * VsizeOf(Cardinality(t.inputs), Outputs(t))
  /\ UnderCustodysCeiling(t)

LEMMA PaymentStep ==
  ASSUME Typed, BuildPayment, Committed'
  PROVE  /\ tx' \in [inputs : SUBSET found, value : Nat, change : Nat, fee : Nat]
         /\ state' = "signed" /\ UNCHANGED <<locked, amount, coins>> /\ Pay(tx')
  <1> DEFINE s == SelectCoins(found, amount, rate)
  <1>0. shape = "payment" /\ pc = "listed" /\ state = "planned" /\ UNCHANGED coins
    BY DEF BuildPayment
  <1>1. /\ ~(amount <= Dust) /\ Enough(found, amount, rate) # {}
        /\ ~(s.fee > locked \/ ~UnderCustodysCeiling(s)) /\ Signed(s)
    BY <1>0 DEF BuildPayment, Refused, Deferred, Committed, record
  <1>2. /\ value \in [Outpoints -> Values] /\ found \in SUBSET Outpoints /\ amount \in Nat
        /\ rate \in Nat /\ Floor <= rate /\ locked \in Nat /\ Dust \in Nat
    BY <1>0, CoinsAssumption DEF Typed, CoinsType, CallType, RecordType, Priced
  <1>3. /\ s \in [inputs : SUBSET found, value : Nat, change : Nat, fee : Nat]
        /\ s.value = amount /\ TotalOf(s.inputs) = s.value + s.change + s.fee
        /\ s.change = 0 \/ s.change >= Dust
        /\ s.fee >= Floor * VsizeOf(Cardinality(s.inputs), Outputs(s))
    BY <1>1, <1>2, Selected
  <1> HIDE DEF s
  <1>4. s.fee \in Nat
    BY <1>3
  <1>5. amount > Dust /\ s.fee <= locked /\ UnderCustodysCeiling(s)
    BY <1>1, <1>2, <1>4
  <1>6. Pay(s)
    BY <1>0, <1>3, <1>5 DEF Pay
  <1>7. tx' = s /\ state' = "signed" /\ UNCHANGED <<locked, amount>>
    BY <1>1 DEF Signed
  <1> QED
    BY <1>0, <1>3, <1>6, <1>7

LEMMA SweepStep ==
  ASSUME Typed, BuildSweep, Committed'
  PROVE  /\ tx' \in [inputs : SUBSET found, value : Nat, change : Nat, fee : Nat]
         /\ state' = "signed" /\ UNCHANGED <<locked, amount, coins>> /\ Pay(tx')
  <1> DEFINE p == SweepPlan(found, rate)
  <1>0. pc = "listed" /\ state = "planned" /\ UNCHANGED coins
    BY DEF BuildSweep
  <1>1. /\ Sweepable(found, rate) /\ p.value = amount /\ p.fee = locked
        /\ UnderCustodysCeiling(p) /\ Signed(p)
    BY <1>0 DEF BuildSweep, Refused, Deferred, Committed, record
  <1>2. /\ p.inputs = found /\ p.change = 0 /\ p.fee \in Nat /\ p.value \in Nat /\ p.value > Dust
        /\ TotalOf(p.inputs) = p.value + p.change + p.fee
        /\ p.fee >= Floor * VsizeOf(Cardinality(p.inputs), Outputs(p))
    BY <1>0, <1>1, SweepFacts
  <1>3. p = [inputs |-> p.inputs, value |-> p.value, change |-> p.change, fee |-> p.fee]
    BY DEF SweepPlan
  <1> HIDE DEF p
  <1>4. p \in [inputs : SUBSET found, value : Nat, change : Nat, fee : Nat]
    BY <1>2, <1>3
  <1>5. p.fee <= locked
    BY <1>1, <1>2
  <1>6. Pay(p)
    BY <1>1, <1>2, <1>5 DEF Pay
  <1>7. tx' = p /\ state' = "signed" /\ UNCHANGED <<locked, amount>>
    BY <1>1 DEF Signed
  <1> QED
    BY <1>0, <1>4, <1>6, <1>7

\* Every other step leaves committed bytes, and what they pay, as they were.
LEMMA CommittedStays ==
  ASSUME Typed, [Next]_bitcoin, ~(BuildPayment \/ BuildSweep), Committed'
  PROVE  Committed /\ UNCHANGED <<tx, locked, amount, coins>>
  <1>1. UNCHANGED coins
    BY DEF Next, Quote, EstimateFee, SweepQuote, List, StartCall, WalletUnspent, Candidates,
           ConfirmCandidate, Build, Settle, Broadcast, Advance, GoStuck, ProveStatus, ProveInput, Blocks,
           NewBlock, Replace, Forget, Reorg, bitcoin
  <1>2. CASE Quote
    BY <1>2 DEF Quote, EstimateFee, SweepQuote, Committed
  <1>3. CASE List \/ Blocks \/ UNCHANGED bitcoin
    BY <1>1, <1>3 DEF List, StartCall, WalletUnspent, Candidates, ConfirmCandidate, Blocks, NewBlock,
                      Replace, Forget, Reorg, bitcoin, record, Committed
  <1>4. CASE Settle
    BY <1>1, <1>4 DEF Settle, Broadcast, Advance, GoStuck, ProveStatus, ProveInput, Committed, record, Typed, Proving
  <1> QED
    BY <1>2, <1>3, <1>4 DEF Next, Build

LEMMA RecordStep == Typed /\ [Next]_bitcoin => RecordType'
  <1> SUFFICES ASSUME Typed, [Next]_bitcoin PROVE RecordType'
    OBVIOUS
  <1>1. CASE Build
    <2>1. CASE Committed'
      <3>1. /\ tx' \in [inputs : SUBSET found, value : Nat, change : Nat, fee : Nat]
            /\ state' = "signed" /\ UNCHANGED <<locked, amount>>
        BY <1>1, <2>1, PaymentStep, SweepStep DEF Build
      <3>2. found \subseteq Outpoints
        BY DEF Typed, CallType
      <3>3. tx' \in [inputs : SUBSET Outpoints, value : Nat, change : Nat, fee : Nat]
        BY <3>1, <3>2
      <3> QED
        BY <3>1, <3>3 DEF Typed, RecordType, States
    <2>2. CASE ~Committed'
      <3>1. UNCHANGED <<locked, amount, tx>> /\ state' \in {"refused", "planned"}
        BY <1>1, <2>2 DEF Build, BuildPayment, BuildSweep, Refused, Deferred, Signed, Committed, record
      <3> QED
        BY <3>1 DEF Typed, RecordType, States
    <2> QED
      BY <2>1, <2>2
  <1>2. CASE EstimateFee
    <2> DEFINE fee == rate * VsizeOf(1, 2)
    <2>1. \/ fee <= MaxFee /\ state' = "planned" /\ locked' = fee /\ amount' = Target
          \/ UNCHANGED <<state, locked, amount>>
      BY <1>2 DEF EstimateFee
    <2>2. tx' = tx
      BY <1>2 DEF EstimateFee
    <2>3. VsizeOf(1, 2) \in Nat /\ rate \in Nat
      BY OneOrTwo DEF Typed, CallType
    <2>4. fee \in Nat /\ MaxFee \in Nat /\ Target \in Nat
      BY <2>3, CoinsAssumption
    <2> HIDE DEF fee
    <2> QED
      BY <2>1, <2>2, <2>4 DEF Typed, RecordType, States
  <1>3. CASE SweepQuote
    <2> DEFINE p == SweepPlan(found, rate)
    <2>1. /\ tx' = tx
          /\ \/ /\ Sweepable(found, rate) /\ p.fee <= MaxFee
                /\ state' = "planned" /\ locked' = p.fee /\ amount' = p.value
             \/ UNCHANGED <<state, locked, amount>>
      BY <1>3 DEF SweepQuote
    <2>2. p.fee \in Nat /\ (Sweepable(found, rate) => p.value \in Nat) /\ MaxFee \in Nat
      BY <1>3, SweepFacts, CoinsAssumption DEF SweepQuote
    <2> HIDE DEF p
    <2> QED
      BY <2>1, <2>2 DEF Typed, RecordType, States
  <1>4. CASE List \/ Settle \/ Blocks \/ UNCHANGED bitcoin
    <2>1. UNCHANGED <<locked, amount, tx>> /\ state' \in States
      BY <1>4 DEF List, StartCall, WalletUnspent, Candidates, ConfirmCandidate, Settle, Broadcast, Advance,
                  GoStuck, ProveStatus, ProveInput, Blocks, NewBlock, Replace, Forget, Reorg, bitcoin, record,
                  Typed, RecordType, States
    <2> QED
      BY <2>1 DEF Typed, RecordType
  <1> QED
    BY <1>1, <1>2, <1>3, <1>4 DEF Next, Quote

LEMMA ProvingStep == Typed /\ [Next]_bitcoin => Proving'
  <1> SUFFICES ASSUME Typed, [Next]_bitcoin, pc' = "inputs"
               PROVE  state' = "stuck" /\ todo' \subseteq tx'.inputs
    BY DEF Proving
  <1>1. CASE ProveStatus
    BY <1>1 DEF ProveStatus, record
  <1>2. CASE ProveInput
    BY <1>2 DEF ProveInput, Typed, Proving
  <1>3. CASE Blocks \/ UNCHANGED bitcoin
    <2>1. UNCHANGED <<pc, state, todo, tx>>
      BY <1>3 DEF Blocks, NewBlock, Replace, Forget, Reorg, bitcoin, record, call
    <2> QED
      BY <2>1 DEF Typed, Proving
  <1>4. ASSUME Quote \/ List \/ Build \/ Broadcast \/ Advance \/ GoStuck PROVE FALSE
    BY <1>4 DEF Quote, EstimateFee, SweepQuote, List, StartCall, WalletUnspent, Candidates, ConfirmCandidate,
                Build, BuildPayment, BuildSweep, Broadcast, Advance, GoStuck, Return, Call, call
  <1> QED
    BY <1>1, <1>2, <1>3, <1>4 DEF Next, Settle

LEMMA TypedStep == Typed /\ [Next]_bitcoin => Typed'
  BY NetworkStep, CallStep, RecordStep, ProvingStep DEF Typed

LEMMA TypedInit == Init => Typed
  <1> SUFFICES ASSUME Init PROVE Typed
    OBVIOUS
  <1>1. /\ MaxTip \in Nat /\ MaxReorgs \in Nat /\ MaxFee \in Nat /\ Depth \in Nat \ {0} /\ Depth <= MaxTip
    BY CoinsAssumption
  <1>2. Unspent \in Heights /\ 0 \in Heights /\ 1 \in Heights
    BY <1>1 DEF Heights, Unspent
  <1>3. NetworkType
    BY <1>1, <1>2 DEF Init, NetworkType
  <1>4. RecordType
    BY <1>1 DEF Init, RecordType, States, NoTx
  <1>5. CallType /\ CoinsType /\ Priced /\ Proving
    BY DEF Init, CallType, CoinsType, Priced, Proving
  <1> QED
    BY <1>3, <1>4, <1>5 DEF Typed

LEMMA TypedHolds == Spec => []Typed
  BY TypedInit, TypedStep, PTL DEF Spec

\* Every variable of the adapter keeps its type: no amount, change or fee that
\* is signed is below zero, and no fee is locked above the caller's bound.
THEOREM CoinsTypeCorrect == Spec => []TypeOK
  <1>1. Typed => TypeOK
    BY DEF Typed, CoinsType, NetworkType, RecordType, CallType, TypeOK
  <1> QED
    BY <1>1, TypedHolds, PTL

(***************************************************************************)
(* What committed bytes pay.                                               *)
(***************************************************************************)
Paid == Committed => Pay(tx)

LEMMA PaidStep == Typed /\ Paid /\ [Next]_bitcoin => Paid'
  <1> SUFFICES ASSUME Typed, Paid, [Next]_bitcoin, Committed' PROVE Pay(tx)'
    BY DEF Paid
  <1>1. CASE BuildPayment \/ BuildSweep
    <2>1. UNCHANGED <<locked, amount, coins>> /\ Pay(tx')
      BY <1>1, PaymentStep, SweepStep
    <2> QED
      BY <2>1 DEF Pay, coins, TotalOf, UnderCustodysCeiling, MapThenSumSet, MapThenFoldSet
  <1>2. CASE ~(BuildPayment \/ BuildSweep)
    <2>1. Committed /\ UNCHANGED <<tx, locked, amount, coins>>
      BY <1>2, CommittedStays
    <2>2. Pay(tx)
      BY <2>1 DEF Paid
    <2> QED
      BY <2>1, <2>2 DEF Pay, coins, TotalOf, UnderCustodysCeiling, MapThenSumSet, MapThenFoldSet
  <1> QED
    BY <1>1, <1>2

\* Committed bytes move the planned amount, whatever blocks came between the
\* quote, the listing and the build: what is not paid or returned is a fee no
\* higher than the quote locked, that relays, that custody signs, and no
\* output is dust.
THEOREM PaysWhatWasLockedHolds == Spec => []PaysWhatWasLocked
  <1>1. Init => Paid
    BY DEF Init, Paid, Committed
  <1>2. Paid => PaysWhatWasLocked
    BY DEF Paid, Committed, Pay, PaysWhatWasLocked
  <1> QED
    BY <1>1, <1>2, PaidStep, TypedHolds, PTL DEF Spec

(***************************************************************************)
(* What committed bytes spend.                                             *)
(***************************************************************************)
Final == reorgs = 0 => \A c \in found \cup tx.inputs : Deep(c)

\* Without a reorganisation a coin stays deep.
LEMMA DeepStays ==
  ASSUME Typed, [Next]_bitcoin, reorgs' = 0, NEW c \in Outpoints, Deep(c)
  PROVE  Deep(c)'
  <1>0. born[c] \in Int /\ tip \in Int /\ Depth \in Int /\ reorgs \in Nat
    BY CoinsAssumption DEF Typed, NetworkType, Heights
  <1>1. CASE NewBlock
    <2>1. tip' = tip + 1 /\ born'[c] = born[c]
      BY <1>1, <1>0 DEF NewBlock, Deep
    <2> QED
      BY <1>0, <2>1 DEF Deep, Confirmations
  <1>2. CASE Reorg
    <2>1. reorgs' = reorgs + 1
      BY <1>2 DEF Reorg
    <2> QED
      BY <1>0, <2>1
  <1>3. CASE ~NewBlock /\ ~Reorg
    <2>1. UNCHANGED <<tip, born>>
      BY <1>3 DEF Next, Quote, EstimateFee, SweepQuote, List, StartCall, WalletUnspent, Candidates,
                  ConfirmCandidate, Build, BuildPayment, BuildSweep, Settle, Broadcast, Advance, GoStuck,
                  ProveStatus, ProveInput, Blocks, Replace, Forget, bitcoin, network
    <2> QED
      BY <2>1 DEF Deep, Confirmations
  <1> QED
    BY <1>1, <1>2, <1>3

LEMMA ReorgsGrow == ASSUME Typed, [Next]_bitcoin, reorgs' = 0 PROVE reorgs = 0
  <1>1. reorgs \in Nat
    BY DEF Typed, NetworkType
  <1>2. reorgs' = reorgs \/ reorgs' = reorgs + 1
    BY DEF Next, Quote, EstimateFee, SweepQuote, List, StartCall, WalletUnspent, Candidates,
           ConfirmCandidate, Build, BuildPayment, BuildSweep, Settle, Broadcast, Advance, GoStuck,
           ProveStatus, ProveInput, Blocks, NewBlock, Replace, Forget, Reorg, bitcoin, network
  <1> QED
    BY <1>1, <1>2

\* A coin that is listed or spent is one that was, or a deep one.
LEMMA TakesDeep ==
  ASSUME Typed, [Next]_bitcoin, NEW c \in found' \cup tx'.inputs
  PROVE  c \in Outpoints /\ (c \in found \cup tx.inputs \/ Deep(c))
  <1>0. found' \subseteq Outpoints /\ tx'.inputs \subseteq Outpoints
    BY TypedStep DEF Typed, CallType, RecordType
  <1>1. CASE Build
    <2>1. found' = {}
      BY <1>1 DEF Build, BuildPayment, BuildSweep, Return, Call
    <2>2. Committed' => tx'.inputs \subseteq found
      <3>1. ASSUME Committed' PROVE tx' \in [inputs : SUBSET found, value : Nat, change : Nat, fee : Nat]
        BY <1>1, <3>1, PaymentStep, SweepStep DEF Build
      <3> QED
        BY <3>1
    <2>3. ~Committed' => tx' = tx
      BY <1>1 DEF Build, BuildPayment, BuildSweep, Refused, Deferred, Signed, Committed, record
    <2> QED
      BY <1>0, <2>1, <2>2, <2>3
  <1>2. CASE List \/ Quote
    <2>1. tx' = tx
      BY <1>2 DEF List, StartCall, WalletUnspent, Candidates, ConfirmCandidate, Quote, EstimateFee, SweepQuote, record
    <2>2. \A d \in found' : d \in found \/ Deep(d)
      BY <1>2 DEF List, StartCall, WalletUnspent, Candidates, ConfirmCandidate, Quote, EstimateFee, SweepQuote,
                  Return, Call, Usable
    <2> QED
      BY <1>0, <2>1, <2>2
  <1>3. CASE Settle \/ Blocks \/ UNCHANGED bitcoin
    <2>1. UNCHANGED <<tx, found>>
      BY <1>3 DEF Settle, Broadcast, Advance, GoStuck, ProveStatus, ProveInput, Blocks, NewBlock, Replace,
                  Forget, Reorg, bitcoin, record, call
    <2> QED
      BY <1>0, <2>1
  <1> QED
    BY <1>1, <1>2, <1>3 DEF Next

LEMMA FinalStep == Typed /\ Final /\ [Next]_bitcoin => Final'
  <1> SUFFICES ASSUME Typed, Final, [Next]_bitcoin, reorgs' = 0, NEW c \in found' \cup tx'.inputs
               PROVE  Deep(c)'
    BY DEF Final
  <1>1. reorgs = 0
    BY ReorgsGrow
  <1>2. c \in Outpoints /\ Deep(c)
    BY <1>1, TakesDeep DEF Final
  <1> QED
    BY <1>2, DeepStays

LEMMA FinalHolds == Spec => []Final
  <1>1. Init => Final
    BY DEF Init, Final, NoTx
  <1> QED
    BY <1>1, FinalStep, TypedHolds, PTL DEF Spec

\* Only coins at full depth are spent: short of a reorganisation as deep as
\* that, no input of committed bytes goes back to being unconfirmed.
THEOREM SpendsFinalCoinsHolds == Spec => []SpendsFinalCoins
  <1>1. Final => SpendsFinalCoins
    BY DEF Final, SpendsFinalCoins
  <1> QED
    BY <1>1, FinalHolds, PTL

(***************************************************************************)
(* What is called dead.  A proof asks for the transaction and then for its *)
(* inputs; unless a block mined it in between, a conflict on an input is   *)
(* another spend in a block, and that stays while no block is taken back.  *)
(***************************************************************************)
Conflict == \E c \in tx.inputs : rival[c] > 0

Buried ==
  ~late /\ reorgs = 0 =>
    /\ pc = "inputs" \/ state = "dead" => mined <= 0
    /\ state = "dead" => Conflict

\* An input for which the node has no coin was spent by somebody else.
LEMMA ConflictIsRival ==
  ASSUME Typed, Final, reorgs = 0, mined <= 0, NEW c \in tx.inputs, ConflictSeen(c)
  PROVE  rival[c] > 0
  <1>1. Deep(c)
    BY DEF Final
  <1>2. ~(mined > 0)
    BY DEF Typed, NetworkType, Heights
  <1> QED
    BY <1>1, <1>2 DEF ConflictSeen, GetTxOut, InBlock, SpentByOwn, Deep

\* Another spend of an input stays in its block, and the bytes out of every block.
LEMMA ConflictStays ==
  ASSUME Typed, [Next]_bitcoin, reorgs' = 0, mined <= 0, Conflict, tx' = tx
  PROVE  mined' <= 0 /\ Conflict'
  <1>0. MaxTip \in Nat /\ mined \in Int /\ Unspent = -1 /\ \A c \in tx.inputs : c \in Outpoints /\ rival[c] \in Int
    BY CoinsAssumption DEF Typed, NetworkType, RecordType, Heights, Unspent
  <1>1. PICK c \in tx.inputs : rival[c] > 0
    BY DEF Conflict
  <1>2. ~Minable
    BY <1>0, <1>1 DEF Minable
  <1>3. rival'[c] = rival[c] /\ mined' <= 0
    <2>1. CASE NewBlock
      BY <1>0, <1>1, <1>2, <2>1 DEF NewBlock
    <2>2. ASSUME NEW d \in Outpoints, Replace(d) PROVE rival'[c] = rival[c] /\ mined' <= 0
      BY <1>0, <1>1, <2>2 DEF Replace, Typed, NetworkType
    <2>3. CASE Forget
      BY <1>0, <1>1, <2>3 DEF Forget, Typed, NetworkType
    <2>4. CASE Broadcast
      BY <1>0, <1>1, <2>4 DEF Broadcast
    <2>5. CASE Reorg
      <3>1. reorgs' = reorgs + 1 /\ reorgs \in Nat
        BY <2>5 DEF Reorg, Typed, NetworkType
      <3> QED
        BY <3>1
    <2>6. CASE Quote \/ List \/ Build \/ Advance \/ GoStuck \/ ProveStatus \/ ProveInput \/ UNCHANGED bitcoin
      <3>1. UNCHANGED network
        BY <2>6 DEF Quote, EstimateFee, SweepQuote, List, StartCall, WalletUnspent, Candidates, ConfirmCandidate,
                    Build, BuildPayment, BuildSweep, Advance, GoStuck, ProveStatus, ProveInput, bitcoin
      <3> QED
        BY <3>1 DEF network
    <2> QED
      BY <2>1, <2>2, <2>3, <2>4, <2>5, <2>6 DEF Next, Settle, Blocks
  <1> QED
    BY <1>1, <1>3 DEF Conflict

LEMMA BuriedStep == Typed /\ Final /\ Buried /\ [Next]_bitcoin => Buried'
  <1> SUFFICES ASSUME Typed, Final, Buried, [Next]_bitcoin, ~late', reorgs' = 0
               PROVE  /\ pc' = "inputs" \/ state' = "dead" => mined' <= 0
                      /\ state' = "dead" => Conflict'
    BY DEF Buried
  <1>0. reorgs = 0
    BY ReorgsGrow
  <1>1. CASE ProveInput
    <2>1. UNCHANGED <<network, tx>> /\ pc = "inputs" /\ state = "stuck" /\ todo \subseteq tx.inputs
      BY <1>1 DEF ProveInput, Typed, Proving
    <2>2. CASE \E c \in todo : ConflictSeen(c) /\ late' = late
      <3>1. PICK c \in todo : ConflictSeen(c)
        BY <2>2
      <3>2. mined <= 0
        BY <1>0, <2>1, <2>2 DEF Buried
      <3>3. rival[c] > 0
        BY <1>0, <2>1, <3>1, <3>2, ConflictIsRival
      <3> QED
        BY <2>1, <3>1, <3>2, <3>3 DEF Conflict, network
    <2>3. CASE state' = state /\ (pc' = "inputs" => late' = late)
      BY <1>0, <2>1, <2>3 DEF Buried, network
    <2> QED
      BY <1>1, <2>1, <2>2, <2>3 DEF ProveInput
  <1>2. CASE ProveStatus
    <2>1. UNCHANGED <<network, record>> /\ state = "stuck"
          /\ (late' = FALSE => StatusOf = "unknown")
      BY <1>2 DEF ProveStatus
    <2>2. StatusOf = "unknown" => mined <= 0
      BY DEF StatusOf, Typed, NetworkType, Heights
    <2> QED
      BY <2>1, <2>2 DEF network, record
  <1>3. CASE state = "dead" /\ ~ProveInput /\ ~ProveStatus
    <2>1. state' = state /\ tx' = tx
      <3>1. CASE Quote \/ Build
        BY <1>3, <3>1 DEF Quote, EstimateFee, SweepQuote, Build, BuildPayment, BuildSweep
      <3>2. CASE List \/ Blocks \/ UNCHANGED bitcoin
        BY <3>2 DEF List, StartCall, WalletUnspent, Candidates, ConfirmCandidate, Blocks, NewBlock, Replace,
                    Forget, Reorg, bitcoin, record
      <3>3. CASE Broadcast \/ Advance \/ GoStuck
        BY <1>3, <3>3 DEF Broadcast, Advance, GoStuck
      <3> QED
        BY <1>3, <3>1, <3>2, <3>3 DEF Next, Settle
    <2>2. ~late
      BY <1>3 DEF Next, Quote, EstimateFee, SweepQuote, List, StartCall, WalletUnspent, Candidates,
             ConfirmCandidate, Build, BuildPayment, BuildSweep, Settle, Broadcast, Advance, GoStuck,
             Blocks, NewBlock, Replace, Forget, Reorg, bitcoin, call, Return, Call
    <2>3. mined <= 0 /\ Conflict
      BY <1>0, <1>3, <2>2 DEF Buried
    <2> QED
      BY <2>1, <2>3, ConflictStays
  <1>4. CASE state # "dead" /\ ~ProveInput /\ ~ProveStatus
    <2>1. state' # "dead"
      BY <1>4 DEF Next, Quote, EstimateFee, SweepQuote, List, StartCall, WalletUnspent, Candidates,
             ConfirmCandidate, Build, BuildPayment, BuildSweep, Settle, Broadcast, Advance, GoStuck,
             Blocks, NewBlock, Replace, Forget, Reorg, bitcoin, record, Refused, Deferred, Signed
    <2>2. ASSUME pc' = "inputs" PROVE mined' <= 0
      <3>1. pc = "inputs" /\ (Blocks \/ UNCHANGED bitcoin)
        BY <1>4, <2>2 DEF Next, Quote, EstimateFee, SweepQuote, List, StartCall, WalletUnspent, Candidates,
               ConfirmCandidate, Build, BuildPayment, BuildSweep, Settle, Broadcast, Advance, GoStuck,
               Blocks, NewBlock, Replace, Forget, Reorg, bitcoin, call, Return, Call
      <3>2. ~late
        BY <3>1 DEF Blocks, NewBlock, Replace, Forget, Reorg, bitcoin, call
      <3>3. mined <= 0 /\ mined \in Int /\ Unspent = -1
        BY <1>0, <3>1, <3>2 DEF Buried, Typed, NetworkType, Heights, Unspent
      <3>4. mined' \in {mined, Unspent, 0}
        BY <3>1, <3>3 DEF Blocks, NewBlock, Replace, Forget, Reorg, bitcoin, network
      <3> QED
        BY <3>3, <3>4
    <2> QED
      BY <2>1, <2>2
  <1> QED
    BY <1>1, <1>2, <1>3, <1>4

\* What proveDead calls dead is never mined, unless the bytes were mined behind
\* its first question, or the conflicting block is taken back.
THEOREM DeadIsNeverMinedHolds == Spec => []DeadIsNeverMined
  <1>1. Init => Buried
    BY DEF Init, Buried
  <1>2. Typed /\ Buried => DeadIsNeverMined
    <2> SUFFICES ASSUME Typed, Buried, state = "dead", ~late, reorgs = 0 PROVE mined <= 0 /\ ~Minable
      BY DEF DeadIsNeverMined
    <2>1. PICK c \in tx.inputs : rival[c] > 0
      BY DEF Buried, Conflict
    <2>2. rival[c] \in Int
      BY DEF Typed, NetworkType, RecordType, Heights
    <2> QED
      BY <2>1, <2>2 DEF Buried, Minable
  <1> QED
    BY <1>1, <1>2, BuriedStep, FinalHolds, TypedHolds, PTL DEF Spec
=============================================================================
