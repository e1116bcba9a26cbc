--------------------------- MODULE TreasuryProofs ---------------------------
(***************************************************************************)
(* Theorems about the treasury, for every set of addresses and of          *)
(* processes: the row is never ahead of the indexer, a booking is never    *)
(* lost, and while operators wait for it one opening is posted at most,    *)
(* with any number of passes, planners and operators at once.  With one    *)
(* pass at a time the books hold what the indexer counts, and follow the   *)
(* coin as Float says.                                                     *)
(***************************************************************************)
EXTENDS Treasury, Sums

WatchLabels == {"measure", "watch", "record", "measure late", "book", "settle"}

\* What a process holds when it awaits at a label with the memory m.
Knows(c, where, m) ==
  /\ c \in Callers /\ where = "adopt" => m.pin \in Addresses
  /\ c \in Watchers /\ where \in WatchLabels => m.row.address \in Addresses
  /\ c \in Watchers /\ where \in {"book", "settle"} => m.seen \in Nat
  /\ c \in Sweepers /\ where # "idle" => m.checked \in Addresses
  /\ c \in Payers /\ where = "send" => m.pin \in Addresses
  /\ c \in Provisioners /\ where \in {"pin", "upsert"} => m.pin \in Addresses

LocalInv ==
  /\ pc \in [Processes -> Labels]
  /\ mem \in [Processes -> MemType]
  /\ \A c \in Processes : Knows(c, pc[c], mem[c])

\* A pass that is past requireTreasury has a row to update.
HasRow == \A w \in Watchers : pc[w] \in WatchLabels => Found

TypeInv == TypeOK /\ LocalInv /\ HasRow

RecordInv ==
  /\ WatchedIsRecorded
  /\ \A w \in Watchers : pc[w] = "record" => mem[w].row.address \in custody

\* A pass that found the opening owed.
Owing(w) == pc[w] \in WatchLabels /\ ~mem[w].row.booked

\* The addresses an opening was or may be posted for.
OpenedAt(a) == entry[a] # Nothing \/ \E w \in Watchers : Owing(w) /\ mem[w].row.address = a

\* One operator at a time; and until the row is booked it names the pin, and
\* the pin does not change.
Steady ==
  /\ \A o, q \in Provisioners : pc[o] # "idle" /\ pc[q] # "idle" => o = q
  /\ ~row.booked =>
       /\ Found => pin = row.address
       /\ \A c \in Callers : pc[c] \in {"find", "adopt"} => mem[c].pin \in {NoAddress, pin}
       /\ \A o \in Provisioners : pc[o] \in {"mint", "pin"} => pin = NoAddress
       /\ \A o \in Provisioners : pc[o] = "upsert" => mem[o].pin = pin

OpeningInv ==
  /\ \A w \in Watchers : pc[w] \in WatchLabels /\ mem[w].seen # Nothing => Owing(w)
  /\ \A w \in Watchers : pc[w] \in {"measure", "measure late"} => Owing(w)
  /\ \A a, b \in Addresses : OpenedAt(a) /\ OpenedAt(b) => a = b
  /\ ~row.booked => \A a \in Addresses : OpenedAt(a) => Found /\ a = row.address

(***************************************************************************)
(* Lemmas on the end of a step and on the row.                             *)
(***************************************************************************)
LEMMA AbsentType == Absent \in RowType /\ Blank \in MemType
  BY DEF Absent, Blank, RowType, MemType, Amount, Nothing, Keys

\* A step moves its own process and no other.
LEMMA GoMoves ==
  ASSUME LocalInv, NEW c \in Processes, NEW where, NEW m, Go(c, where, m)
  PROVE  /\ pc'[c] = where
         /\ mem'[c] = IF where = "idle" THEN Blank ELSE m
         /\ \A d \in Processes : d # c => pc'[d] = pc[d] /\ mem'[d] = mem[d]
  BY DEF Go, LocalInv

\* The end of a step keeps the local type when what it leaves in memory fits
\* the label.
LEMMA GoLocal ==
  ASSUME LocalInv, NEW c \in Processes, NEW where \in Labels, NEW m \in MemType,
         where # "idle" => Knows(c, where, m), Go(c, where, m)
  PROVE  LocalInv'
  <1> DEFINE n == IF where = "idle" THEN Blank ELSE m
  <1>1. n \in MemType
    BY AbsentType
  <1>2. pc' \in [Processes -> Labels] /\ mem' \in [Processes -> MemType]
    BY <1>1 DEF Go, LocalInv
  <1>3. Knows(c, where, n)
    BY DEF Knows, WatchLabels
  <1>4. pc'[c] = where /\ mem'[c] = n
    BY DEF Go, LocalInv
  <1>5. \A d \in Processes \ {c} : pc'[d] = pc[d] /\ mem'[d] = mem[d]
    BY DEF Go, LocalInv
  <1>6. ASSUME NEW d \in Processes PROVE Knows(d, pc'[d], mem'[d])
    <2>1. CASE d = c
      BY <1>3, <1>4, <2>1
    <2>2. CASE d # c
      BY <1>5, <2>2 DEF LocalInv
    <2> QED
      BY <2>1, <2>2
  <1> QED
    BY <1>2, <1>6 DEF LocalInv

\* An upsert leaves a row of the address it was given, as booked and as
\* watched as it found it.
LEMMA UpsertRow ==
  ASSUME row \in RowType, NEW a \in Addresses, NEW k \in Keys, UpsertTreasury(a, k)
  PROVE  /\ row' \in RowType
         /\ row'.address = a
         /\ row'.booked = row.booked /\ row'.opening = row.opening
         /\ row'.watched = row.watched
         /\ row.address = a => row' = row
         /\ Found'
  <1>1. a \in Keys /\ a # NoAddress
    BY TreasuryAssumption DEF Keys, Addresses
  <1>2. Absent \in RowType /\ Absent.address = NoAddress
    BY AbsentType DEF Absent
  <1>3. CASE ~Found
    BY <1>1, <1>2, <1>3 DEF UpsertTreasury, Found, RowType
  <1>4. CASE Found /\ row.address # a
    BY <1>1, <1>2, <1>4 DEF UpsertTreasury, Found, RowType
  <1>5. CASE Found /\ row.address = a
    BY <1>1, <1>5 DEF UpsertTreasury, Found
  <1> QED
    BY <1>3, <1>4, <1>5

LEMMA RowOfPass ==
  ASSUME row \in RowType, row.address # NoAddress, NEW a \in Addresses
  PROVE  /\ [row EXCEPT !.watched = a] \in RowType
         /\ [row EXCEPT !.watched = a].address = row.address
         /\ \A n \in Amount : [row EXCEPT !.booked = TRUE, !.opening = n] \in RowType
         /\ \A n \in Amount :
              [row EXCEPT !.booked = TRUE, !.opening = n].address = row.address
  BY DEF RowType, Keys

(***************************************************************************)
(* Types.                                                                  *)
(***************************************************************************)
LEMMA TypeInit == Init => TypeInv
  <1> SUFFICES ASSUME Init PROVE TypeInv
    OBVIOUS
  <1> USE DEF Init
  <1>1. row \in RowType /\ ~Found
    BY AbsentType DEF Found
  <1>2. pin \in Keys /\ minted \subseteq Fresh /\ pinned \subseteq Addresses
    BY DEF Keys, Addresses
  <1>3. entry \in [Addresses -> Amount] /\ books \in Int /\ coin \in [Addresses -> Nat]
        /\ deposits \in Nat
    BY TreasuryAssumption DEF Amount, Nothing
  <1>4. pc \in [Processes -> Labels] /\ mem \in [Processes -> MemType]
    BY AbsentType DEF Labels
  <1>5. \A c \in Processes : Knows(c, pc[c], mem[c])
    BY DEF Knows, WatchLabels
  <1>6. fails \in 0..MaxFails /\ hands \in 0..MaxHands
    BY TreasuryAssumption
  <1>7. HasRow
    BY DEF HasRow, WatchLabels, Processes, Callers
  <1> QED
    BY <1>1, <1>2, <1>3, <1>4, <1>5, <1>6, <1>7 DEF TypeInv, TypeOK, LocalInv

\* Once there is a row there is one, and only a pass that found it is past
\* requireTreasury.
LEMMA HasRowKept ==
  ASSUME HasRow, Found => Found',
         \A w \in Watchers : pc'[w] \in WatchLabels => pc[w] \in WatchLabels \/ Found
  PROVE  HasRow'
  BY DEF HasRow

LEMMA TypeRequire ==
  ASSUME TypeInv, NEW c \in Callers, RequireTreasury(c)
  PROVE  TypeInv'
  <1> USE DEF TypeInv
  <1>0. c \in Processes /\ pc[c] \in Labels /\ mem[c] \in MemType /\ Knows(c, pc[c], mem[c])
        /\ c \notin Provisioners
    BY TreasuryAssumption DEF LocalInv, Processes
  <1>1. CASE ReadPin(c)
    <2> DEFINE m == [mem[c] EXCEPT !.pin = pin]
    <2>1. Go(c, "find", m) /\ UNCHANGED <<row, keys, estate, fails, hands>>
      BY <1>1 DEF ReadPin
    <2>2. m \in MemType /\ m.checked = mem[c].checked
      BY <1>0 DEF TypeOK, MemType
    <2>3. Knows(c, "find", m)
      BY <1>0, <1>1, <2>2 DEF Knows, ReadPin, WatchLabels
    <2>4. LocalInv'
      BY <1>0, <2>1, <2>2, <2>3, GoLocal, "find" \in Labels DEF Labels
    <2>5. HasRow'
      BY <1>0, <2>1, GoMoves, HasRowKept DEF WatchLabels, Found, Processes, Callers
    <2> QED
      BY <2>1, <2>4, <2>5 DEF TypeOK, LocalInv, Found, keys, estate
  <1>2. CASE FindTreasury(c)
    <2>1. UNCHANGED <<row, keys, estate, fails, hands>>
      BY <1>2 DEF FindTreasury
    <2>2. row \in RowType
      BY DEF TypeOK
    <2>3. CASE Found /\ Go(c, Resume(c, row), Keep(c, row))
      <3>1. row.address \in Addresses
        BY <2>3 DEF TypeOK, RowType, Keys
      <3>2. Keep(c, row) \in MemType
        BY <1>0, <2>2, <3>1, AbsentType DEF Keep, MemType, Keys
      <3>3. Resume(c, row) \in Labels
        BY DEF Resume, StartWatch, Labels
      <3>4. Resume(c, row) # "idle" => Knows(c, Resume(c, row), Keep(c, row))
        <4>1. CASE c \in Watchers
          <5>1. Keep(c, row).row = row /\ Resume(c, row) \in {"idle", "measure", "watch"}
            <6>1. Resume(c, row) = StartWatch(row)
              BY <4>1, TreasuryAssumption DEF Resume
            <6>2. StartWatch(row) \in {"idle", "measure", "watch"}
              BY DEF StartWatch
            <6>3. Keep(c, row).row = row
              BY <4>1, AbsentType, TreasuryAssumption DEF Keep, MemType
            <6> QED
              BY <6>1, <6>2, <6>3
          <5> QED
            BY <1>0, <3>1, <4>1, <5>1, TreasuryAssumption DEF Knows
        <4>2. CASE c \in Sweepers
          <5>1. Keep(c, row).checked = mem[c].checked /\ Resume(c, row) \in {"idle", "send"}
            BY <4>2, AbsentType, TreasuryAssumption DEF Keep, Resume, MemType
          <5> QED
            BY <1>0, <1>2, <4>2, <5>1, TreasuryAssumption DEF Knows, FindTreasury
        <4>3. CASE c \in Payers
          <5>1. Keep(c, row).pin = row.address /\ Resume(c, row) = "send"
            BY <4>3, AbsentType, TreasuryAssumption DEF Keep, Resume, MemType
          <5> QED
            BY <1>0, <3>1, <4>3, <5>1, TreasuryAssumption DEF Knows
        <4> QED
          BY <4>1, <4>2, <4>3 DEF Callers
      <3>5. LocalInv'
        BY <1>0, <2>3, <3>2, <3>3, <3>4, GoLocal
      <3>6. HasRow'
        BY <1>0, <2>1, <2>3, GoMoves, HasRowKept DEF Found, Processes, Callers
      <3> QED
        BY <2>1, <3>5, <3>6 DEF TypeOK, LocalInv, Found, keys, estate
    <2>4. CASE ~Found /\ Go(c, IF mem[c].pin = NoAddress THEN "idle" ELSE "adopt", mem[c])
      <3> DEFINE where == IF mem[c].pin = NoAddress THEN "idle" ELSE "adopt"
      <3>1. where \in Labels /\ where \notin WatchLabels
        BY DEF Labels, WatchLabels
      <3>2. where # "idle" => Knows(c, where, mem[c])
        BY <1>0, <1>2 DEF Knows, FindTreasury, WatchLabels, MemType, Keys
      <3>3. Go(c, where, mem[c])
        BY <2>4
      <3> HIDE DEF where
      <3>4. LocalInv'
        BY <1>0, <3>1, <3>2, <3>3, GoLocal
      <3>5. HasRow'
        BY <1>0, <2>1, <3>1, <3>3, GoMoves, HasRowKept DEF Found, Processes, Callers
      <3> QED
        BY <2>1, <3>4, <3>5 DEF TypeOK, LocalInv, Found, keys, estate
    <2> QED
      BY <1>2, <2>3, <2>4 DEF FindTreasury
  <1>3. CASE Adopt(c)
    <2>1. Go(c, "find", mem[c]) /\ UNCHANGED <<keys, estate, fails, hands>>
      BY <1>3 DEF Adopt
    <2>2. mem[c].pin \in Addresses
      BY <1>0, <1>3 DEF Knows, Adopt
    <2>3. row' \in RowType /\ row'.address # NoAddress /\ Found'
      BY <1>3, <2>2, UpsertRow, TreasuryAssumption DEF Adopt, TypeOK, Keys
    <2>4. Knows(c, "find", mem[c])
      BY <1>0, <1>3 DEF Knows, Adopt, WatchLabels
    <2>5. LocalInv'
      BY <1>0, <2>1, <2>4, GoLocal, "find" \in Labels DEF Labels
    <2>6. HasRow'
      BY <2>3 DEF HasRow
    <2> QED
      BY <2>1, <2>3, <2>5, <2>6 DEF TypeOK, LocalInv, keys, estate
  <1> QED
    BY <1>1, <1>2, <1>3 DEF RequireTreasury

LEMMA TypeRegister ==
  ASSUME TypeInv, NEW w \in Watchers,
         \/ Measure(w) \/ MeasureLate(w) \/ Watch(w)
         \/ RecordWatch(w) \/ PostOpening(w) \/ MarkBooked(w)
  PROVE  TypeInv'
  <1> USE DEF TypeInv
  <1> DEFINE a == mem[w].row.address
  <1>0. /\ w \in Processes /\ mem[w] \in MemType /\ w \notin Sweepers /\ w \notin Payers
        /\ w \notin Provisioners /\ w \in Callers
    BY TreasuryAssumption DEF LocalInv, Processes, Callers
  <1>1. pc[w] \in WatchLabels
    BY DEF Measure, MeasureLate, Watch, RecordWatch, PostOpening, MarkBooked, WatchLabels
  <1>2. a \in Addresses /\ Found /\ row \in RowType /\ row.address # NoAddress
        /\ (pc[w] \in {"book", "settle"} => mem[w].seen \in Nat)
    BY <1>0, <1>1 DEF LocalInv, Knows, HasRow, TypeOK
  <1>3. ASSUME NEW where \in Labels, NEW m \in MemType, Go(w, where, m),
               where \in WatchLabels \cup {"idle"}, m.row = mem[w].row,
               where \in {"book", "settle"} => m.seen \in Nat
        PROVE  LocalInv'
    <2>1. where # "idle" => Knows(w, where, m)
      BY <1>0, <1>2, <1>3 DEF Knows, WatchLabels
    <2> QED
      BY <1>0, <1>3, <2>1, GoLocal
  <1>4. ASSUME Found', NEW where, NEW m, Go(w, where, m) PROVE HasRow'
    BY <1>0, <1>4, <1>1, <1>2, GoMoves, HasRowKept DEF Processes, Callers
  <1>5. ASSUME NEW next \in {"book", "watch"}, CustodyBalance(w, next) PROVE LocalInv' /\ (Found' => HasRow')
    <2>1. CASE cold /\ a \notin claimed
      <3>1. Go(w, "idle", mem[w])
        BY <1>5, <2>1 DEF CustodyBalance
      <3> QED
        BY <1>0, <3>1, <1>3, <1>4 DEF Labels
    <2>2. CASE ~(cold /\ a \notin claimed)
      <3> DEFINE m == [mem[w] EXCEPT !.seen = coin[a]]
      <3>1. Go(w, next, m)
        BY <1>5, <2>2 DEF CustodyBalance
      <3>2. coin[a] \in Nat
        BY <1>2 DEF TypeOK
      <3>3. m \in MemType /\ m.row = mem[w].row /\ m.seen \in Nat
        BY <1>0, <3>2 DEF MemType, Amount
      <3>4. next \in Labels /\ next \in WatchLabels
        BY DEF Labels, WatchLabels
      <3> HIDE DEF m
      <3> QED
        BY <3>1, <3>3, <3>4, <1>3, <1>4
    <2> QED
      BY <2>1, <2>2
  <1>6. CASE Measure(w)
    <2>1. UNCHANGED <<row, keys, estate, fails, hands>>
      BY <1>6 DEF Measure
    <2>2. LocalInv' /\ HasRow'
      BY <1>6, <2>1, <1>2, <1>5 DEF Measure, Found
    <2> QED
      BY <2>1, <2>2 DEF TypeOK, LocalInv, Found, keys, estate
  <1>7. CASE MeasureLate(w)
    <2>1. UNCHANGED <<row, keys, estate, fails, hands>>
      BY <1>7 DEF MeasureLate
    <2>2. LocalInv' /\ HasRow'
      BY <1>7, <2>1, <1>2, <1>5 DEF MeasureLate, Found
    <2> QED
      BY <2>1, <2>2 DEF TypeOK, LocalInv, Found, keys, estate
  <1>8. CASE Watch(w)
    <2>1. /\ custody' = custody \cup {a}
          /\ claimed' = claimed \cup IF DerivedHere(mem[w].row) THEN {a} ELSE {}
          /\ Go(w, "record", mem[w])
          /\ UNCHANGED <<row, keys, cold, entry, books, coin, deposits, fails, hands>>
      BY <1>8 DEF Watch
    <2>2. custody' \subseteq Addresses /\ claimed' \subseteq custody'
      BY <1>2, <2>1 DEF TypeOK
    <2>3. LocalInv' /\ HasRow'
      BY <1>0, <1>2, <2>1, <1>3, <1>4 DEF Labels, WatchLabels, Found
    <2> QED
      BY <2>1, <2>2, <2>3 DEF TypeOK, LocalInv, Found, keys
  <1>9. CASE RecordWatch(w)
    <2> DEFINE where == IF mem[w].seen # Nothing THEN "book"
                        ELSE IF OwesOpening(mem[w].row) THEN "measure late" ELSE "idle"
    <2>1. /\ row' = [row EXCEPT !.watched = a]
          /\ Go(w, where, mem[w])
          /\ UNCHANGED <<keys, estate, fails, hands>>
      BY <1>9 DEF RecordWatch
    <2>2. row' \in RowType /\ row'.address # NoAddress /\ Found'
      BY <1>2, <2>1, RowOfPass, AbsentType DEF Found, Absent
    <2>3. where \in Labels /\ where \in WatchLabels \cup {"idle"}
          /\ (where = "book" => mem[w].seen \in Nat) /\ where # "settle"
      BY <1>0 DEF Labels, WatchLabels, MemType, Amount
    <2> HIDE DEF where
    <2>4. LocalInv' /\ HasRow'
      BY <1>0, <2>1, <2>2, <2>3, <1>3, <1>4
    <2> QED
      BY <2>1, <2>2, <2>4 DEF TypeOK, LocalInv, keys, estate
  <1>10. CASE PostOpening(w)
    <2>1. /\ pc[w] = "book" /\ mem[w].seen > 0
          /\ Go(w, "settle", mem[w])
          /\ UNCHANGED <<row, keys, custody, claimed, cold, coin, deposits, fails, hands>>
      BY <1>10 DEF PostOpening
    <2>2. entry' \in [Addresses -> Amount] /\ books' \in Int
      BY <1>2, <1>10, <2>1 DEF PostOpening, TypeOK, Amount
    <2>3. LocalInv' /\ HasRow'
      BY <1>0, <1>2, <2>1, <1>3, <1>4 DEF Labels, WatchLabels, Found
    <2> QED
      BY <2>1, <2>2, <2>3 DEF TypeOK, LocalInv, Found, keys
  <1>11. CASE MarkBooked(w)
    <2>1. /\ pc[w] \in {"book", "settle"}
          /\ row' = IF row.booked THEN row ELSE [row EXCEPT !.booked = TRUE, !.opening = mem[w].seen]
          /\ Go(w, "idle", mem[w])
          /\ UNCHANGED <<keys, estate, fails, hands>>
      BY <1>11 DEF MarkBooked
    <2>2. mem[w].seen \in Amount
      BY <1>2, <2>1 DEF Amount
    <2>3. row' \in RowType /\ row'.address # NoAddress /\ Found'
      BY <1>2, <2>1, <2>2, RowOfPass, AbsentType DEF Found, Absent
    <2>4. LocalInv' /\ HasRow'
      BY <1>0, <2>1, <2>3, <1>3, <1>4 DEF Labels
    <2> QED
      BY <2>1, <2>3, <2>4 DEF TypeOK, LocalInv, keys, estate
  <1> QED
    BY <1>6, <1>7, <1>8, <1>9, <1>10, <1>11

\* The steps of everyone else leave the row alone or upsert it, and no pass
\* moves but to its end.
LEMMA TypeSpend ==
  ASSUME TypeInv,
         \/ \E s \in Sweepers : CheckPin(s) \/ Sweep(s)
         \/ \E p \in Payers : Pay(p)
         \/ \E c \in Processes : Fail(c)
  PROVE  TypeInv'
  <1> USE DEF TypeInv
  <1>1. ASSUME NEW s \in Sweepers, CheckPin(s) PROVE TypeInv'
    <2> DEFINE m == [mem[s] EXCEPT !.checked = pin]
    <2>1. s \in Processes /\ mem[s] \in MemType /\ s \notin Watchers /\ s \notin Payers
          /\ s \notin Provisioners /\ pin \in Addresses /\ pin \in Keys
      BY <1>1, TreasuryAssumption DEF LocalInv, Processes, Callers, TypeOK, CheckPin, Keys
    <2>2. Go(s, "checked", m) /\ UNCHANGED <<row, keys, estate, fails, hands>>
      BY <1>1 DEF CheckPin
    <2>3. m \in MemType /\ m.checked = pin
      BY <2>1 DEF MemType
    <2>4. Knows(s, "checked", m)
      BY <2>1, <2>3 DEF Knows
    <2>5. LocalInv'
      BY <2>1, <2>2, <2>3, <2>4, GoLocal, "checked" \in Labels DEF Labels
    <2>6. HasRow'
      BY <2>1, <2>2, GoMoves, HasRowKept DEF WatchLabels, Found, Processes, Callers
    <2> QED
      BY <2>2, <2>5, <2>6 DEF TypeOK, LocalInv, Found, keys, estate
  <1>2. ASSUME NEW c \in Processes, Go(c, "idle", mem[c]), UNCHANGED row
        PROVE  LocalInv' /\ HasRow'
    <2>1. mem[c] \in MemType
      BY DEF LocalInv
    <2>2. LocalInv'
      BY <1>2, <2>1, GoLocal, "idle" \in Labels DEF Labels
    <2>3. HasRow'
      BY <1>2, GoMoves, HasRowKept DEF WatchLabels, Found, Processes, Callers
    <2> QED
      BY <2>2, <2>3
  <1>3. ASSUME NEW s \in Sweepers, Sweep(s) PROVE TypeInv'
    <2>1. s \in Processes /\ (mem[s].checked \in Addresses)
      BY <1>3 DEF LocalInv, Knows, Processes, Callers, Sweep
    <2>2. coin' \in [Addresses -> Nat] /\ deposits' \in Nat
      BY <1>3, <2>1 DEF Sweep, TypeOK
    <2>3. /\ Go(s, "idle", mem[s])
          /\ UNCHANGED <<row, keys, custody, claimed, cold, entry, books, fails, hands>>
      BY <1>3 DEF Sweep
    <2> QED
      BY <2>1, <2>2, <2>3, <1>2 DEF TypeOK, LocalInv, Found, keys
  <1>4. ASSUME NEW p \in Payers, Pay(p) PROVE TypeInv'
    <2>1. p \in Processes /\ (mem[p].pin \in Addresses)
      BY <1>4 DEF LocalInv, Knows, Processes, Callers, Pay
    <2>2. coin' \in [Addresses -> Nat] /\ books' \in Int
      BY <1>4, <2>1 DEF Pay, TypeOK
    <2>3. /\ Go(p, "idle", mem[p])
          /\ UNCHANGED <<row, keys, custody, claimed, cold, entry, deposits, fails, hands>>
      BY <1>4 DEF Pay
    <2> QED
      BY <2>1, <2>2, <2>3, <1>2 DEF TypeOK, LocalInv, Found, keys
  <1>5. ASSUME NEW c \in Processes, Fail(c) PROVE TypeInv'
    <2>1. fails' \in 0..MaxFails
      BY <1>5, TreasuryAssumption DEF Fail, TypeOK
    <2>2. Go(c, "idle", mem[c]) /\ UNCHANGED <<row, keys, estate, hands>>
      BY <1>5 DEF Fail
    <2> QED
      BY <2>1, <2>2, <1>2 DEF TypeOK, LocalInv, Found, keys, estate
  <1> QED
    BY <1>1, <1>3, <1>4, <1>5

LEMMA TypeProvision ==
  ASSUME TypeInv, NEW o \in Provisioners, Provision(o)
  PROVE  TypeInv'
  <1> USE DEF TypeInv
  <1>0. o \in Processes /\ mem[o] \in MemType /\ o \notin Callers
        /\ (pc[o] \in {"pin", "upsert"} => mem[o].pin \in Addresses)
    BY TreasuryAssumption DEF LocalInv, Knows, Processes
  <1>1. ASSUME NEW where \in Labels, NEW m \in MemType, Go(o, where, m),
               where \in {"pin", "upsert"} => m.pin \in Addresses, Found => Found'
        PROVE  LocalInv' /\ HasRow'
    <2>1. Knows(o, where, m)
      BY <1>0, <1>1 DEF Knows, Callers
    <2>2. LocalInv'
      BY <1>0, <1>1, <2>1, GoLocal
    <2>3. HasRow'
      BY <1>0, <1>1, GoMoves, HasRowKept DEF Processes, Callers
    <2> QED
      BY <2>2, <2>3
  <1>2. CASE ReadRow(o)
    <2> DEFINE m == [mem[o] EXCEPT !.checked = row.address]
    <2>1. Go(o, "current", m) /\ UNCHANGED <<row, keys, estate, fails, hands>>
      BY <1>2 DEF ReadRow
    <2>2. m \in MemType
      BY <1>0 DEF MemType, TypeOK, RowType
    <2> HIDE DEF m
    <2>3. LocalInv' /\ HasRow'
      BY <2>1, <2>2, <1>1 DEF Labels, Found
    <2> QED
      BY <2>1, <2>3 DEF TypeOK, LocalInv, Found, keys, estate
  <1>3. CASE ReadCurrentPin(o)
    <2>1. UNCHANGED <<row, keys, estate, fails, hands>>
          /\ (Go(o, "idle", mem[o]) \/ Go(o, "mint", Blank))
      BY <1>3 DEF ReadCurrentPin
    <2>2. LocalInv' /\ HasRow'
      BY <2>1, <1>0, <1>1, AbsentType DEF Labels, Found
    <2> QED
      BY <2>1, <2>2 DEF TypeOK, LocalInv, Found, keys, estate
  <1>4. CASE MintTreasury(o)
    <2>1. PICK a \in Candidates :
            /\ minted' = minted \cup {a}
            /\ Go(o, "pin", [mem[o] EXCEPT !.pin = a])
            /\ UNCHANGED <<row, pin, pinned, estate, fails, hands>>
      BY <1>4 DEF MintTreasury
    <2>2. a \in Fresh /\ a \in Addresses /\ a \in Keys
      BY DEF Candidates, Outstanding, TypeOK, Addresses, Keys
    <2> DEFINE m == [mem[o] EXCEPT !.pin = a]
    <2>3. m \in MemType /\ m.pin \in Addresses
      BY <1>0, <2>2 DEF MemType
    <2>4. Go(o, "pin", m)
      BY <2>1
    <2> HIDE DEF m
    <2>5. LocalInv' /\ HasRow'
      BY <2>1, <2>3, <2>4, <1>1 DEF Labels, Found
    <2> QED
      BY <2>1, <2>2, <2>5 DEF TypeOK, LocalInv, Found, estate
  <1>5. CASE PinTreasury(o)
    <2>1. /\ pc[o] = "pin" /\ Pin(mem[o].pin) /\ Go(o, "upsert", mem[o])
          /\ UNCHANGED <<row, minted, estate, fails, hands>>
      BY <1>5 DEF PinTreasury
    <2>2. LocalInv' /\ HasRow'
      BY <2>1, <1>0, <1>1 DEF Labels, Found
    <2> QED
      BY <2>1, <2>2, <1>0 DEF TypeOK, LocalInv, Found, estate, Pin, Keys
  <1>6. CASE RecordTreasury(o)
    <2>1. /\ pc[o] = "upsert" /\ UpsertTreasury(mem[o].pin, mem[o].pin)
          /\ Go(o, "idle", mem[o])
          /\ UNCHANGED <<keys, estate, fails, hands>>
      BY <1>6 DEF RecordTreasury
    <2>2. row' \in RowType /\ row'.address # NoAddress /\ Found'
      BY <1>0, <2>1, UpsertRow, TreasuryAssumption DEF TypeOK, Keys
    <2>3. LocalInv' /\ HasRow'
      BY <2>1, <2>2, <1>0, <1>1 DEF Labels
    <2> QED
      BY <2>1, <2>2, <2>3 DEF TypeOK, LocalInv, keys, estate
  <1> QED
    BY <1>2, <1>3, <1>4, <1>5, <1>6 DEF Provision

LEMMA TypeHands ==
  ASSUME TypeInv, Hands
  PROVE  TypeInv'
  <1> USE DEF TypeInv
  <1>1. hands' \in 0..MaxHands /\ UNCHANGED <<row, minted, custody, claimed, cold, entry, books,
                                             deposits, pc, mem, fails>>
    BY TreasuryAssumption
    DEF Hands, PinByHand, Unpin, MoveBalance, ByHand, TypeOK, estate, local, keys
  <1>2. pin' \in Keys /\ pinned' \subseteq Addresses /\ coin' \in [Addresses -> Nat]
    <2>1. CASE \E a \in Legacy : PinByHand(a)
      BY <2>1 DEF PinByHand, Pin, TypeOK, Keys, Addresses, estate
    <2>2. CASE Unpin
      BY <2>2 DEF Unpin, Pin, TypeOK, Keys, estate
    <2>3. CASE \E a, b \in Addresses : MoveBalance(a, b)
      <3>1. PICK a, b \in Addresses : MoveBalance(a, b)
        BY <2>3
      <3>2. coin' = [coin EXCEPT ![a] = 0, ![b] = coin[b] + coin[a]] /\ UNCHANGED keys
        BY <3>1 DEF MoveBalance, TypeOK
      <3> QED
        BY <3>2 DEF TypeOK, keys
    <2> QED
      BY <2>1, <2>2, <2>3 DEF Hands
  <1> QED
    BY <1>1, <1>2 DEF TypeOK, LocalInv, HasRow, Found

LEMMA TypeStep == TypeInv /\ [Next]_vars => TypeInv'
  <1> SUFFICES ASSUME TypeInv, [Next]_vars PROVE TypeInv'
    OBVIOUS
  <1>1. CASE \E w \in Watchers : RegisterTreasury(w)
    BY <1>1, TypeRequire, TypeRegister DEF RegisterTreasury, Callers
  <1>2. CASE \E s \in Sweepers : SweepInto(s)
    BY <1>2, TypeRequire, TypeSpend DEF SweepInto, Callers
  <1>3. CASE \E p \in Payers : PayFrom(p)
    BY <1>3, TypeRequire, TypeSpend DEF PayFrom, Callers
  <1>4. CASE \E o \in Provisioners : Provision(o)
    BY <1>4, TypeProvision
  <1>5. CASE \E c \in Processes : Fail(c)
    BY <1>5, TypeSpend
  <1>6. CASE Hands
    BY <1>6, TypeHands
  <1>7. CASE UNCHANGED vars
    BY <1>7 DEF TypeInv, TypeOK, LocalInv, HasRow, Found, vars, keys, estate, local
  <1> QED
    BY <1>1, <1>2, <1>3, <1>4, <1>5, <1>6, <1>7 DEF Next

\* Every variable of the treasury keeps its type, and each process holds at
\* every await what its next step uses.
THEOREM TreasuryTypeCorrect == Spec => []TypeOK
  <1>1. TypeInv => TypeOK
    BY DEF TypeInv
  <1> QED
    BY <1>1, TypeInit, TypeStep, PTL DEF Spec

(***************************************************************************)
(* The row and the indexer.                                                *)
(***************************************************************************)
\* What changes the row, and that the indexer forgets no address.
LEMMA RowSteps ==
  ASSUME TypeInv, [Next]_vars
  PROVE  /\ \/ row' = row
            \/ \E a \in Addresses, k \in Keys : UpsertTreasury(a, k) /\ UNCHANGED <<custody, entry>>
            \/ \E w \in Watchers : RecordWatch(w)
            \/ \E w \in Watchers : MarkBooked(w)
         /\ custody \subseteq custody'
  <1> USE DEF TypeInv
  <1>1. CASE \E c \in Callers : Adopt(c)
    <2>1. PICK c \in Callers : Adopt(c)
      BY <1>1
    <2>2. mem[c].pin \in Addresses /\ NoAddress \in Keys
      BY <2>1 DEF LocalInv, Knows, Adopt, Processes, Keys
    <2> QED
      BY <2>1, <2>2 DEF Adopt, estate
  <1>2. CASE \E o \in Provisioners : RecordTreasury(o)
    <2>1. PICK o \in Provisioners : RecordTreasury(o)
      BY <1>2
    <2>2. mem[o].pin \in Addresses /\ mem[o].pin \in Keys
      BY <2>1 DEF LocalInv, Knows, RecordTreasury, Processes, Keys
    <2> QED
      BY <2>1, <2>2 DEF RecordTreasury, estate
  <1>3. CASE \E w \in Watchers : RecordWatch(w) \/ MarkBooked(w)
    BY <1>3 DEF RecordWatch, MarkBooked, estate
  <1>4. CASE UNCHANGED row /\ custody \subseteq custody'
    BY <1>4
  <1>5. CASE \E c \in Callers : ReadPin(c) \/ FindTreasury(c)
    BY <1>4, <1>5 DEF ReadPin, FindTreasury, estate
  <1>6. CASE \E w \in Watchers : Measure(w) \/ MeasureLate(w) \/ Watch(w) \/ PostOpening(w)
    BY <1>4, <1>6 DEF Measure, MeasureLate, Watch, PostOpening, estate
  <1>7. CASE \/ \E s \in Sweepers : CheckPin(s) \/ Sweep(s)
             \/ \E p \in Payers : Pay(p)
             \/ \E c \in Processes : Fail(c)
    BY <1>4, <1>7 DEF CheckPin, Sweep, Pay, Fail, estate
  <1>8. CASE \E o \in Provisioners :
               ReadRow(o) \/ ReadCurrentPin(o) \/ MintTreasury(o) \/ PinTreasury(o)
    BY <1>4, <1>8 DEF ReadRow, ReadCurrentPin, MintTreasury, PinTreasury, estate
  <1>9. CASE Hands \/ UNCHANGED vars
    BY <1>4, <1>9 DEF Hands, PinByHand, Unpin, MoveBalance, estate, vars
  <1> QED
    BY <1>1, <1>2, <1>3, <1>5, <1>6, <1>7, <1>8, <1>9
    DEF Next, RegisterTreasury, SweepInto, PayFrom, Provision, RequireTreasury, Callers

LEMMA RecordInit == Init => RecordInv
  BY DEF Init, RecordInv, WatchedIsRecorded, Absent, Processes, Callers

LEMMA RecordStep == TypeInv /\ RecordInv /\ [Next]_vars => RecordInv'
  <1> SUFFICES ASSUME TypeInv, RecordInv, [Next]_vars PROVE RecordInv'
    OBVIOUS
  <1> USE DEF RecordInv
  <1>1. custody \subseteq custody'
    BY RowSteps
  <1>2. WatchedIsRecorded'
    <2>1. row'.watched = row.watched \/ row'.watched \in custody
      <3>1. CASE row' = row
        BY <3>1
      <3>2. CASE \E a \in Addresses, k \in Keys : UpsertTreasury(a, k)
        BY <3>2, UpsertRow DEF TypeInv, TypeOK
      <3>3. CASE \E w \in Watchers : RecordWatch(w)
        BY <3>3 DEF RecordWatch, TypeInv, TypeOK, RowType
      <3>4. CASE \E w \in Watchers : MarkBooked(w)
        BY <3>4 DEF MarkBooked, TypeInv, TypeOK, RowType
      <3> QED
        BY <3>1, <3>2, <3>3, <3>4, RowSteps
    <2> QED
      BY <1>1, <2>1 DEF WatchedIsRecorded
  <1>3. ASSUME NEW w \in Watchers, pc'[w] = "record" PROVE mem'[w].row.address \in custody'
    <2>0. w \in Processes /\ w \in Callers /\ w \notin Provisioners /\ w \notin Sweepers
          /\ w \notin Payers
      BY TreasuryAssumption DEF Processes, Callers
    <2>1. CASE pc'[w] = pc[w] /\ mem'[w] = mem[w]
      BY <1>1, <1>3, <2>1
    <2>2. CASE Watch(w)
      <3>1. Go(w, "record", mem[w]) /\ custody' = custody \cup {mem[w].row.address}
        BY <2>2 DEF Watch
      <3>2. mem'[w] = mem[w]
        BY <2>0, <3>1, GoMoves DEF TypeInv
      <3> QED
        BY <3>1, <3>2
    <2>3. ASSUME NEW c \in Processes, NEW where, NEW m, Go(c, where, m),
                 c # w \/ where # "record"
          PROVE  pc'[w] = pc[w] /\ mem'[w] = mem[w]
      BY <1>3, <2>0, <2>3, GoMoves DEF TypeInv
    <2>4. CASE \E c \in Callers : RequireTreasury(c)
      <3>1. PICK c \in Callers : RequireTreasury(c)
        BY <2>4
      <3>2. c \in Processes
        BY DEF Processes
      <3>3. \E where : where # "record" /\ \E m : Go(c, where, m)
        <4>1. Resume(c, row) # "record"
          <5>1. StartWatch(row) # "record"
            BY DEF StartWatch
          <5> QED
            BY <5>1, TreasuryAssumption DEF Resume, Callers
        <4> QED
          BY <3>1, <4>1 DEF RequireTreasury, ReadPin, FindTreasury, Adopt
      <3> QED
        BY <3>2, <3>3, <2>3, <2>1
    <2>5. CASE \E v \in Watchers : Watch(v) \/ RecordWatch(v) \/ PostOpening(v) \/ MarkBooked(v)
      <3>1. PICK v \in Watchers : Watch(v) \/ RecordWatch(v) \/ PostOpening(v) \/ MarkBooked(v)
        BY <2>5
      <3>2. v \in Processes
        BY DEF Processes, Callers
      <3>3. CASE v = w /\ Watch(v)
        BY <2>2, <3>3
      <3>4. CASE v # w \/ ~Watch(v)
        <4>1. \E where, m : Go(v, where, m) /\ (v # w \/ where # "record")
          <5>1. CASE Watch(v)
            BY <3>4, <5>1 DEF Watch
          <5>2. CASE RecordWatch(v)
            <6> DEFINE where == IF mem[v].seen # Nothing THEN "book"
                                ELSE IF OwesOpening(mem[v].row) THEN "measure late" ELSE "idle"
            <6>1. where # "record"
              OBVIOUS
            <6>2. Go(v, where, mem[v])
              BY <5>2 DEF RecordWatch
            <6> HIDE DEF where
            <6> QED
              BY <6>1, <6>2
          <5>3. CASE PostOpening(v) \/ MarkBooked(v)
            BY <5>3 DEF PostOpening, MarkBooked
          <5> QED
            BY <3>1, <5>1, <5>2, <5>3
        <4> QED
          BY <3>2, <4>1, <2>3, <2>1
      <3> QED
        BY <3>3, <3>4
    <2>6. CASE \E v \in Watchers : Measure(v) \/ MeasureLate(v)
      <3>1. PICK v \in Watchers, next \in {"book", "watch"} : CustodyBalance(v, next)
        BY <2>6 DEF Measure, MeasureLate
      <3>2. \E where : where # "record" /\ \E m : Go(v, where, m)
        BY <3>1 DEF CustodyBalance
      <3> QED
        BY <3>2, <2>3, <2>1 DEF Processes, Callers
    <2>7. CASE \/ \E s \in Sweepers : CheckPin(s) \/ Sweep(s)
               \/ \E p \in Payers : Pay(p)
               \/ \E c \in Processes : Fail(c)
      <3>1. \E c \in Processes : \E where, m : where # "record" /\ Go(c, where, m)
        BY <2>7 DEF CheckPin, Sweep, Pay, Fail, Processes, Callers
      <3> QED
        BY <3>1, <2>3, <2>1
    <2>8. CASE \E o \in Provisioners : Provision(o)
      <3>1. \E c \in Processes : \E where, m : where # "record" /\ Go(c, where, m)
        BY <2>8 DEF Provision, ReadRow, ReadCurrentPin, MintTreasury, PinTreasury,
                    RecordTreasury, Processes
      <3> QED
        BY <3>1, <2>3, <2>1
    <2>9. CASE Hands \/ UNCHANGED vars
      BY <2>9, <2>1 DEF Hands, PinByHand, Unpin, MoveBalance, local, vars
    <2> QED
      BY <2>4, <2>5, <2>6, <2>7, <2>8, <2>9
      DEF Next, RegisterTreasury, SweepInto, PayFrom, Callers
  <1> QED
    BY <1>2, <1>3

\* The watched key of the row is always one the indexer has: whatever fails,
\* no attempt is recorded as a success.
THEOREM WatchedIsRecordedHolds == Spec => []WatchedIsRecorded
  <1>1. RecordInv => WatchedIsRecorded
    BY DEF RecordInv
  <1> QED
    BY <1>1, RecordInit, TypeInit, TypeStep, RecordStep, PTL DEF Spec

\* A booked row stays booked with the amount of its opening, through every
\* rotation, adoption and second pass.
THEOREM OpeningStaysHolds == Spec => OpeningStays
  <1>1. TypeInv /\ [Next]_vars => [row.booked => row'.booked /\ row'.opening = row.opening]_vars
    <2> SUFFICES ASSUME TypeInv, [Next]_vars, row.booked
                 PROVE  row'.booked /\ row'.opening = row.opening
      OBVIOUS
    <2>1. row \in RowType
      BY DEF TypeInv, TypeOK
    <2>2. CASE \E a \in Addresses, k \in Keys : UpsertTreasury(a, k)
      BY <2>1, <2>2, UpsertRow
    <2>3. CASE \E w \in Watchers : RecordWatch(w)
      BY <2>1, <2>3 DEF RecordWatch, RowType
    <2>4. CASE \E w \in Watchers : MarkBooked(w)
      BY <2>4 DEF MarkBooked
    <2> QED
      BY <2>2, <2>3, <2>4, RowSteps
  <1> QED
    BY <1>1, TypeInit, TypeStep, PTL DEF Spec, OpeningStays

(***************************************************************************)
(* One opening.                                                            *)
(***************************************************************************)
\* A step of a caller that leaves row and pin alone keeps Steady if what it
\* takes to requireTreasury is the pin.
LEMMA SteadyCaller ==
  ASSUME TypeInv, Steady, NEW c \in Callers, NEW where, NEW m, Go(c, where, m), pin' = pin,
         ~row'.booked => ~row.booked /\ (Found' => pin = row'.address),
         ~row.booked /\ where \in {"find", "adopt"} => m.pin \in {NoAddress, pin}
  PROVE  Steady'
  <1>1. c \in Processes /\ c \notin Provisioners /\ Provisioners \subseteq Processes
        /\ Callers \subseteq Processes
    BY TreasuryAssumption DEF Processes
  <1>2. \A o \in Provisioners : pc'[o] = pc[o] /\ mem'[o] = mem[o]
    BY <1>1, GoMoves DEF TypeInv
  <1>3. ASSUME NEW d \in Callers, ~row'.booked, pc'[d] \in {"find", "adopt"}
        PROVE  mem'[d].pin \in {NoAddress, pin}
    <2>1. CASE d = c
      BY <1>1, <1>3, <2>1, GoMoves DEF TypeInv
    <2>2. CASE d # c
      BY <1>1, <1>3, <2>2, GoMoves DEF TypeInv, Steady
    <2> QED
      BY <2>1, <2>2
  <1> QED
    BY <1>2, <1>3 DEF Steady

\* Nothing else than the row and the pin matters beside the processes.
LEMMA SteadyOperator ==
  ASSUME TypeInv, Steady, NEW o \in Provisioners, NEW where, NEW m, Go(o, where, m),
         \A q \in Provisioners : q # o => pc[q] = "idle",
         ~row'.booked =>
           /\ ~row.booked
           /\ Found' => pin' = row'.address
           /\ pin' = pin \/ pin = NoAddress
           /\ where \in {"mint", "pin"} => pin' = NoAddress
           /\ where = "upsert" => m.pin = pin'
  PROVE  Steady'
  <1>1. o \in Processes /\ o \notin Callers /\ Provisioners \subseteq Processes
        /\ Callers \subseteq Processes
    BY TreasuryAssumption DEF Processes
  <1>2. \A c \in Callers : pc'[c] = pc[c] /\ mem'[c] = mem[c]
    BY <1>1, GoMoves DEF TypeInv
  <1>3. \A q \in Provisioners : q # o => pc'[q] = "idle"
    BY <1>1, GoMoves DEF TypeInv
  <1>4. pc'[o] = where /\ (where # "idle" => mem'[o] = m)
    BY <1>1, GoMoves DEF TypeInv
  <1>5. \A p, q \in Provisioners : pc'[p] # "idle" /\ pc'[q] # "idle" => p = q
    BY <1>3
  <1>6. ASSUME ~row'.booked
        PROVE  \A c \in Callers : pc'[c] \in {"find", "adopt"} => mem'[c].pin \in {NoAddress, pin'}
    BY <1>2, <1>6 DEF Steady
  <1>7. ASSUME ~row'.booked, NEW q \in Provisioners
        PROVE  /\ pc'[q] \in {"mint", "pin"} => pin' = NoAddress
               /\ pc'[q] = "upsert" => mem'[q].pin = pin'
    BY <1>3, <1>4, <1>7
  <1> QED
    BY <1>5, <1>6, <1>7 DEF Steady

LEMMA SteadyStep ==
  ASSUME "rotation" \notin Early, TypeInv, Steady, [Next]_vars
  PROVE  Steady'
  <1>0. /\ Callers \subseteq Processes /\ Provisioners \subseteq Processes
        /\ row \in RowType /\ pin \in Keys
        /\ \A c \in Callers : pc[c] = "adopt" => mem[c].pin \in Addresses
        /\ \A o \in Provisioners : pc[o] \in {"pin", "upsert"} => mem[o].pin \in Addresses
        /\ NoAddress \notin Addresses
        /\ \A c \in Processes : mem[c] \in MemType
    BY TreasuryAssumption DEF TypeInv, TypeOK, LocalInv, Knows, Processes
  <1>1. ASSUME NEW c \in Callers, NEW where, NEW m, Go(c, where, m), UNCHANGED <<row, pin>>,
               where \notin {"find", "adopt"} \/ (~row.booked => m.pin \in {NoAddress, pin})
        PROVE  Steady'
    <2>1. ~row'.booked => ~row.booked /\ (Found' => pin = row'.address)
      BY <1>1 DEF Steady, Found
    <2> QED
      BY <1>1, <2>1, SteadyCaller
  <1>2. ASSUME NEW c \in Callers, RequireTreasury(c) PROVE Steady'
    <2>1. CASE ReadPin(c)
      <3> DEFINE m == [mem[c] EXCEPT !.pin = pin]
      <3>1. Go(c, "find", m) /\ UNCHANGED <<row, pin>>
        BY <2>1 DEF ReadPin, keys
      <3>2. m.pin = pin
        BY <1>0 DEF MemType
      <3> QED
        BY <3>1, <3>2, <1>1
    <2>2. CASE FindTreasury(c)
      <3>1. UNCHANGED <<row, pin>>
        BY <2>2 DEF FindTreasury, keys
      <3>2. CASE Go(c, Resume(c, row), Keep(c, row))
        <4>1. StartWatch(row) \notin {"find", "adopt"}
          BY DEF StartWatch
        <4>2. Resume(c, row) \notin {"find", "adopt"}
          BY <4>1, TreasuryAssumption DEF Resume, Callers
        <4> QED
          BY <3>1, <3>2, <4>2, <1>1
      <3>3. CASE Go(c, IF mem[c].pin = NoAddress THEN "idle" ELSE "adopt", mem[c])
        <4>1. ~row.booked => mem[c].pin \in {NoAddress, pin}
          BY <2>2 DEF Steady, FindTreasury
        <4> QED
          BY <3>1, <3>3, <4>1, <1>1
      <3> QED
        BY <2>2, <3>2, <3>3 DEF FindTreasury
    <2>3. CASE Adopt(c)
      <3>1. UpsertTreasury(mem[c].pin, NoAddress) /\ Go(c, "find", mem[c]) /\ pin' = pin
        BY <2>3 DEF Adopt, keys
      <3>2. mem[c].pin \in Addresses /\ NoAddress \in Keys
        BY <1>0, <2>3 DEF Adopt, Keys
      <3>3. row'.booked = row.booked /\ row'.address = mem[c].pin
        BY <1>0, <3>1, <3>2, UpsertRow
      <3>4. ~row.booked => mem[c].pin = pin
        BY <1>0, <2>3, <3>2 DEF Steady, Adopt
      <3>5. ~row'.booked => ~row.booked /\ (Found' => pin = row'.address)
        BY <3>3, <3>4
      <3>6. ~row.booked /\ "find" \in {"find", "adopt"} => mem[c].pin \in {NoAddress, pin}
        BY <3>4
      <3> QED
        BY <3>1, <3>5, <3>6, SteadyCaller
    <2> QED
      BY <1>2, <2>1, <2>2, <2>3 DEF RequireTreasury
  <1>3. ASSUME NEW w \in Watchers,
               Measure(w) \/ MeasureLate(w) \/ Watch(w) \/ PostOpening(w)
        PROVE  Steady'
    <2>1. w \in Callers
      BY DEF Callers
    <2>2. UNCHANGED <<row, pin>>
      BY <1>3 DEF Measure, MeasureLate, Watch, PostOpening, keys
    <2>3. CASE Watch(w) \/ PostOpening(w)
      BY <2>1, <2>2, <2>3, <1>1 DEF Watch, PostOpening
    <2>4. CASE Measure(w) \/ MeasureLate(w)
      <3>1. PICK next \in {"book", "watch"} : CustodyBalance(w, next)
        BY <2>4 DEF Measure, MeasureLate
      <3>2. \E where, m : Go(w, where, m) /\ where \notin {"find", "adopt"}
        BY <3>1 DEF CustodyBalance
      <3> QED
        BY <2>1, <2>2, <3>2, <1>1
    <2> QED
      BY <1>3, <2>3, <2>4
  <1>4. ASSUME NEW w \in Watchers, RecordWatch(w) PROVE Steady'
    <2> DEFINE where == IF mem[w].seen # Nothing THEN "book"
                        ELSE IF OwesOpening(mem[w].row) THEN "measure late" ELSE "idle"
    <2>1. Go(w, where, mem[w]) /\ pin' = pin /\ row' = [row EXCEPT !.watched = mem[w].row.address]
      BY <1>4 DEF RecordWatch, keys
    <2>2. where \notin {"find", "adopt"}
      OBVIOUS
    <2>3. Found
      BY <1>4 DEF TypeInv, HasRow, RecordWatch, WatchLabels
    <2>4. row'.booked = row.booked /\ row'.address = row.address
      BY <1>0, <2>1 DEF RowType
    <2>5. ~row'.booked => ~row.booked /\ (Found' => pin = row'.address)
      BY <2>3, <2>4 DEF Steady
    <2> HIDE DEF where
    <2> QED
      BY <2>1, <2>2, <2>5, SteadyCaller DEF Callers
  <1>5. ASSUME NEW w \in Watchers, MarkBooked(w) PROVE Steady'
    <2>1. Go(w, "idle", mem[w]) /\ pin' = pin
      BY <1>5 DEF MarkBooked, keys
    <2>2. row'.booked
      <3>1. CASE row.booked
        BY <1>5, <3>1 DEF MarkBooked
      <3>2. CASE ~row.booked
        BY <1>0, <1>5, <3>2 DEF MarkBooked, RowType
      <3> QED
        BY <3>1, <3>2
    <2> QED
      BY <2>1, <2>2, SteadyCaller DEF Callers
  <1>6. ASSUME \E s \in Sweepers : CheckPin(s) \/ Sweep(s) PROVE Steady'
    BY <1>6, <1>1 DEF CheckPin, Sweep, keys, Callers
  <1>7. ASSUME \E p \in Payers : Pay(p) PROVE Steady'
    BY <1>7, <1>1 DEF Pay, keys, Callers
  <1>8. ASSUME NEW o \in Provisioners, Provision(o) \/ (o \in Processes /\ Fail(o)) PROVE Steady'
    <2>1. \A q \in Provisioners : q # o => pc[q] = "idle"
      <3>1. CASE pc[o] = "idle"
        BY <1>8, <3>1 DEF Provision, ReadRow, ReadCurrentPin, MintTreasury, PinTreasury,
                          RecordTreasury, Fail, Alone
      <3>2. CASE pc[o] # "idle"
        BY <3>2 DEF Steady
      <3> QED
        BY <3>1, <3>2
    <2>2. ASSUME NEW where, NEW m, Go(o, where, m), UNCHANGED <<row, pin>>,
                 where # "upsert", ~row.booked /\ where \in {"mint", "pin"} => pin = NoAddress
          PROVE  Steady'
      <3>1. ~row'.booked =>
              /\ ~row.booked
              /\ Found' => pin' = row'.address
              /\ pin' = pin \/ pin = NoAddress
              /\ where \in {"mint", "pin"} => pin' = NoAddress
              /\ where = "upsert" => m.pin = pin'
        BY <2>2 DEF Steady, Found
      <3> QED
        BY <2>1, <2>2, <3>1, SteadyOperator
    <2>3. CASE ReadRow(o)
      BY <2>3, <2>2 DEF ReadRow, keys
    <2>4. CASE ReadCurrentPin(o)
      <3>1. UNCHANGED <<row, pin>>
        BY <2>4 DEF ReadCurrentPin, keys
      <3>2. CASE Go(o, "idle", mem[o])
        BY <3>1, <3>2, <2>2
      <3>3. CASE ~Go(o, "idle", mem[o])
        <4>1. Go(o, "mint", Blank) /\ (pin = NoAddress \/ MayReplace)
          BY <2>4, <3>3 DEF ReadCurrentPin
        <4>2. ~row.booked => pin = NoAddress
          BY <4>1 DEF MayReplace
        <4> QED
          BY <3>1, <4>1, <4>2, <2>2
      <3> QED
        BY <3>2, <3>3
    <2>5. CASE MintTreasury(o)
      <3>1. pc[o] = "mint" /\ UNCHANGED <<row, pin>> /\ \E m : Go(o, "pin", m)
        BY <2>5 DEF MintTreasury
      <3>2. ~row.booked => pin = NoAddress
        BY <3>1 DEF Steady
      <3> QED
        BY <3>1, <3>2, <2>2
    <2>6. CASE PinTreasury(o)
      <3>1. pc[o] = "pin" /\ pin' = mem[o].pin /\ Go(o, "upsert", mem[o]) /\ row' = row
        BY <2>6 DEF PinTreasury, Pin
      <3>2. ~row.booked => pin = NoAddress /\ ~Found
        <4>1. Found => row.address # NoAddress
          BY DEF TypeInv, TypeOK
        <4> QED
          BY <3>1, <4>1 DEF Steady
      <3>3. ~row'.booked =>
              /\ ~row.booked
              /\ Found' => pin' = row'.address
              /\ pin' = pin \/ pin = NoAddress
              /\ "upsert" \in {"mint", "pin"} => pin' = NoAddress
              /\ "upsert" = "upsert" => mem[o].pin = pin'
        BY <3>1, <3>2 DEF Found
      <3> QED
        BY <2>1, <3>1, <3>3, SteadyOperator
    <2>7. CASE RecordTreasury(o)
      <3>1. pc[o] = "upsert" /\ UpsertTreasury(mem[o].pin, mem[o].pin) /\ Go(o, "idle", mem[o])
            /\ pin' = pin
        BY <2>7 DEF RecordTreasury, keys
      <3>2. mem[o].pin \in Addresses /\ mem[o].pin \in Keys
        BY <1>0, <3>1 DEF Keys
      <3>3. row'.booked = row.booked /\ row'.address = mem[o].pin
        BY <1>0, <3>1, <3>2, UpsertRow
      <3>4. ~row'.booked =>
              /\ ~row.booked
              /\ Found' => pin' = row'.address
              /\ pin' = pin \/ pin = NoAddress
              /\ "idle" \in {"mint", "pin"} => pin' = NoAddress
              /\ "idle" = "upsert" => mem[o].pin = pin'
        BY <3>1, <3>3 DEF Steady
      <3> QED
        BY <2>1, <3>1, <3>4, SteadyOperator
    <2>8. CASE Fail(o)
      BY <2>8, <2>2 DEF Fail, keys
    <2> QED
      BY <1>8, <2>3, <2>4, <2>5, <2>6, <2>7, <2>8 DEF Provision
  <1>9. ASSUME NEW c \in Callers, Fail(c) PROVE Steady'
    BY <1>9, <1>1 DEF Fail, keys
  <1>10. ASSUME Hands PROVE Steady'
    <2>1. UNCHANGED <<row, pc, mem>> /\ \A o \in Provisioners : pc[o] = "idle"
      BY <1>10 DEF Hands, PinByHand, Unpin, MoveBalance, ByHand, Alone, local
    <2>2. ~row.booked => pin' = pin \/ (pin = NoAddress /\ ~Found)
      BY <1>10 DEF Hands, PinByHand, Unpin, MoveBalance, MayReplace, keys
    <2> QED
      BY <2>1, <2>2 DEF Steady, Found
  <1>11. ASSUME UNCHANGED vars PROVE Steady'
    BY <1>11 DEF vars, Steady, Found, keys, local
  <1> QED
    BY <1>2, <1>3, <1>4, <1>5, <1>6, <1>7, <1>8, <1>9, <1>10, <1>11
    DEF Next, RegisterTreasury, SweepInto, PayFrom, Callers, Processes

\* A step that posts no entry but where a pass owed it, and starts no owing
\* pass, keeps the opening one.
LEMMA OpeningKept ==
  ASSUME OpeningInv,
         \A a \in Addresses : entry'[a] # Nothing => OpenedAt(a),
         ~row'.booked => ~row.booked /\ (Found => Found' /\ row'.address = row.address),
         \A w \in Watchers : pc'[w] \in WatchLabels =>
            /\ pc[w] \in WatchLabels /\ mem'[w].row = mem[w].row
            /\ mem'[w].seen # Nothing \/ pc'[w] \in {"measure", "measure late"} => Owing(w)
  PROVE  OpeningInv'
  <1>1. \A a \in Addresses : OpenedAt(a)' => OpenedAt(a)
    BY DEF OpenedAt, Owing
  <1>2. \A w \in Watchers : pc'[w] \in WatchLabels /\ mem'[w].seen # Nothing => Owing(w)'
    BY DEF Owing
  <1>3. \A w \in Watchers : pc'[w] \in {"measure", "measure late"} => Owing(w)'
    BY DEF Owing, WatchLabels
  <1>4. \A a, b \in Addresses : OpenedAt(a)' /\ OpenedAt(b)' => a = b
    BY <1>1 DEF OpeningInv
  <1>5. ~row'.booked => \A a \in Addresses : OpenedAt(a)' => Found' /\ a = row'.address
    BY <1>1 DEF OpeningInv
  <1> QED
    BY <1>2, <1>3, <1>4, <1>5 DEF OpeningInv

\* The steps that move no pass but to its end.
LEMMA OpeningIdle ==
  ASSUME TypeInv, OpeningInv, NEW c \in Processes, NEW where, NEW m, Go(c, where, m),
         c \in Watchers => where \notin WatchLabels,
         entry' = entry,
         ~row'.booked => ~row.booked /\ (Found => Found' /\ row'.address = row.address)
  PROVE  OpeningInv'
  <1>1. Watchers \subseteq Processes
    BY DEF Processes, Callers
  <1>2. \A w \in Watchers : pc'[w] \in WatchLabels => pc'[w] = pc[w] /\ mem'[w] = mem[w]
    BY <1>1, GoMoves DEF TypeInv
  <1>3. ASSUME NEW w \in Watchers, pc'[w] \in WatchLabels
        PROVE  /\ pc[w] \in WatchLabels /\ mem'[w].row = mem[w].row
               /\ mem'[w].seen # Nothing \/ pc'[w] \in {"measure", "measure late"} => Owing(w)
    BY <1>2, <1>3 DEF OpeningInv
  <1> QED
    BY <1>3, OpeningKept DEF OpenedAt

\* The steps of a pass past requireTreasury.
LEMMA OpeningPass ==
  ASSUME TypeInv, OpeningInv, NEW w \in Watchers, pc[w] \in WatchLabels,
         NEW where, NEW m, Go(w, where, m),
         m.row = mem[w].row,
         m.seen # Nothing \/ where \in {"measure", "measure late"} => Owing(w),
         \A a \in Addresses : entry'[a] # Nothing => OpenedAt(a),
         ~row'.booked => ~row.booked /\ (Found => Found' /\ row'.address = row.address)
  PROVE  OpeningInv'
  <1>1. Watchers \subseteq Processes
    BY DEF Processes, Callers
  <1>2. \A v \in Watchers : v # w => pc'[v] = pc[v] /\ mem'[v] = mem[v]
    BY <1>1, GoMoves DEF TypeInv
  <1>3. pc'[w] = where /\ (where # "idle" => mem'[w] = m)
    <2>1. w \in Processes /\ LocalInv
      BY <1>1 DEF TypeInv
    <2>2. pc'[w] = where /\ mem'[w] = IF where = "idle" THEN Blank ELSE m
      BY <2>1 DEF Go, LocalInv
    <2> QED
      BY <2>2
  <1>4. ASSUME NEW v \in Watchers, pc'[v] \in WatchLabels
        PROVE  /\ pc[v] \in WatchLabels /\ mem'[v].row = mem[v].row
               /\ mem'[v].seen # Nothing \/ pc'[v] \in {"measure", "measure late"} => Owing(v)
    <2>1. CASE v = w
      BY <1>3, <1>4, <2>1 DEF WatchLabels
    <2>2. CASE v # w
      BY <1>2, <1>4, <2>2 DEF OpeningInv
    <2> QED
      BY <2>1, <2>2
  <1> QED
    BY <1>4, OpeningKept

\* The one step that starts an owing pass: it reads the row before the opening
\* is booked, and that row names the one address there is.
LEMMA OpeningFind ==
  ASSUME TypeInv, OpeningInv, NEW w \in Watchers, FindTreasury(w)
  PROVE  OpeningInv'
  <1>1. UNCHANGED <<row, entry>> /\ Watchers \subseteq Processes /\ w \in Processes
    BY DEF FindTreasury, estate, Processes, Callers
  <1>2. ~row'.booked => ~row.booked /\ (Found => Found' /\ row'.address = row.address)
    BY <1>1 DEF Found
  <1>3. CASE Go(w, IF mem[w].pin = NoAddress THEN "idle" ELSE "adopt", mem[w])
    BY <1>1, <1>2, <1>3, OpeningIdle DEF WatchLabels
  <1>4. CASE Found /\ Go(w, Resume(w, row), Keep(w, row))
    <2>1. Resume(w, row) = StartWatch(row)
      BY TreasuryAssumption DEF Resume
    <2>2. Keep(w, row).row = row /\ Keep(w, row).seen = Nothing
      <3>1. Keep(w, row) = [Blank EXCEPT !.row = row]
        BY TreasuryAssumption DEF Keep
      <3>2. Blank.seen = Nothing
        BY DEF Blank
      <3> QED
        BY <3>1, <3>2, AbsentType DEF MemType
    <2>3. pc'[w] = StartWatch(row) /\ (StartWatch(row) # "idle" => mem'[w] = Keep(w, row))
      BY <1>1, <1>4, <2>1, GoMoves DEF TypeInv
    <2>4. \A v \in Watchers : v # w => pc'[v] = pc[v] /\ mem'[v] = mem[v]
      BY <1>1, <1>4, GoMoves DEF TypeInv
    <2>5. pc'[w] \in WatchLabels => mem'[w].row = row /\ mem'[w].seen = Nothing
      BY <2>2, <2>3 DEF WatchLabels
    <2>6. pc'[w] # "measure late" /\ (pc'[w] = "measure" => ~row.booked)
      BY <2>3 DEF StartWatch, MeasureFirst, OwesOpening
    <2>7. \A v \in Watchers : pc'[v] \in WatchLabels /\ mem'[v].seen # Nothing => Owing(v)'
      BY <2>4, <2>5 DEF Owing, OpeningInv
    <2>8. \A v \in Watchers : pc'[v] \in {"measure", "measure late"} => Owing(v)'
      <3> SUFFICES ASSUME NEW v \in Watchers, pc'[v] \in {"measure", "measure late"}
                   PROVE  Owing(v)'
        OBVIOUS
      <3>1. CASE v = w
        BY <2>5, <2>6, <3>1 DEF Owing, WatchLabels
      <3>2. CASE v # w
        BY <2>4, <3>2 DEF Owing, OpeningInv
      <3> QED
        BY <3>1, <3>2
    <2>9. \A a \in Addresses : OpenedAt(a)' => OpenedAt(a) \/ (~row.booked /\ a = row.address)
      BY <1>1, <2>4, <2>5 DEF OpenedAt, Owing
    <2>10. \A a, b \in Addresses : OpenedAt(a)' /\ OpenedAt(b)' => a = b
      BY <2>9 DEF OpeningInv
    <2>11. ~row'.booked => \A a \in Addresses : OpenedAt(a)' => Found' /\ a = row'.address
      BY <1>1, <1>4, <2>9 DEF OpeningInv, Found
    <2> QED
      BY <2>7, <2>8, <2>10, <2>11 DEF OpeningInv
  <1> QED
    BY <1>3, <1>4 DEF FindTreasury

LEMMA OpeningStep ==
  ASSUME TypeInv, Steady, OpeningInv, [Next]_vars
  PROVE  OpeningInv'
  <1>0. /\ Callers \subseteq Processes /\ Provisioners \subseteq Processes
        /\ Watchers \subseteq Callers
        /\ Provisioners \cap Watchers = {} /\ Sweepers \cap Watchers = {}
        /\ Payers \cap Watchers = {}
        /\ row \in RowType
        /\ \A c \in Callers : pc[c] = "adopt" => mem[c].pin \in Addresses
        /\ \A o \in Provisioners : pc[o] = "upsert" => mem[o].pin \in Addresses
        /\ NoAddress \notin Addresses
    BY TreasuryAssumption DEF TypeInv, TypeOK, LocalInv, Knows, Processes, Callers
  <1>1. ASSUME NEW c \in Processes, NEW where, NEW m, Go(c, where, m), UNCHANGED <<row, entry>>,
               c \notin Watchers \/ where \notin WatchLabels
        PROVE  OpeningInv'
    BY <1>1, OpeningIdle DEF Found
  <1>2. ASSUME NEW a \in Addresses, NEW k \in Keys, UpsertTreasury(a, k), ~row.booked => pin = a
        PROVE  ~row'.booked => ~row.booked /\ (Found => Found' /\ row'.address = row.address)
    BY <1>0, <1>2, UpsertRow DEF Steady
  <1>3. ASSUME NEW c \in Callers, ReadPin(c) \/ Adopt(c) PROVE OpeningInv'
    <2>1. CASE ReadPin(c)
      BY <2>1, <1>0, <1>1 DEF ReadPin, estate, WatchLabels
    <2>2. CASE Adopt(c)
      <3>1. /\ UpsertTreasury(mem[c].pin, NoAddress) /\ Go(c, "find", mem[c]) /\ entry' = entry
            /\ pc[c] = "adopt"
        BY <2>2 DEF Adopt, estate
      <3>2. mem[c].pin \in Addresses /\ NoAddress \in Keys /\ (~row.booked => pin = mem[c].pin)
        BY <1>0, <3>1 DEF Keys, Steady
      <3>3. ~row'.booked => ~row.booked /\ (Found => Found' /\ row'.address = row.address)
        BY <3>1, <3>2, <1>2
      <3> QED
        BY <1>0, <3>1, <3>3, OpeningIdle DEF WatchLabels
    <2> QED
      BY <1>3, <2>1, <2>2
  <1>4. ASSUME NEW c \in Callers, FindTreasury(c) PROVE OpeningInv'
    <2>1. CASE c \in Watchers
      BY <1>4, <2>1, OpeningFind
    <2>2. CASE c \notin Watchers
      BY <1>0, <1>1, <1>4, <2>2 DEF FindTreasury, estate
    <2> QED
      BY <2>1, <2>2
  <1>5. ASSUME NEW w \in Watchers, Measure(w) \/ MeasureLate(w) PROVE OpeningInv'
    <2>1. PICK next \in {"book", "watch"} : CustodyBalance(w, next)
      BY <1>5 DEF Measure, MeasureLate
    <2>2. UNCHANGED <<row, entry>> /\ pc[w] \in WatchLabels /\ Owing(w)
      BY <1>5 DEF Measure, MeasureLate, estate, WatchLabels, OpeningInv
    <2>3. CASE Go(w, "idle", mem[w])
      BY <1>0, <2>2, <2>3, <1>1 DEF WatchLabels
    <2>4. CASE Go(w, next, [mem[w] EXCEPT !.seen = coin[mem[w].row.address]])
      <3> DEFINE m == [mem[w] EXCEPT !.seen = coin[mem[w].row.address]]
      <3>1. m.row = mem[w].row
        BY <1>0 DEF TypeInv, LocalInv, MemType
      <3>2. Go(w, next, m)
        BY <2>4
      <3>3. \A a \in Addresses : entry'[a] # Nothing => OpenedAt(a)
        BY <2>2 DEF OpenedAt
      <3>4. ~row'.booked => ~row.booked /\ (Found => Found' /\ row'.address = row.address)
        BY <2>2 DEF Found
      <3> HIDE DEF m
      <3> QED
        BY <2>2, <3>1, <3>2, <3>3, <3>4, OpeningPass
    <2> QED
      BY <2>1, <2>3, <2>4 DEF CustodyBalance
  <1>6. ASSUME NEW w \in Watchers, Watch(w) PROVE OpeningInv'
    <2>1. UNCHANGED <<row, entry>> /\ pc[w] = "watch" /\ Go(w, "record", mem[w])
      BY <1>6 DEF Watch
    <2>2. mem[w].seen # Nothing => Owing(w)
      BY <2>1 DEF OpeningInv, WatchLabels
    <2>3. \A a \in Addresses : entry'[a] # Nothing => OpenedAt(a)
      BY <2>1 DEF OpenedAt
    <2> QED
      BY <2>1, <2>2, <2>3, OpeningPass DEF Found, WatchLabels
  <1>7. ASSUME NEW w \in Watchers, RecordWatch(w) PROVE OpeningInv'
    <2> DEFINE where == IF mem[w].seen # Nothing THEN "book"
                        ELSE IF OwesOpening(mem[w].row) THEN "measure late" ELSE "idle"
    <2>1. /\ entry' = entry /\ pc[w] = "record" /\ Go(w, where, mem[w])
          /\ row' = [row EXCEPT !.watched = mem[w].row.address]
      BY <1>7 DEF RecordWatch, estate
    <2>2. Found /\ row.address # NoAddress
      BY <2>1 DEF TypeInv, TypeOK, HasRow, WatchLabels
    <2>3. row'.booked = row.booked /\ row'.address = row.address
      BY <1>0, <2>1 DEF RowType
    <2>4. ~row'.booked => ~row.booked /\ (Found => Found' /\ row'.address = row.address)
      BY <2>2, <2>3 DEF Found, Absent
    <2>5. mem[w].seen # Nothing \/ where \in {"measure", "measure late"} => Owing(w)
      BY <2>1 DEF OpeningInv, OwesOpening, Owing, WatchLabels
    <2>6. \A a \in Addresses : entry'[a] # Nothing => OpenedAt(a)
      BY <2>1 DEF OpenedAt
    <2> HIDE DEF where
    <2> QED
      BY <2>1, <2>4, <2>5, <2>6, OpeningPass DEF WatchLabels
  <1>8. ASSUME NEW w \in Watchers, PostOpening(w) PROVE OpeningInv'
    <2>1. /\ row' = row /\ pc[w] = "book" /\ mem[w].seen > 0 /\ Go(w, "settle", mem[w])
          /\ \/ entry' = [entry EXCEPT ![mem[w].row.address] = mem[w].seen]
             \/ entry' = entry
      BY <1>8 DEF PostOpening
    <2>2. mem[w].seen # Nothing
      BY <2>1 DEF Nothing
    <2>3. Owing(w) /\ OpenedAt(mem[w].row.address)
      BY <2>1, <2>2 DEF OpeningInv, WatchLabels, OpenedAt
    <2>4. \A a \in Addresses : entry'[a] # Nothing => OpenedAt(a)
      <3>1. entry \in [Addresses -> Amount]
        BY DEF TypeInv, TypeOK
      <3> QED
        BY <2>1, <2>3, <3>1 DEF OpenedAt
    <2> QED
      BY <2>1, <2>3, <2>4, OpeningPass DEF Found, WatchLabels
  <1>9. ASSUME NEW w \in Watchers, MarkBooked(w) PROVE OpeningInv'
    <2>1. Go(w, "idle", mem[w]) /\ entry' = entry
      BY <1>9 DEF MarkBooked, estate
    <2>2. row'.booked
      <3>1. CASE row.booked
        BY <1>9, <3>1 DEF MarkBooked
      <3>2. CASE ~row.booked
        BY <1>0, <1>9, <3>2 DEF MarkBooked, RowType
      <3> QED
        BY <3>1, <3>2
    <2> QED
      BY <1>0, <2>1, <2>2, OpeningIdle DEF WatchLabels
  <1>10. ASSUME \/ \E s \in Sweepers : CheckPin(s) \/ Sweep(s)
                \/ \E p \in Payers : Pay(p)
                \/ \E c \in Processes : Fail(c)
         PROVE  OpeningInv'
    BY <1>0, <1>1, <1>10 DEF CheckPin, Sweep, Pay, Fail, estate, Callers, WatchLabels
  <1>11. ASSUME NEW o \in Provisioners, Provision(o) PROVE OpeningInv'
    <2>1. CASE ReadRow(o) \/ MintTreasury(o) \/ PinTreasury(o)
      <3>1. UNCHANGED <<row, entry>> /\ \E where, m : Go(o, where, m)
        BY <2>1 DEF ReadRow, MintTreasury, PinTreasury, estate
      <3> QED
        BY <3>1, <1>0, <1>1
    <2>2. CASE ReadCurrentPin(o)
      BY <2>2, <1>0, <1>1 DEF ReadCurrentPin, estate
    <2>3. CASE RecordTreasury(o)
      <3>1. /\ UpsertTreasury(mem[o].pin, mem[o].pin) /\ Go(o, "idle", mem[o]) /\ entry' = entry
            /\ pc[o] = "upsert"
        BY <2>3 DEF RecordTreasury, estate
      <3>2. mem[o].pin \in Addresses /\ mem[o].pin \in Keys /\ (~row.booked => pin = mem[o].pin)
        BY <1>0, <3>1 DEF Keys, Steady
      <3>3. ~row'.booked => ~row.booked /\ (Found => Found' /\ row'.address = row.address)
        BY <3>1, <3>2, <1>2
      <3> QED
        BY <1>0, <3>1, <3>3, OpeningIdle DEF WatchLabels
    <2> QED
      BY <1>11, <2>1, <2>2, <2>3 DEF Provision
  <1>12. ASSUME Hands \/ UNCHANGED vars PROVE OpeningInv'
    <2>1. UNCHANGED <<row, entry, pc, mem>>
      BY <1>12 DEF Hands, PinByHand, Unpin, MoveBalance, estate, local, vars
    <2> QED
      BY <2>1 DEF OpeningInv, OpenedAt, Owing, Found
  <1> QED
    BY <1>3, <1>4, <1>5, <1>6, <1>7, <1>8, <1>9, <1>10, <1>11, <1>12
    DEF Next, RegisterTreasury, SweepInto, PayFrom, RequireTreasury, Callers

LEMMA OpeningInit == Init => Steady /\ OpeningInv
  <1> SUFFICES ASSUME Init PROVE Steady /\ OpeningInv
    OBVIOUS
  <1>1. \A c \in Processes : pc[c] = "idle"
    BY DEF Init
  <1>2. ~Found /\ Callers \subseteq Processes /\ Provisioners \subseteq Processes
    BY DEF Init, Found, Processes
  <1>3. \A a \in Addresses : ~OpenedAt(a)
    BY <1>1, <1>2 DEF Init, OpenedAt, Owing, WatchLabels, Callers
  <1> QED
    BY <1>1, <1>2, <1>3 DEF Steady, OpeningInv, WatchLabels, Callers

\* While operators replace only a booked treasury, one at a time, one opening
\* is posted at most: for any number of passes at once, of callers that adopt
\* and of executions that die half way.
THEOREM OneOpeningHolds ==
  ASSUME "rotation" \notin Early
  PROVE  Spec => []OneOpening
  <1>1. OpeningInv => OneOpening
    BY DEF OpeningInv, OneOpening, OpenedAt
  <1>2. TypeInv /\ Steady /\ OpeningInv /\ [Next]_vars => Steady' /\ OpeningInv'
    BY SteadyStep, OpeningStep
  <1> QED
    BY <1>1, <1>2, OpeningInit, TypeInit, TypeStep, PTL DEF Spec

(***************************************************************************)
(* The books.  Before the opening is booked no coin moves; what the pass   *)
(* measured, what it posted and what it marks as booked are the same.      *)
(* From then on the ledger books what is at the addresses it knows of, or  *)
(* more while an operator moves it, and never more than there is.          *)
(***************************************************************************)
\* What the ledger knows of: an address derived here starts empty.
Known == custody \cup Fresh

\* What process c carries from one step to the next.
Carries(c) ==
  /\ c \in Watchers /\ pc[c] \in WatchLabels =>
       /\ mem[c].row.booked = row.booked
       /\ row.booked => mem[c].row.address \in Known
       /\ \/ pc[c] \in {"record", "measure late", "book", "settle"}
          \/ pc[c] = "measure" /\ IsWatched(mem[c].row)
          => mem[c].row.address \in custody
       /\ ~row.booked /\ mem[c].seen # Nothing => mem[c].seen = coin[mem[c].row.address]
       /\ ~row.booked /\ pc[c] = "settle" => entry[mem[c].row.address] # Nothing
  /\ c \in Callers /\ pc[c] = "adopt" /\ row.booked => mem[c].pin \in Known
  /\ c \in Sweepers /\ pc[c] = "send" => row.booked /\ mem[c].checked \in Known
  /\ c \in Payers /\ pc[c] = "send" => row.booked /\ mem[c].pin \in Known
  /\ c \in Provisioners /\ pc[c] \in {"pin", "upsert"} => mem[c].pin \in Fresh

\* Until the opening is booked.
Owed ==
  /\ custody \subseteq {row.address}
  /\ \A a \in Fresh : coin[a] = 0
  /\ \A a \in Addresses : entry[a] # Nothing =>
       entry[a] > 0 /\ entry[a] = coin[a] /\ books = deposits + coin[a]
  /\ (\A a \in Addresses : entry[a] = Nothing) => books = deposits

\* And after.
Settled ==
  /\ row.address \in Known
  /\ CoinAt(Known) <= books /\ books <= Held

FloatInv ==
  /\ \A c \in Processes : Carries(c)
  /\ IF row.booked THEN Settled ELSE Owed

(***************************************************************************)
(* Sums of coin.                                                           *)
(***************************************************************************)
LEMMA CoinTotal == ASSUME NEW S PROVE CoinAt(S) = deposits + Total(coin, S)
  BY DEF CoinAt, Total

\* Only the coin and the deposits matter.
LEMMA CoinKept ==
  ASSUME UNCHANGED <<coin, deposits>>, NEW S PROVE deposits' + Total(coin', S) = CoinAt(S)
  BY CoinTotal

LEMMA CoinType ==
  ASSUME TypeInv
  PROVE  /\ IsFiniteSet(Addresses) /\ Known \subseteq Addresses
         /\ coin \in [Addresses -> Nat] /\ deposits \in Nat /\ books \in Int
         /\ \A S \in SUBSET Addresses :
              IsFiniteSet(S) /\ Total(coin, S) \in Nat /\ Total(coin, S) <= Total(coin, Addresses)
              /\ \A a \in S : coin[a] <= Total(coin, S)
  <1>1. /\ IsFiniteSet(Addresses) /\ Known \subseteq Addresses
        /\ coin \in [Addresses -> Nat] /\ deposits \in Nat /\ books \in Int
    BY TreasuryAssumption DEF TypeInv, TypeOK, Known, Addresses
  <1>2. ASSUME NEW S \in SUBSET Addresses
        PROVE  /\ IsFiniteSet(S) /\ Total(coin, S) \in Nat
               /\ Total(coin, S) <= Total(coin, Addresses)
               /\ \A a \in S : coin[a] <= Total(coin, S)
    <2>1. IsFiniteSet(S)
      BY <1>1, FS_Subset
    <2>2. \A a \in Addresses : coin[a] \in Nat
      BY <1>1
    <2>3. Total(coin, S) \in Int /\ Total(coin, S) >= 0
      BY <2>1, <2>2, TotalType, TotalGrows
    <2>4. Total(coin, S) <= Total(coin, Addresses)
      BY <1>1, <2>2, TotalGrows
    <2>5. ASSUME NEW a \in S PROVE coin[a] <= Total(coin, S)
      <3>1. {a} \in SUBSET S /\ coin[a] \in Int
        BY <2>2
      <3>2. Total(coin, {a}) = coin[a]
        BY <3>1, TotalSingle
      <3>3. Total(coin, {a}) <= Total(coin, S)
        BY <2>1, <2>2, <3>1, TotalGrows
      <3> QED
        BY <3>2, <3>3
    <2> QED
      BY <2>1, <2>3, <2>4, <2>5
  <1> QED
    BY <1>1, <1>2

\* Coin that comes to or leaves one address.
LEMMA CoinChange ==
  ASSUME TypeInv, NEW a \in Addresses, NEW n \in Nat, coin' = [coin EXCEPT ![a] = n],
         NEW S \in SUBSET Addresses
  PROVE  Total(coin', S) = Total(coin, S) + IF a \in S THEN n - coin[a] ELSE 0
  <1> DEFINE e == [coin EXCEPT ![a] = n]
  <1>1. IsFiniteSet(S) /\ coin \in [Addresses -> Nat] /\ Total(coin, S) \in Nat
    BY CoinType
  <1>2. DifferAt(e, coin, S, a)
    BY <1>1 DEF DifferAt
  <1>3. e[a] = n
    BY <1>1
  <1> HIDE DEF e
  <1>4. CASE a \in S
    <2>1. Total(e, S) = Total(coin, S) + e[a] - coin[a]
      BY <1>1, <1>2, <1>4, TotalChange
    <2> QED
      BY <1>1, <1>3, <1>4, <2>1 DEF e
  <1>5. CASE a \notin S
    <2>1. \A y \in S : coin[y] \in Int /\ e[y] = coin[y]
      BY <1>2, <1>5 DEF DifferAt
    <2>2. Total(e, S) = Total(coin, S)
      BY <1>1, <2>1, TotalAgrees
    <2> QED
      BY <1>1, <1>5, <2>2 DEF e
  <1> QED
    BY <1>4, <1>5

\* A balance that is moved stays in the whole, and in a part that holds both
\* ends.
LEMMA CoinMoved ==
  ASSUME TypeInv, NEW a \in Addresses, NEW b \in Addresses, a # b,
         coin' = [coin EXCEPT ![a] = 0, ![b] = @ + coin[a]],
         NEW S \in SUBSET Addresses, a \in S
  PROVE  Total(coin', S) = Total(coin, S) - IF b \in S THEN 0 ELSE coin[a]
  <1> DEFINE e == [coin EXCEPT ![a] = 0, ![b] = @ + coin[a]]
  <1>1. IsFiniteSet(S) /\ coin \in [Addresses -> Nat]
    BY CoinType
  <1>2. e[a] = 0 /\ e[b] = coin[b] + coin[a] /\ coin[a] \in Int
    BY <1>1
  <1>3. DifferAt(e, coin, S \ {a}, b)
    BY <1>1 DEF DifferAt
  <1> HIDE DEF e
  <1>4. Total(e, S) = Total(coin, S) - IF b \in S THEN 0 ELSE coin[a]
    BY <1>1, <1>2, <1>3, TotalMoved
  <1> QED
    BY <1>4 DEF e

LEMMA CoinNext ==
  /\ CoinAt(Known)' = deposits' + Total(coin', Known')
  /\ Held' = deposits' + Total(coin', Addresses)
  BY DEF CoinAt, Total, Held, FoldFunctionOnSet, MapThenFoldSet

(***************************************************************************)
(* What a step leaves alone.                                               *)
(***************************************************************************)
LEMMA Roles ==
  /\ Callers \subseteq Processes /\ Provisioners \subseteq Processes
  /\ Watchers \subseteq Callers /\ Sweepers \subseteq Callers /\ Payers \subseteq Callers
  /\ \A c \in Watchers : c \notin Sweepers /\ c \notin Payers /\ c \notin Provisioners
  /\ \A c \in Sweepers : c \notin Watchers /\ c \notin Payers /\ c \notin Provisioners
  /\ \A c \in Payers : c \notin Watchers /\ c \notin Sweepers /\ c \notin Provisioners
  /\ \A c \in Provisioners : c \notin Callers
  /\ NoAddress \notin Addresses
  BY TreasuryAssumption DEF Callers, Processes

\* Labels where a process has nothing that matters to the books.
Quiet == {"idle", "find", "checked", "current", "mint"}

LEMMA QuietCarries == ASSUME NEW c \in Processes, pc'[c] \in Quiet PROVE Carries(c)'
  BY DEF Carries, Quiet, WatchLabels

LEMMA CarriesKept ==
  ASSUME NEW c \in Processes, Carries(c), pc'[c] = pc[c], mem'[c] = mem[c],
         row'.booked = row.booked, custody \subseteq custody',
         ~row.booked => coin' = coin /\ \A a : entry[a] # Nothing => entry'[a] # Nothing
  PROVE  Carries(c)'
  BY DEF Carries, Known

\* A step of c that keeps what the others carry.
LEMMA OthersCarry ==
  ASSUME TypeInv, FloatInv, NEW c \in Processes, NEW where, NEW m, Go(c, where, m),
         where \in Quiet \/ Carries(c)',
         row'.booked = row.booked, custody \subseteq custody',
         ~row.booked => coin' = coin /\ \A a : entry[a] # Nothing => entry'[a] # Nothing
  PROVE  \A d \in Processes : Carries(d)'
  <1>1. LocalInv /\ \A d \in Processes : Carries(d)
    BY DEF TypeInv, FloatInv
  <1>2. pc'[c] = where /\ \A d \in Processes : d # c => pc'[d] = pc[d] /\ mem'[d] = mem[d]
    BY <1>1, GoMoves
  <1>3. Carries(c)'
    BY <1>2, QuietCarries
  <1>4. ASSUME NEW d \in Processes, d # c PROVE Carries(d)'
    BY <1>1, <1>2, <1>4, CarriesKept
  <1> QED
    BY <1>3, <1>4

\* A row that names what the ledger knows of, while nothing else moves.
LEMMA AccountsKept ==
  ASSUME TypeInv, FloatInv, UNCHANGED <<custody, entry, books, coin, deposits>>,
         row'.booked = row.booked,
         row.booked => row'.address \in Known,
         ~row.booked /\ Found => row'.address = row.address
  PROVE  IF row'.booked THEN Settled' ELSE Owed'
  <1>1. CASE row.booked
    <2>1. CoinAt(Known)' = CoinAt(Known) /\ Held' = Held /\ Known' = Known
      BY CoinNext, CoinTotal DEF Held, Known
    <2> QED
      BY <1>1, <2>1 DEF FloatInv, Settled
  <1>2. CASE ~row.booked
    <2>1. custody \subseteq {row'.address}
      <3>1. CASE Found
        BY <1>2, <3>1 DEF FloatInv, Owed
      <3>2. CASE ~Found
        <4>1. row.address = NoAddress /\ custody \subseteq {row.address}
          BY <1>2, <3>2 DEF Found, Absent, FloatInv, Owed
        <4>2. custody = {}
          BY <4>1, Roles DEF TypeInv, TypeOK
        <4> QED
          BY <4>2
      <3> QED
        BY <3>1, <3>2
    <2> QED
      BY <1>2, <2>1 DEF FloatInv, Owed
  <1> QED
    BY <1>1, <1>2

\* The steps that only read, or only write the row.
LEMMA FloatRow ==
  ASSUME TypeInv, FloatInv, NEW c \in Processes, NEW where, NEW m, Go(c, where, m),
         where \in Quiet \/ Carries(c)',
         UNCHANGED <<custody, entry, books, coin, deposits>>,
         row'.booked = row.booked,
         row.booked => row'.address \in Known,
         ~row.booked /\ Found => row'.address = row.address
  PROVE  FloatInv'
  <1>1. \A d \in Processes : Carries(d)'
    BY OthersCarry
  <1>2. IF row'.booked THEN Settled' ELSE Owed'
    BY AccountsKept
  <1> QED
    BY <1>1, <1>2 DEF FloatInv

LEMMA FloatRead ==
  ASSUME TypeInv, FloatInv, NEW c \in Processes, NEW where, NEW m, Go(c, where, m),
         where \in Quiet \/ Carries(c)',
         UNCHANGED <<row, custody, entry, books, coin, deposits>>
  PROVE  FloatInv'
  <1>1. row.booked => row.address \in Known
    BY DEF FloatInv, Settled
  <1> QED
    BY <1>1, FloatRow

(***************************************************************************)
(* One step of each kind.                                                  *)
(***************************************************************************)
LEMMA FloatFind ==
  ASSUME Early = {}, TypeInv, RecordInv, FloatInv, NEW c \in Callers, FindTreasury(c)
  PROVE  FloatInv'
  <1>1. UNCHANGED <<row, custody, entry, books, coin, deposits>> /\ c \in Processes
    BY Roles DEF FindTreasury, estate
  <1>2. LocalInv /\ row \in RowType /\ mem[c] \in MemType
    BY <1>1 DEF TypeInv, TypeOK, LocalInv
  <1>3. CASE Go(c, IF mem[c].pin = NoAddress THEN "idle" ELSE "adopt", mem[c]) /\ ~Found
    <2> DEFINE where == IF mem[c].pin = NoAddress THEN "idle" ELSE "adopt"
    <2>1. pc'[c] = where
      BY <1>1, <1>2, <1>3, GoMoves
    <2>2. ~row'.booked
      BY <1>1, <1>3 DEF Found, Absent
    <2>3. where \in Quiet \/ Carries(c)'
      BY <2>1, <2>2, Roles DEF Carries, Quiet, WatchLabels
    <2> HIDE DEF where
    <2> QED
      BY <1>1, <1>3, <2>3, FloatRead DEF where
  <1>4. CASE Go(c, Resume(c, row), Keep(c, row)) /\ Found
    <2> DEFINE where == Resume(c, row)
               m     == Keep(c, row)
    <2>1. pc'[c] = where /\ (where # "idle" => mem'[c] = m)
      BY <1>1, <1>2, <1>4, GoMoves
    <2>2. row.address # NoAddress /\ (row.booked => row.address \in Known) /\ Known' = Known
      BY <1>1, <1>4 DEF TypeInv, TypeOK, FloatInv, Settled, Known
    <2>3. where \in Quiet \/ Carries(c)'
      <3>1. CASE c \in Watchers
        <4>1. where \in {"idle", "measure", "watch"} /\ m = [Blank EXCEPT !.row = row]
          BY <3>1, Roles DEF Resume, StartWatch, Keep
        <4>2. m.row = row /\ m.seen = Nothing
          <5>1. Blank.seen = Nothing
            BY DEF Blank
          <5> QED
            BY <4>1, <5>1, AbsentType DEF MemType
        <4>3. IsWatched(row) => row.address \in custody
          BY <2>2 DEF IsWatched, RecordInv, WatchedIsRecorded
        <4> HIDE DEF where, m
        <4>4. CASE where = "idle"
          BY <4>4 DEF Quiet
        <4>5. CASE where \in {"measure", "watch"}
          <5>1. mem'[c].row = row /\ mem'[c].seen = Nothing /\ pc'[c] \in {"measure", "watch"}
            BY <2>1, <4>2, <4>5
          <5> QED
            BY <1>1, <2>2, <3>1, <4>3, <5>1, Roles DEF Carries, WatchLabels, IsWatched
        <4> QED
          BY <4>1, <4>4, <4>5
      <3>2. CASE c \in Sweepers
        <4>1. /\ where = IF Sweepable(mem[c].checked, row) THEN "send" ELSE "idle"
              /\ m = [Blank EXCEPT !.checked = mem[c].checked]
          BY <3>2, Roles DEF Resume, Keep
        <4>2. m.checked = mem[c].checked
          BY <4>1, AbsentType DEF MemType
        <4>3. row.watched # NoAddress
          BY <1>4, <3>2 DEF FindTreasury, Timely
        <4>4. CASE Sweepable(mem[c].checked, row)
          <5>1. row.booked /\ mem[c].checked = row.address
            BY <1>2, <4>3, <4>4 DEF Sweepable, NotBooked, RowType
          <5>2. pc'[c] = "send" /\ mem'[c].checked = row.address
            BY <2>1, <4>1, <4>2, <4>4, <5>1
          <5> QED
            BY <1>1, <2>2, <3>2, <5>1, <5>2, Roles DEF Carries, WatchLabels
        <4>5. CASE ~Sweepable(mem[c].checked, row)
          BY <4>1, <4>5 DEF Quiet
        <4> QED
          BY <4>4, <4>5
      <3>3. CASE c \in Payers
        <4>1. where = "send" /\ m = [Blank EXCEPT !.pin = row.address]
          BY <3>3, Roles DEF Resume, Keep
        <4>2. m.pin = row.address
          BY <4>1, AbsentType DEF MemType
        <4>3. row.booked
          BY <1>4, <3>3 DEF FindTreasury, Timely
        <4>4. pc'[c] = "send" /\ mem'[c].pin = row.address
          BY <2>1, <4>1, <4>2
        <4> QED
          BY <1>1, <2>2, <3>3, <4>3, <4>4, Roles DEF Carries, WatchLabels
      <3> QED
        BY <3>1, <3>2, <3>3 DEF Callers
    <2>4. Go(c, where, m)
      BY <1>4
    <2> HIDE DEF where, m
    <2> QED
      BY <1>1, <2>3, <2>4, FloatRead
  <1> QED
    BY <1>3, <1>4 DEF FindTreasury

\* An adoption brings back the pin the row was made of, or one the ledger
\* knows of since.
LEMMA FloatAdopt ==
  ASSUME TypeInv, Steady, FloatInv, NEW c \in Callers, Adopt(c)
  PROVE  FloatInv'
  <1> DEFINE a == mem[c].pin
  <1>1. /\ c \in Processes /\ row \in RowType /\ a \in Addresses /\ NoAddress \in Keys
        /\ pc[c] = "adopt"
    BY Roles DEF Adopt, TypeInv, TypeOK, LocalInv, Knows, Keys
  <1>2. /\ Go(c, "find", mem[c]) /\ UNCHANGED <<custody, entry, books, coin, deposits>>
        /\ UpsertTreasury(a, NoAddress)
    BY DEF Adopt, estate
  <1>3. row'.address = a /\ row'.booked = row.booked
    BY <1>1, <1>2, UpsertRow
  <1>4. row.booked => a \in Known
    BY <1>1 DEF FloatInv, Carries
  <1>5. ~row.booked /\ Found => a = row.address
    BY <1>1, Roles DEF Steady
  <1> QED
    BY <1>1, <1>2, <1>3, <1>4, <1>5, FloatRow DEF Quiet

\* A provisioned row names an address that was derived here.
LEMMA FloatProvision ==
  ASSUME TypeInv, Steady, FloatInv, NEW o \in Provisioners, Provision(o)
  PROVE  FloatInv'
  <1>1. /\ o \in Processes /\ row \in RowType /\ LocalInv /\ o \notin Callers
        /\ mem[o] \in MemType
    BY Roles DEF TypeInv, TypeOK, LocalInv
  <1>2. ASSUME NEW where \in Quiet, NEW m, Go(o, where, m),
               UNCHANGED <<row, custody, entry, books, coin, deposits>>
        PROVE  FloatInv'
    BY <1>1, <1>2, FloatRead
  <1>3. CASE ReadRow(o)
    BY <1>2, <1>3 DEF ReadRow, estate, Quiet
  <1>4. CASE ReadCurrentPin(o)
    BY <1>2, <1>4 DEF ReadCurrentPin, estate, Quiet
  <1>5. CASE MintTreasury(o)
    <2>1. PICK a : Go(o, "pin", [mem[o] EXCEPT !.pin = a]) /\ a = CHOOSE x \in Candidates : TRUE
      BY <1>5 DEF MintTreasury
    <2>2. a \in Fresh
      BY <1>5, <2>1 DEF MintTreasury, Candidates, Outstanding, TypeInv, TypeOK
    <2>3. pc'[o] = "pin" /\ mem'[o].pin = a
      BY <1>1, <2>1, GoMoves DEF MemType
    <2>4. Carries(o)'
      BY <1>1, <2>2, <2>3, Roles DEF Carries
    <2>5. UNCHANGED <<row, custody, entry, books, coin, deposits>>
      BY <1>5 DEF MintTreasury, estate
    <2> QED
      BY <1>1, <2>1, <2>4, <2>5, FloatRead
  <1>6. CASE PinTreasury(o)
    <2>1. /\ pc[o] = "pin" /\ Go(o, "upsert", mem[o])
          /\ UNCHANGED <<row, custody, entry, books, coin, deposits>>
      BY <1>6 DEF PinTreasury, estate
    <2>2. pc'[o] = "upsert" /\ mem'[o] = mem[o]
      BY <1>1, <2>1, GoMoves
    <2>3. mem[o].pin \in Fresh
      BY <1>1, <2>1 DEF FloatInv, Carries
    <2>4. Carries(o)'
      BY <1>1, <2>2, <2>3, Roles DEF Carries
    <2> QED
      BY <1>1, <2>1, <2>4, FloatRead
  <1>7. CASE RecordTreasury(o)
    <2> DEFINE a == mem[o].pin
    <2>1. /\ pc[o] = "upsert" /\ Go(o, "idle", mem[o]) /\ UpsertTreasury(a, a)
          /\ UNCHANGED <<custody, entry, books, coin, deposits>>
      BY <1>7 DEF RecordTreasury, estate
    <2>2. a \in Fresh
      BY <1>1, <2>1 DEF FloatInv, Carries
    <2>3. a \in Addresses /\ a \in Keys /\ a \in Known
      BY <2>2 DEF Addresses, Keys, Known
    <2>4. row'.address = a /\ row'.booked = row.booked
      BY <1>1, <2>1, <2>3, UpsertRow
    <2>5. ~row.booked /\ Found => a = row.address
      BY <2>1 DEF Steady
    <2> QED
      BY <1>1, <2>1, <2>3, <2>4, <2>5, FloatRow DEF Quiet
  <1> QED
    BY <1>3, <1>4, <1>5, <1>6, <1>7 DEF Provision

\* What an opening is posted for while it is owed.
LEMMA OwedAddress ==
  ASSUME TypeInv, OpeningInv, FloatInv, NEW w \in Watchers, pc[w] \in WatchLabels, ~row.booked
  PROVE  /\ Found /\ mem[w].row.address = row.address
         /\ \A b \in Addresses : entry[b] # Nothing => b = row.address
  <1>1. ~mem[w].row.booked /\ mem[w].row.address \in Addresses
    BY Roles DEF FloatInv, Carries, TypeInv, LocalInv, Knows
  <1>2. OpenedAt(mem[w].row.address)
    BY <1>1 DEF OpenedAt, Owing
  <1> QED
    BY <1>1, <1>2 DEF OpeningInv, OpenedAt

LEMMA FloatMeasure ==
  ASSUME TypeInv, FloatInv, NEW w \in Watchers, Measure(w) \/ MeasureLate(w)
  PROVE  FloatInv'
  <1> DEFINE a == mem[w].row.address
             m == [mem[w] EXCEPT !.seen = coin[a]]
  <1>1. /\ w \in Processes /\ LocalInv /\ mem[w] \in MemType /\ pc[w] \in {"measure", "measure late"}
        /\ UNCHANGED <<row, custody, entry, books, coin, deposits>>
    BY Roles DEF Measure, MeasureLate, estate, TypeInv, LocalInv
  <1>2. PICK next \in {"book", "watch"} :
          CustodyBalance(w, next) /\ (next = "book" => a \in custody)
    <2>1. pc[w] = "measure late" \/ IsWatched(mem[w].row) => a \in custody
      BY <1>1 DEF FloatInv, Carries, WatchLabels
    <2> QED
      BY <2>1 DEF Measure, MeasureLate
  <1>3. m.row = mem[w].row /\ m.seen = coin[a]
    BY <1>1 DEF MemType
  <1> HIDE DEF m
  <1>4. CASE Go(w, "idle", mem[w])
    BY <1>1, <1>4, FloatRead DEF Quiet
  <1>5. CASE Go(w, next, m)
    <2>1. pc'[w] = next /\ mem'[w] = m
      BY <1>1, <1>2, <1>5, GoMoves
    <2>2. /\ mem[w].row.booked = row.booked
          /\ row.booked => a \in Known
      BY <1>1 DEF FloatInv, Carries, WatchLabels
    <2>3. Known' = Known
      BY <1>1 DEF Known
    <2>4. Carries(w)'
      BY <1>1, <1>2, <1>3, <2>1, <2>2, <2>3, Roles DEF Carries, WatchLabels
    <2> QED
      BY <1>1, <1>5, <2>4, FloatRead
  <1> QED
    BY <1>2, <1>4, <1>5 DEF CustodyBalance, m

\* The address of a watch is the one the opening is owed for, or one the
\* ledger knows of.
LEMMA FloatWatch ==
  ASSUME TypeInv, OpeningInv, FloatInv, NEW w \in Watchers, Watch(w)
  PROVE  FloatInv'
  <1> DEFINE a == mem[w].row.address
  <1>1. /\ w \in Processes /\ LocalInv /\ pc[w] = "watch" /\ pc[w] \in WatchLabels
        /\ Go(w, "record", mem[w])
        /\ custody' = custody \cup {a}
        /\ UNCHANGED <<row, entry, books, coin, deposits>>
    BY Roles DEF Watch, TypeInv, WatchLabels
  <1>2. /\ mem[w].row.booked = row.booked
        /\ row.booked => a \in Known
        /\ ~row.booked /\ mem[w].seen # Nothing => mem[w].seen = coin[a]
    BY <1>1 DEF FloatInv, Carries
  <1>3. Carries(w)'
    <2>1. pc'[w] = "record" /\ mem'[w] = mem[w]
      BY <1>1, GoMoves
    <2>2. a \in custody' /\ custody' \subseteq Known'
      BY <1>1 DEF Known
    <2> QED
      BY <1>1, <1>2, <2>1, <2>2, Roles DEF Carries
  <1>4. \A d \in Processes : Carries(d)'
    BY <1>1, <1>3, OthersCarry
  <1>5. CASE row.booked
    <2>1. Known' = Known
      BY <1>1, <1>2, <1>5 DEF Known
    <2>2. CoinAt(Known)' = CoinAt(Known) /\ Held' = Held
      BY <1>1, <2>1, CoinNext, CoinTotal DEF Held
    <2>3. Settled'
      BY <1>1, <1>5, <2>1, <2>2 DEF FloatInv, Settled
    <2> QED
      BY <1>1, <1>4, <1>5, <2>3 DEF FloatInv
  <1>6. CASE ~row.booked
    <2>1. a = row.address
      BY <1>1, <1>6, OwedAddress
    <2>2. Owed'
      BY <1>1, <1>6, <2>1 DEF FloatInv, Owed
    <2> QED
      BY <1>1, <1>4, <1>6, <2>2 DEF FloatInv
  <1> QED
    BY <1>5, <1>6

LEMMA FloatRecord ==
  ASSUME TypeInv, FloatInv, NEW w \in Watchers, RecordWatch(w)
  PROVE  FloatInv'
  <1> DEFINE a == mem[w].row.address
             where == IF mem[w].seen # Nothing THEN "book"
                      ELSE IF OwesOpening(mem[w].row) THEN "measure late" ELSE "idle"
  <1>1. /\ w \in Processes /\ LocalInv /\ pc[w] = "record"
        /\ Go(w, where, mem[w])
        /\ UNCHANGED <<custody, entry, books, coin, deposits>>
        /\ row \in RowType /\ row' = [row EXCEPT !.watched = a]
    BY Roles DEF RecordWatch, TypeInv, TypeOK, estate
  <1>2. row'.booked = row.booked /\ row'.address = row.address
    BY <1>1 DEF RowType
  <1>3. /\ mem[w].row.booked = row.booked /\ a \in custody
        /\ ~row.booked /\ mem[w].seen # Nothing => mem[w].seen = coin[a]
    BY <1>1 DEF FloatInv, Carries, WatchLabels
  <1>4. where \in Quiet \/ Carries(w)'
    <2>1. pc'[w] = where /\ where \in {"idle", "measure late", "book"}
      BY <1>1, GoMoves
    <2> HIDE DEF where
    <2>2. CASE where # "idle"
      <3>1. mem'[w] = mem[w]
        BY <1>1, <2>2, GoMoves
      <3>2. a \in Known'
        BY <1>1, <1>3 DEF Known
      <3> QED
        BY <1>1, <1>2, <1>3, <2>1, <2>2, <3>1, <3>2, Roles DEF Carries
    <2> QED
      BY <2>2 DEF Quiet
  <1>5. row.booked => row'.address \in Known
    BY <1>2 DEF FloatInv, Settled
  <1> HIDE DEF where
  <1> QED
    BY <1>1, <1>2, <1>4, <1>5, FloatRow

\* The one posting enters what is at the treasury, on books that hold no more
\* than the deposits.
LEMMA Posting ==
  ASSUME TypeInv, OpeningInv, FloatInv, NEW w \in Watchers, PostOpening(w),
         entry[mem[w].row.address] = Nothing
  PROVE  LET a == mem[w].row.address IN
         /\ ~row.booked /\ a = row.address /\ a \in Addresses
         /\ books = deposits /\ coin[a] > 0
         /\ books' = deposits + coin[a] /\ entry' = [entry EXCEPT ![a] = coin[a]]
         /\ \A b \in Addresses : entry[b] = Nothing
  <1> DEFINE a == mem[w].row.address
  <1>1. /\ w \in Processes /\ pc[w] = "book" /\ pc[w] \in WatchLabels /\ mem[w].seen > 0
        /\ entry' = [entry EXCEPT ![a] = mem[w].seen] /\ books' = books + mem[w].seen
    BY Roles DEF PostOpening, WatchLabels
  <1>2. mem[w].seen # Nothing
    BY <1>1 DEF Nothing
  <1>3. mem[w].row.booked = row.booked /\ (~row.booked => mem[w].seen = coin[a])
    BY <1>1, <1>2 DEF FloatInv, Carries
  <1>4. ~row.booked
    BY <1>1, <1>2, <1>3 DEF OpeningInv, Owing
  <1>5. a = row.address /\ a \in Addresses /\ \A b \in Addresses : entry[b] # Nothing => b = a
    BY <1>1, <1>4, Roles, OwedAddress DEF TypeInv, LocalInv, Knows
  <1>6. \A b \in Addresses : entry[b] = Nothing
    BY <1>5
  <1>7. books = deposits
    BY <1>4, <1>6 DEF FloatInv, Owed
  <1> QED
    BY <1>1, <1>3, <1>4, <1>5, <1>6, <1>7

LEMMA FloatPost ==
  ASSUME TypeInv, OpeningInv, FloatInv, NEW w \in Watchers, PostOpening(w)
  PROVE  FloatInv'
  <1> DEFINE a == mem[w].row.address
  <1>1. /\ w \in Processes /\ LocalInv /\ pc[w] = "book" /\ mem[w].seen > 0
        /\ Go(w, "settle", mem[w])
        /\ UNCHANGED <<row, custody, coin, deposits>>
        /\ a \in Addresses /\ entry \in [Addresses -> Amount] /\ coin \in [Addresses -> Nat]
    BY Roles DEF PostOpening, TypeInv, TypeOK, LocalInv, Knows, WatchLabels
  <1>2. /\ mem[w].row.booked = row.booked /\ a \in custody
        /\ row.booked => a \in Known
        /\ ~row.booked /\ mem[w].seen # Nothing => mem[w].seen = coin[a]
    BY <1>1 DEF FloatInv, Carries, WatchLabels
  <1>3. pc'[w] = "settle" /\ mem'[w] = mem[w] /\ Known' = Known
    BY <1>1, GoMoves DEF Known
  <1>4. CASE entry[a] # Nothing
    <2>1. UNCHANGED <<entry, books>>
      BY <1>4 DEF PostOpening
    <2>2. Carries(w)'
      BY <1>1, <1>2, <1>3, <1>4, <2>1, Roles DEF Carries
    <2> QED
      BY <1>1, <2>1, <2>2, FloatRead
  <1>5. CASE entry[a] = Nothing
    <2>1. /\ ~row.booked /\ coin[a] > 0 /\ entry' = [entry EXCEPT ![a] = coin[a]]
          /\ books' = deposits + coin[a]
          /\ \A b \in Addresses : entry[b] = Nothing
      BY <1>5, Posting
    <2>2. entry'[a] = coin[a] /\ entry'[a] # Nothing
          /\ \A b \in Addresses : b # a => entry'[b] = Nothing
      BY <1>1, <2>1 DEF Nothing
    <2>3. Carries(w)'
      BY <1>1, <1>2, <1>3, <2>1, <2>2, Roles DEF Carries
    <2>4. \A d \in Processes : Carries(d)'
      <3>1. ASSUME NEW d \in Processes, d # w PROVE Carries(d)'
        <4>1. Carries(d) /\ pc'[d] = pc[d] /\ mem'[d] = mem[d]
          BY <1>1, <3>1, GoMoves DEF FloatInv
        <4>2. d \in Watchers /\ pc[d] = "settle" => entry'[mem[d].row.address] # Nothing
          <5>1. d \in Watchers /\ pc[d] = "settle" => mem[d].row.address \in Addresses
            BY <3>1, Roles DEF TypeInv, LocalInv, Knows, WatchLabels
          <5>2. d \in Watchers /\ pc[d] = "settle" => entry[mem[d].row.address] # Nothing
            BY <2>1, <4>1 DEF Carries, WatchLabels
          <5> QED
            BY <2>1, <5>1, <5>2
        <4> QED
          BY <1>1, <1>3, <4>1, <4>2 DEF Carries
      <3> QED
        BY <2>3, <3>1
    <2>5. Owed'
      <3>1. custody' \subseteq {row'.address} /\ \A b \in Fresh : coin'[b] = 0
        BY <1>1, <2>1 DEF FloatInv, Owed
      <3>2. \A b \in Addresses : entry'[b] # Nothing =>
              entry'[b] > 0 /\ entry'[b] = coin'[b] /\ books' = deposits' + coin'[b]
        BY <1>1, <2>1, <2>2
      <3>3. ~\A b \in Addresses : entry'[b] = Nothing
        BY <1>1, <2>2
      <3> QED
        BY <3>1, <3>2, <3>3 DEF Owed
    <2> QED
      BY <1>1, <2>1, <2>4, <2>5 DEF FloatInv
  <1> QED
    BY <1>4, <1>5

\* What is marked as booked is what the books hold beyond the deposits.
LEMMA FloatMark ==
  ASSUME \A v, w \in Watchers : v = w,
         TypeInv, Steady, OpeningInv, FloatInv, NEW w \in Watchers, MarkBooked(w)
  PROVE  FloatInv'
  <1> DEFINE a == mem[w].row.address
  <1>1. /\ w \in Processes /\ LocalInv /\ row \in RowType /\ pc[w] \in WatchLabels
        /\ Go(w, "idle", mem[w])
        /\ UNCHANGED <<custody, entry, books, coin, deposits>>
        /\ a \in Addresses /\ coin \in [Addresses -> Nat]
    BY Roles DEF MarkBooked, TypeInv, TypeOK, LocalInv, Knows, WatchLabels, estate
  <1>2. CASE row.booked
    <2>1. row' = row
      BY <1>2 DEF MarkBooked
    <2> QED
      BY <1>1, <2>1, FloatRead DEF Quiet
  <1>3. CASE ~row.booked
    <2>1. Found /\ a = row.address /\ \A b \in Addresses : entry[b] # Nothing => b = a
      BY <1>1, <1>3, OwedAddress
    <2>2. row'.booked /\ row'.address = a /\ Known' = Known
      BY <1>1, <1>3, <2>1 DEF MarkBooked, RowType, Known
    <2>3. a \in custody /\ custody \subseteq {a} /\ \A b \in Fresh : coin[b] = 0
      BY <1>1, <1>3, <2>1 DEF MarkBooked, FloatInv, Carries, Owed
    <2>4. books = deposits + coin[a]
      <3>1. CASE pc[w] = "settle"
        <4>1. entry[a] # Nothing
          BY <1>1, <1>3, <3>1 DEF FloatInv, Carries
        <4> QED
          BY <1>1, <1>3, <4>1 DEF FloatInv, Owed
      <3>2. CASE mem[w].seen = 0
        <4>1. coin[a] = 0
          <5>1. mem[w].seen # Nothing
            BY <3>2 DEF Nothing
          <5>2. mem[w].seen = coin[a]
            BY <1>1, <1>3, <5>1 DEF FloatInv, Carries
          <5> QED
            BY <3>2, <5>2
        <4>2. \A b \in Addresses : entry[b] = Nothing
          BY <1>3, <2>1, <4>1 DEF FloatInv, Owed
        <4>3. books = deposits /\ deposits \in Nat
          BY <1>3, <4>2, CoinType DEF FloatInv, Owed
        <4> QED
          BY <4>1, <4>3
      <3> QED
        BY <3>1, <3>2 DEF MarkBooked
    <2>5. Total(coin, Known) = coin[a]
      <3>1. {a} \in SUBSET Known /\ \A b \in Known \ {a} : coin[b] = 0
        BY <2>3 DEF Known
      <3>2. IsFiniteSet(Known) /\ \A b \in Known : coin[b] \in Int
        BY CoinType
      <3>3. Total(coin, {a}) = Total(coin, Known)
        BY <3>1, <3>2, TotalSupport
      <3>4. coin[a] \in Int
        BY <1>1
      <3>5. Total(coin, {a}) = coin[a]
        BY <3>4, TotalSingle
      <3> QED
        BY <3>3, <3>5
    <2>6. Settled'
      <3>1. Total(coin, Known) <= Total(coin, Addresses) /\ deposits \in Nat
            /\ Total(coin, Known) \in Nat /\ Total(coin, Addresses) \in Nat
        BY CoinType
      <3>2. CoinAt(Known)' = deposits + Total(coin, Known)
            /\ Held' = deposits + Total(coin, Addresses)
        BY <1>1, <2>2, CoinNext
      <3>3. row'.address \in Known'
        BY <2>2, <2>3 DEF Known
      <3> QED
        BY <1>1, <2>4, <2>5, <3>1, <3>2, <3>3 DEF Settled
    <2>7. \A d \in Processes : Carries(d)'
      <3>1. ASSUME NEW d \in Processes, d # w PROVE Carries(d)'
        <4>1. Carries(d) /\ pc'[d] = pc[d] /\ mem'[d] = mem[d] /\ d \notin Watchers
          BY <1>1, <3>1, GoMoves DEF FloatInv
        <4>2. d \in Callers /\ pc[d] = "adopt" => mem[d].pin \in Known
          <5>1. d \in Callers /\ pc[d] = "adopt" => mem[d].pin = row.address
            <6>1. d \in Callers /\ pc[d] = "adopt" => mem[d].pin \in Addresses
              BY <3>1 DEF TypeInv, LocalInv, Knows
            <6>2. d \in Callers /\ pc[d] = "adopt" => mem[d].pin \in {NoAddress, row.address}
              BY <1>3, <2>1 DEF Steady
            <6> QED
              BY <6>1, <6>2, Roles
          <5> QED
            BY <2>1, <2>3, <5>1 DEF Known
        <4> QED
          BY <1>3, <2>2, <4>1, <4>2 DEF Carries
      <3>2. pc'[w] = "idle"
        BY <1>1, GoMoves
      <3>3. Carries(w)'
        BY <1>1, <3>2, QuietCarries DEF Quiet
      <3> QED
        BY <3>1, <3>3
    <2> QED
      BY <2>2, <2>6, <2>7 DEF FloatInv
  <1> QED
    BY <1>2, <1>3

\* Coin moves only once the opening is booked; then a sweep, a payment and a
\* balance moved by hand keep the books between what is known and what is held.
LEMMA FloatCoin ==
  ASSUME TypeInv, FloatInv, row.booked,
         UNCHANGED <<row, custody>>,
         \A d \in Processes : Carries(d)',
         deposits' + Total(coin', Known) - books' <= deposits + Total(coin, Known) - books,
         deposits' + Total(coin', Addresses) - books' = deposits + Total(coin, Addresses) - books,
         deposits' \in Int, books' \in Int, Total(coin', Known) \in Int,
         Total(coin', Addresses) \in Int
  PROVE  FloatInv'
  <1>1. Known' = Known
    BY DEF Known
  <1>2. /\ row.address \in Known
        /\ deposits + Total(coin, Known) <= books /\ books <= deposits + Total(coin, Addresses)
    BY CoinTotal DEF FloatInv, Settled, Held
  <1>3. /\ deposits \in Int /\ books \in Int /\ Total(coin, Known) \in Int
        /\ Total(coin, Addresses) \in Int
    BY CoinType
  <1>4. /\ deposits' + Total(coin', Known) <= books'
        /\ books' <= deposits' + Total(coin', Addresses)
    BY <1>2, <1>3
  <1>5. Settled'
    BY <1>1, <1>2, <1>4, CoinNext DEF Settled
  <1> QED
    BY <1>5 DEF FloatInv

LEMMA CoinTypeNext ==
  ASSUME TypeInv, TypeInv', NEW S \in SUBSET Addresses
  PROVE  Total(coin', S) \in Int /\ deposits' \in Int /\ books' \in Int
  <1>1. IsFiniteSet(S) /\ coin' \in [Addresses -> Nat] /\ deposits' \in Int /\ books' \in Int
    BY CoinType DEF TypeInv, TypeOK
  <1>2. \A a \in S : coin'[a] \in Int
    BY <1>1
  <1> QED
    BY <1>1, <1>2, TotalType

\* A sweep takes to the pin what it takes from the deposits.
LEMMA SweepHolds ==
  ASSUME TypeInv, NEW a \in Known,
         deposits' = deposits - 1, coin' = [coin EXCEPT ![a] = @ + 1]
  PROVE  /\ Total(coin', Known) = Total(coin, Known) + 1
         /\ Total(coin', Addresses) = Total(coin, Addresses) + 1
         /\ Held' = Held
  <1>1. a \in Addresses /\ coin[a] \in Nat /\ coin[a] + 1 \in Nat
    BY CoinType
  <1>2. \A S \in SUBSET Addresses :
          Total(coin', S) = Total(coin, S) + IF a \in S THEN (coin[a] + 1) - coin[a] ELSE 0
    BY <1>1, CoinChange
  <1>3. (coin[a] + 1) - coin[a] = 1
    BY <1>1
  <1>4. Known \in SUBSET Addresses /\ Addresses \in SUBSET Addresses
    BY CoinType
  <1>5. /\ Total(coin', Known) = Total(coin, Known) + 1
        /\ Total(coin', Addresses) = Total(coin, Addresses) + 1
    BY <1>1, <1>2, <1>3, <1>4
  <1>6. deposits \in Nat /\ Total(coin, Addresses) \in Nat
    BY <1>4, CoinType
  <1>7. Held' = deposits' + Total(coin', Addresses) /\ Held = deposits + Total(coin, Addresses)
    BY CoinNext, CoinTotal DEF Held
  <1>8. Held' = Held
    BY <1>5, <1>6, <1>7
  <1> QED
    BY <1>5, <1>8

LEMMA FloatSweep ==
  ASSUME TypeInv, TypeInv', FloatInv, NEW s \in Sweepers, CheckPin(s) \/ Sweep(s)
  PROVE  FloatInv'
  <1>0. s \in Processes
    BY Roles
  <1>1. CASE CheckPin(s)
    BY <1>0, <1>1, FloatRead DEF CheckPin, estate, Quiet
  <1>2. CASE Sweep(s)
    <2>1. /\ pc[s] = "send" /\ Go(s, "idle", mem[s]) /\ UNCHANGED <<row, custody, entry, books>>
      BY <1>2 DEF Sweep
    <2>2. row.booked /\ mem[s].checked \in Known /\ Known \subseteq Addresses
      BY <1>0, <2>1, CoinType DEF FloatInv, Carries
    <2>3. CASE UNCHANGED <<deposits, coin>>
      BY <1>0, <2>1, <2>3, FloatRead DEF Quiet
    <2>4. CASE /\ mem[s].checked = pin /\ deposits > 0
               /\ deposits' = deposits - 1
               /\ coin' = [coin EXCEPT ![pin] = @ + 1]
      <3>2. /\ Total(coin', Known) = Total(coin, Known) + 1
            /\ Total(coin', Addresses) = Total(coin, Addresses) + 1
        BY <2>2, <2>4, SweepHolds
      <3>3. \A d \in Processes : Carries(d)'
        BY <1>0, <2>1, <2>2, OthersCarry DEF Quiet
      <3>4. /\ deposits \in Int /\ books \in Int /\ Total(coin, Known) \in Int
            /\ Total(coin, Addresses) \in Int
        BY CoinType
      <3>5. /\ deposits' \in Int /\ books' \in Int /\ Total(coin', Known) \in Int
            /\ Total(coin', Addresses) \in Int
        BY <2>1, <2>4, <3>2, <3>4
      <3>6. deposits' + Total(coin', Known) - books' <= deposits + Total(coin, Known) - books
        BY <2>1, <2>4, <3>2, <3>4
      <3>7. deposits' + Total(coin', Addresses) - books'
              = deposits + Total(coin, Addresses) - books
        BY <2>1, <2>4, <3>2, <3>4
      <3> QED
        BY <2>1, <2>2, <3>3, <3>5, <3>6, <3>7, FloatCoin
    <2> QED
      BY <1>2, <2>3, <2>4 DEF Sweep
  <1> QED
    BY <1>1, <1>2

LEMMA FloatPay ==
  ASSUME TypeInv, TypeInv', FloatInv, NEW p \in Payers, Pay(p)
  PROVE  /\ FloatInv'
         /\ Held' = Held - 1 /\ books' = books - 1 /\ books >= 1
  <1> DEFINE a == mem[p].pin
  <1>1. /\ p \in Processes /\ pc[p] = "send" /\ Go(p, "idle", mem[p])
        /\ UNCHANGED <<row, custody, entry, deposits>>
        /\ coin[a] > 0 /\ books' = books - 1
        /\ coin' = [coin EXCEPT ![a] = @ - 1]
    BY Roles DEF Pay
  <1>2. row.booked /\ a \in Known /\ Known \subseteq Addresses
    BY <1>1, CoinType DEF FloatInv, Carries
  <1>3. a \in Addresses /\ coin[a] \in Nat /\ coin[a] - 1 \in Nat
    BY <1>1, <1>2, CoinType
  <1>4. /\ Total(coin', Known) = Total(coin, Known) - 1
        /\ Total(coin', Addresses) = Total(coin, Addresses) - 1
    <2>1. \A S \in SUBSET Addresses : Total(coin', S) =
            Total(coin, S) + IF a \in S THEN (coin[a] - 1) - coin[a] ELSE 0
      <3> TAKE S \in SUBSET Addresses
      <3>1. PICK n \in Nat : n = coin[a] - 1
        BY <1>3
      <3>2. coin' = [coin EXCEPT ![a] = n]
        BY <1>1, <3>1
      <3> HIDE DEF a
      <3>3. Total(coin', S) = Total(coin, S) + IF a \in S THEN n - coin[a] ELSE 0
        BY <1>3, <3>2, CoinChange
      <3> QED
        BY <3>1, <3>3
    <2>2. (coin[a] - 1) - coin[a] = -1
      BY <1>3
    <2>3. Known \in SUBSET Addresses /\ Addresses \in SUBSET Addresses
      BY <1>2
    <2>4. Total(coin, Known) \in Int /\ Total(coin, Addresses) \in Int
      BY CoinType
    <2> QED
      BY <1>2, <1>3, <2>1, <2>2, <2>3, <2>4
  <1>5. \A d \in Processes : Carries(d)'
    BY <1>1, <1>2, OthersCarry DEF Quiet
  <1>6. /\ deposits \in Nat /\ books \in Int /\ Total(coin, Known) \in Int
        /\ Total(coin, Addresses) \in Int /\ coin[a] <= Total(coin, Known)
    BY <1>2, CoinType
  <1>7. /\ deposits' \in Int /\ books' \in Int /\ Total(coin', Known) \in Int
        /\ Total(coin', Addresses) \in Int
    BY <1>1, <1>4, <1>6
  <1>8. deposits' + Total(coin', Known) - books' <= deposits + Total(coin, Known) - books
    BY <1>1, <1>4, <1>6
  <1>9. deposits' + Total(coin', Addresses) - books' = deposits + Total(coin, Addresses) - books
    BY <1>1, <1>4, <1>6
  <1>10. FloatInv'
    BY <1>1, <1>2, <1>5, <1>7, <1>8, <1>9, FloatCoin
  <1>11. Held' = Held - 1
    BY <1>1, <1>4, <1>6, CoinNext, CoinTotal DEF Held
  <1>12. books >= 1
    <2>1. deposits + Total(coin, Known) <= books
      BY <1>2, CoinTotal DEF FloatInv, Settled
    <2> QED
      BY <1>1, <1>3, <1>6, <2>1
  <1> QED
    BY <1>1, <1>10, <1>11, <1>12

LEMMA FloatHands ==
  ASSUME Early = {}, TypeInv, TypeInv', FloatInv, Hands
  PROVE  FloatInv' /\ Held' = Held /\ books' = books
  <1>1. UNCHANGED <<row, custody, entry, books, deposits, pc, mem>>
    BY DEF Hands, PinByHand, Unpin, MoveBalance, estate, local
  <1>2. CASE coin' = coin
    <2>1. Known' = Known /\ CoinAt(Known)' = CoinAt(Known) /\ Held' = Held
      BY <1>1, <1>2, CoinNext, CoinTotal DEF Held, Known
    <2>2. \A d \in Processes : Carries(d)'
      BY <1>1, <1>2, CarriesKept DEF FloatInv
    <2>3. row.booked => Settled'
      BY <1>1, <2>1 DEF FloatInv, Settled
    <2>4. ~row.booked => Owed'
      BY <1>1, <1>2 DEF FloatInv, Owed
    <2> QED
      BY <1>1, <2>1, <2>2, <2>3, <2>4 DEF FloatInv
  <1>3. ASSUME NEW a \in Addresses, NEW b \in Addresses, MoveBalance(a, b)
        PROVE  FloatInv' /\ Held' = Held
    <2>1. /\ row.booked /\ a # b /\ a \in custody
          /\ coin' = [coin EXCEPT ![a] = 0, ![b] = @ + coin[a]]
      BY <1>3 DEF MoveBalance, MayReplace
    <2>2. a \in Known /\ Known \in SUBSET Addresses /\ Addresses \in SUBSET Addresses
      BY <2>1, CoinType DEF Known
    <2>3. \A S \in SUBSET Addresses : a \in S =>
            Total(coin', S) = Total(coin, S) - IF b \in S THEN 0 ELSE coin[a]
      BY <2>1, CoinMoved
    <2>4. /\ deposits \in Nat /\ books \in Int /\ Total(coin, Known) \in Int
          /\ Total(coin, Addresses) \in Int /\ coin[a] \in Nat
      BY CoinType
    <2>5. /\ Total(coin', Known) \in {Total(coin, Known), Total(coin, Known) - coin[a]}
          /\ Total(coin', Addresses) = Total(coin, Addresses)
      BY <2>2, <2>3, <2>4
    <2>6. \A d \in Processes : Carries(d)'
      BY <1>1, <2>1, CarriesKept DEF FloatInv
    <2>7. /\ deposits' \in Int /\ books' \in Int /\ Total(coin', Known) \in Int
          /\ Total(coin', Addresses) \in Int
      BY <1>1, <2>4, <2>5
    <2>8. deposits' + Total(coin', Known) - books' <= deposits + Total(coin, Known) - books
      BY <1>1, <2>4, <2>5
    <2>9. deposits' + Total(coin', Addresses) - books'
            = deposits + Total(coin, Addresses) - books
      BY <1>1, <2>4, <2>5
    <2>10. FloatInv'
      BY <1>1, <2>1, <2>6, <2>7, <2>8, <2>9, FloatCoin
    <2>11. Held' = Held
      BY <1>1, <2>5, CoinNext, CoinTotal DEF Held
    <2> QED
      BY <2>10, <2>11
  <1>4. CASE \E a \in Legacy : PinByHand(a)
    BY <1>1, <1>2, <1>4 DEF PinByHand, estate
  <1>5. CASE Unpin
    BY <1>1, <1>2, <1>5 DEF Unpin, estate
  <1>6. CASE \E a, b \in Addresses : MoveBalance(a, b)
    BY <1>1, <1>3, <1>6
  <1> QED
    BY <1>4, <1>5, <1>6 DEF Hands

LEMMA FloatStep ==
  ASSUME Early = {}, \A v, w \in Watchers : v = w,
         TypeInv, RecordInv, Steady, OpeningInv, FloatInv, [Next]_vars
  PROVE  FloatInv'
  <1>0. TypeInv'
    BY TypeStep
  <1>1. ASSUME NEW c \in Callers, RequireTreasury(c) PROVE FloatInv'
    <2>1. CASE ReadPin(c)
      <3>1. c \in Processes /\ Go(c, "find", [mem[c] EXCEPT !.pin = pin])
            /\ UNCHANGED <<row, custody, entry, books, coin, deposits>>
        BY <2>1, Roles DEF ReadPin, estate
      <3> QED
        BY <3>1, FloatRead DEF Quiet
    <2> QED
      BY <1>1, <2>1, FloatFind, FloatAdopt DEF RequireTreasury
  <1>2. ASSUME NEW w \in Watchers, RegisterTreasury(w) PROVE FloatInv'
    BY <1>1, <1>2, Roles, FloatMeasure, FloatWatch, FloatRecord, FloatPost, FloatMark
    DEF RegisterTreasury
  <1>3. ASSUME NEW s \in Sweepers, SweepInto(s) PROVE FloatInv'
    BY <1>0, <1>1, <1>3, Roles, FloatSweep DEF SweepInto
  <1>4. ASSUME NEW p \in Payers, PayFrom(p) PROVE FloatInv'
    BY <1>0, <1>1, <1>4, Roles, FloatPay DEF PayFrom
  <1>5. ASSUME NEW o \in Provisioners, Provision(o) PROVE FloatInv'
    BY <1>5, FloatProvision
  <1>6. ASSUME NEW c \in Processes, Fail(c) PROVE FloatInv'
    BY <1>6, FloatRead DEF Fail, estate, Quiet
  <1>7. CASE Hands
    BY <1>0, <1>7, FloatHands
  <1>8. CASE UNCHANGED vars
    <2>1. UNCHANGED <<row, custody, entry, books, coin, deposits, pc, mem>>
      BY <1>8 DEF vars, estate, local
    <2>2. Known' = Known /\ CoinAt(Known)' = CoinAt(Known) /\ Held' = Held
      BY <2>1, CoinNext, CoinTotal DEF Held, Known
    <2>3. \A d \in Processes : Carries(d)'
      BY <2>1, CarriesKept DEF FloatInv
    <2> QED
      BY <2>1, <2>2, <2>3 DEF FloatInv, Settled, Owed
  <1> QED
    BY <1>2, <1>3, <1>4, <1>5, <1>6, <1>7, <1>8 DEF Next

LEMMA FloatStart == Init => FloatInv
  <1> SUFFICES ASSUME Init PROVE FloatInv
    OBVIOUS
  <1>1. ~row.booked /\ custody = {} /\ books = deposits
    BY DEF Init, Absent
  <1>2. \A a \in Addresses : entry[a] = Nothing
    BY DEF Init
  <1>3. Owed
    BY <1>1, <1>2 DEF Init, Owed
  <1>4. ASSUME NEW c \in Processes PROVE Carries(c)
    <2>1. pc[c] = "idle"
      BY DEF Init
    <2> QED
      BY <2>1 DEF Carries, WatchLabels
  <1> QED
    BY <1>1, <1>3, <1>4 DEF FloatInv

LEMMA FloatBooks == TypeInv /\ FloatInv => BooksMatch
  <1> SUFFICES ASSUME TypeInv, FloatInv, Registered, ~InTransit PROVE Aggregate = books
    BY DEF BooksMatch
  <1>1. \A a \in Addresses \ custody : coin[a] = 0
    BY CoinType DEF InTransit
  <1>2. /\ IsFiniteSet(Addresses) /\ custody \subseteq Known /\ Known \subseteq Addresses
        /\ \A a \in Addresses : coin[a] \in Int
    BY CoinType DEF Known
  <1>3. Total(coin, custody) = Total(coin, Addresses)
    <2>1. custody \in SUBSET Addresses
      BY <1>2
    <2> QED
      BY <1>1, <1>2, <2>1, TotalSupport
  <1>4. Total(coin, Known) = Total(coin, Addresses)
    <2>1. Known \in SUBSET Addresses /\ \A a \in Addresses \ Known : coin[a] = 0
      BY <1>1, <1>2
    <2> QED
      BY <1>2, <2>1, TotalSupport
  <1>5. /\ deposits + Total(coin, Known) <= books /\ books <= deposits + Total(coin, Addresses)
    BY CoinTotal DEF FloatInv, Settled, Held, Registered
  <1>6. deposits \in Nat /\ books \in Int /\ Total(coin, Addresses) \in Int
    BY <1>2, CoinType
  <1>7. deposits + Total(coin, Addresses) <= books
    BY <1>4, <1>5
  <1>8. books = deposits + Total(coin, Addresses)
    <2> DEFINE h == deposits + Total(coin, Addresses)
    <2>1. h <= books /\ books <= h /\ h \in Int /\ books \in Int
      BY <1>5, <1>6, <1>7
    <2> HIDE DEF h
    <2>2. books = h
      BY <2>1
    <2> QED
      BY <2>2 DEF h
  <1> QED
    BY <1>3, <1>8, CoinTotal DEF Aggregate

LEMMA FloatInductive ==
  ASSUME Early = {}, \A v, w \in Watchers : v = w
  PROVE  Spec => [](TypeInv /\ RecordInv /\ Steady /\ OpeningInv /\ FloatInv)
  <1> DEFINE IInv == TypeInv /\ RecordInv /\ Steady /\ OpeningInv /\ FloatInv
  <1>1. Init => IInv
    BY TypeInit, RecordInit, OpeningInit, FloatStart
  <1>2. IInv /\ [Next]_vars => IInv'
    BY TypeStep, RecordStep, SteadyStep, OpeningStep, FloatStep
  <1> QED
    BY <1>1, <1>2, PTL DEF Spec

\* Once the treasury is registered the ledger holds what the indexer counts,
\* to the unit: with one pass at a time, as the lease of the job has it, for
\* any addresses, any planners, payments and operators, and wherever any of
\* them dies.
THEOREM BooksMatchHolds ==
  ASSUME Early = {}, \A v, w \in Watchers : v = w
  PROVE  Spec => []BooksMatch
  BY FloatInductive, FloatBooks, PTL

(***************************************************************************)
(* The refinement of Float.                                                *)
(***************************************************************************)
LEMMA FloatMoves ==
  ASSUME Early = {}, \A v, w \in Watchers : v = w, \A a, b \in Legacy : a = b,
         TypeInv, RecordInv, Steady, OpeningInv, FloatInv, [Next]_vars
  PROVE  [FloatEntersOnce!Next]_<<Held, books>>
  <1>0. TypeInv' /\ books \in Int /\ Addresses \in SUBSET Addresses
    BY TypeStep, CoinType
  <1>1. ASSUME UNCHANGED <<coin, deposits, books>> PROVE UNCHANGED <<Held, books>>
    BY <1>1, CoinNext, CoinTotal DEF Held
  <1>2. ASSUME NEW w \in Watchers, PostOpening(w) PROVE [FloatEntersOnce!Next]_<<Held, books>>
    <2> DEFINE a == mem[w].row.address
    <2>1. UNCHANGED <<coin, deposits>>
      BY <1>2 DEF PostOpening
    <2>2. Held' = Held
      BY <2>1, CoinNext, CoinTotal DEF Held
    <2>3. CASE entry[a] # Nothing
      BY <1>1, <1>2, <2>1, <2>3 DEF PostOpening
    <2>4. CASE entry[a] = Nothing
      <3>1. /\ ~row.booked /\ a \in Addresses /\ coin[a] > 0
            /\ books' = deposits + coin[a]
        BY <1>2, <2>4, Posting
      <3>2. \A b \in Fresh : coin[b] = 0
        BY <3>1 DEF FloatInv, Owed
      <3>3. \A b \in Addresses \ {a} : coin[b] = 0
        <4>1. coin[a] # 0
          BY <3>1, CoinType
        <4>2. a \in Legacy
          BY <3>1, <3>2, <4>1 DEF Addresses
        <4> QED
          BY <3>2, <4>2 DEF Addresses
      <3>4. IsFiniteSet(Addresses) /\ \A b \in Addresses : coin[b] \in Int
        BY CoinType
      <3>5. Total(coin, {a}) = Total(coin, Addresses)
        <4>1. {a} \in SUBSET Addresses
          BY <3>1
        <4> QED
          BY <3>3, <3>4, <4>1, TotalSupport
      <3>6. coin[a] \in Int
        BY <3>1, <3>4
      <3>7. Total(coin, {a}) = coin[a]
        BY <3>6, TotalSingle
      <3>8. books' = Held
        BY <3>1, <3>5, <3>7, CoinTotal DEF Held
      <3> QED
        BY <2>2, <3>8 DEF FloatEntersOnce!Next, FloatEntersOnce!Open
    <2> QED
      BY <2>3, <2>4
  <1>3. ASSUME NEW p \in Payers, Pay(p) PROVE FloatEntersOnce!Next
    <2>1. Held' = Held - 1 /\ books' = books - 1 /\ books >= 1
      BY <1>0, <1>3, FloatPay
    <2>2. 1 \in 1..books
      BY <1>0, <2>1
    <2>3. FloatEntersOnce!Pay
      BY <2>1, <2>2 DEF FloatEntersOnce!Pay
    <2> QED
      BY <2>3 DEF FloatEntersOnce!Next
  <1>4. ASSUME NEW s \in Sweepers, Sweep(s) PROVE UNCHANGED <<Held, books>>
    <2>1. CASE UNCHANGED <<deposits, coin>>
      BY <1>1, <1>4, <2>1 DEF Sweep
    <2>2. CASE /\ mem[s].checked = pin /\ deposits > 0
               /\ deposits' = deposits - 1
               /\ coin' = [coin EXCEPT ![pin] = @ + 1]
      <3>1. mem[s].checked \in Known
        BY <1>4, Roles DEF Sweep, FloatInv, Carries
      <3>2. Held' = Held
        BY <2>2, <3>1, SweepHolds
      <3> QED
        BY <1>4, <3>2 DEF Sweep
    <2> QED
      BY <1>4, <2>1, <2>2 DEF Sweep
  <1>5. CASE Hands
    BY <1>0, <1>5, FloatHands
  <1>6. ASSUME \/ \E c \in Callers : RequireTreasury(c)
               \/ \E w \in Watchers : \/ Measure(w) \/ MeasureLate(w) \/ Watch(w)
                                      \/ RecordWatch(w) \/ MarkBooked(w)
               \/ \E s \in Sweepers : CheckPin(s)
               \/ \E o \in Provisioners : Provision(o)
               \/ \E c \in Processes : Fail(c)
               \/ UNCHANGED vars
        PROVE  UNCHANGED <<Held, books>>
    <2>1. UNCHANGED <<coin, deposits, books>>
      BY <1>6
      DEF RequireTreasury, ReadPin, FindTreasury, Adopt, Measure, MeasureLate, Watch, RecordWatch,
          MarkBooked, CheckPin, Provision, ReadRow, ReadCurrentPin, MintTreasury, PinTreasury,
          RecordTreasury, Fail, vars, estate
    <2> QED
      BY <1>1, <2>1
  <1> QED
    BY <1>2, <1>3, <1>4, <1>5, <1>6, Roles
    DEF Next, RegisterTreasury, SweepInto, PayFrom

\* The books follow the coin as Float says, step by step: the opening is the
\* one entry that adds anything, and it enters all there is.  One address that
\* custody did not derive is what the coin of the platform is counted over.
THEOREM KeepsTheBooksHolds ==
  ASSUME Early = {}, \A v, w \in Watchers : v = w, \A a, b \in Legacy : a = b
  PROVE  Spec => KeepsTheBooks
  <1>1. Init => FloatEntersOnce!Init
    <2> SUFFICES ASSUME Init PROVE FloatEntersOnce!Init
      OBVIOUS
    <2>1. TypeInv
      BY TypeInit
    <2>2. Total(coin, Addresses) \in Nat /\ deposits \in Nat /\ books = deposits
      BY <2>1, CoinType DEF Init
    <2>3. Held = deposits + Total(coin, Addresses)
      BY CoinTotal DEF Held
    <2> QED
      BY <2>2, <2>3 DEF FloatEntersOnce!Init
  <1>2. TypeInv /\ RecordInv /\ Steady /\ OpeningInv /\ FloatInv /\ [Next]_vars
        => [FloatEntersOnce!Next]_<<Held, books>>
    BY FloatMoves
  <1> QED
    BY <1>1, <1>2, FloatInductive, PTL DEF Spec, KeepsTheBooks, FloatEntersOnce!Spec
=============================================================================
