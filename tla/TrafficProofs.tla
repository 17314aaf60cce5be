---------------------------- MODULE TrafficProofs ----------------------------
(***************************************************************************)
(* Proofs about Traffic, for any number of configs, bytes, resets and      *)
(* failures.                                                               *)
(***************************************************************************)
EXTENDS Traffic, TLAPS

----------------------------------------------------------------------------
(* Types *)

LEMMA DeltaNat ==
    ASSUME NEW a \in Nat, NEW b \in Nat
    PROVE  TrafficDelta(a, b) \in Nat
BY DEF TrafficDelta

LEMMA NoRowsTyped == Zero \in [Peers -> Nat] /\ NoRows \in [total : [Peers -> Nat], last : [Peers -> Nat]]
BY DEF Zero, NoRows

\* The types that a step of the collector may disturb.
CollectorOK ==
    /\ pc \in {"idle", "list", "update"}
    /\ found \subseteq born
    /\ reading \in [Peers -> Nat]
    /\ snap \in [total : [Peers -> Nat], last : [Peers -> Nat]]
    /\ todo \subseteq born
    /\ pc = "update" <=> todo # {}

LEMMA RestsTyped ==
    ASSUME Rests, born' = born
    PROVE  CollectorOK'
BY NoRowsTyped DEF Rests, CollectorOK

LEMMA VisitedTyped ==
    ASSUME TypeOK, NEW p \in Peers, Visited(p), born' = born
    PROVE  CollectorOK'
<1>1. CASE todo = {p}
  BY <1>1, RestsTyped DEF Visited
<1>2. CASE todo # {p}
  BY <1>2 DEF Visited, TypeOK, CollectorOK
<1> QED BY <1>1, <1>2

LEMMA WriteTyped ==
    ASSUME TypeOK, NEW p \in Peers, WriteTraffic(p)
    PROVE  total' \in [Peers -> Nat] /\ lastRead' \in [Peers -> Nat]
<1>1. /\ snap.total[p] \in Nat /\ TrafficDelta(snap.last[p], reading[p]) \in Nat
      /\ reading[p] \in Nat
  BY DeltaNat DEF TypeOK
<1> QED BY <1>1 DEF WriteTraffic, TypeOK

LEMMA TypeInit == Init => TypeOK
BY TrafficAssumption, NoRowsTyped DEF Init, TypeOK, Zero

LEMMA TypeNext == TypeOK /\ [Next]_vars => TypeOK'
<1> SUFFICES ASSUME TypeOK, [Next]_vars PROVE TypeOK'
  OBVIOUS
<1> USE DEF table, worker, collector
<1>1. ASSUME NEW p \in Peers, InsertRow(p)
      PROVE  TypeOK'
  BY <1>1 DEF InsertRow, TypeOK
<1>2. ASSUME NEW p \in Peers, AddPeer(p)
      PROVE  TypeOK'
  BY <1>2 DEF AddPeer, TypeOK
<1>3. ASSUME NEW p \in Peers, RemovePeer(p)
      PROVE  TypeOK'
  BY <1>3 DEF RemovePeer, TypeOK
<1>4. ASSUME NEW p \in Peers, DeleteRow(p)
      PROVE  TypeOK'
  BY <1>4 DEF DeleteRow, TypeOK
<1>5. ASSUME NEW p \in Peers, Transfer(p)
      PROVE  TypeOK'
  <2>1. used' \in [Peers -> 0..MaxUsed] /\ counter' \in [Peers -> Nat]
    BY <1>5, TrafficAssumption DEF Transfer, TypeOK
  <2> QED BY <1>5, <2>1 DEF Transfer, TypeOK
<1>6. ASSUME NEW ps \in SUBSET Peers, Reset(ps)
      PROVE  TypeOK'
  <2>1. counter' \in [Peers -> Nat] /\ resets' \in 0..MaxResets
    BY <1>6, TrafficAssumption DEF Reset, TypeOK
  <2> QED BY <1>6, <2>1 DEF Reset, TypeOK
<1>7. ASSUME GetStats
      PROVE  TypeOK'
  BY <1>7 DEF GetStats, TypeOK
<1>8. ASSUME ListAll
      PROVE  TypeOK'
  <2>1. CollectorOK'
    <3>1. CASE rows = {}
      BY <1>8, <3>1, RestsTyped DEF ListAll
    <3>2. CASE rows # {}
      BY <1>8, <3>2 DEF ListAll, TypeOK, CollectorOK
    <3> QED BY <3>1, <3>2
  <2> QED BY <1>8, <2>1 DEF ListAll, TypeOK, CollectorOK
<1>9. ASSUME NEW p \in Peers, UpdateTraffic(p)
      PROVE  TypeOK'
  <2>1. CollectorOK'
    BY <1>9, VisitedTyped DEF UpdateTraffic
  <2>2. total' \in [Peers -> Nat] /\ lastRead' \in [Peers -> Nat]
    BY <1>9, WriteTyped DEF UpdateTraffic, TypeOK
  <2> QED BY <1>9, <2>1, <2>2 DEF UpdateTraffic, TypeOK, CollectorOK
<1>10. ASSUME NEW p \in Peers, UpdateFails(p)
       PROVE  TypeOK'
  <2>1. CollectorOK'
    BY <1>10, VisitedTyped DEF UpdateFails
  <2> QED BY <1>10, <2>1, TrafficAssumption DEF UpdateFails, CountFault, TypeOK, CollectorOK
<1>11. ASSUME GivesUp
       PROVE  TypeOK'
  <2>1. CollectorOK'
    BY <1>11, RestsTyped DEF GivesUp
  <2> QED BY <1>11, <2>1, TrafficAssumption DEF GivesUp, CountFault, TypeOK, CollectorOK
<1>12. CASE UNCHANGED vars
  BY <1>12 DEF vars, TypeOK
<1> QED BY <1>1, <1>2, <1>3, <1>4, <1>5, <1>6, <1>7, <1>8, <1>9, <1>10, <1>11, <1>12
        DEF Next, Collects

\* The columns, counters and the collector's locals keep their types, the ids their
\* order: the worker never knows a peer that had no row.
THEOREM TrafficTypes == Spec => []TypeOK
BY TypeInit, TypeNext, PTL DEF Spec

----------------------------------------------------------------------------
(* The ledger *)

LEMMA DeltaFacts ==
    ASSUME NEW a \in Nat, NEW b \in Nat
    PROVE  /\ TrafficDelta(a, 0) = 0
           /\ TrafficDelta(b, b) = 0
           /\ TrafficDelta(a, b + 1) <= TrafficDelta(a, b) + 1
           /\ b <= a + TrafficDelta(a, b)
BY DEF TrafficDelta

\* What a config would be charged if it were read now, and what it will be charged for
\* the reading a pass holds, are both covered by what it moved.
Due(p) == total[p] + TrafficDelta(lastRead[p], counter[p])

DueTwice(p) == total[p] + TrafficDelta(lastRead[p], reading[p]) + TrafficDelta(reading[p], counter[p])

Pending(p) == p \in found /\ (pc = "list" \/ p \in todo)

Ledger ==
    /\ \A p \in Peers : lastRead[p] <= total[p]
    /\ \A p \in Peers : Due(p) <= used[p]
    /\ \A p \in Peers : Pending(p) => DueTwice(p) <= used[p]
    /\ \A p \in todo : snap.total[p] = total[p] /\ snap.last[p] = lastRead[p]

LEMMA TypedAt ==
    ASSUME TypeOK, NEW p \in Peers
    PROVE  /\ total[p] \in Nat /\ lastRead[p] \in Nat /\ counter[p] \in Nat
           /\ counter[p] + 1 \in Nat /\ used[p] \in Nat /\ reading[p] \in Nat
BY DEF TypeOK

LEMMA LedgerInit == Init => Ledger
BY DEF Init, Ledger, Due, Zero, Pending, TrafficDelta

\* A step that charges nothing: neither the counter nor what is pending gets ahead of
\* what was moved.
LEMMA Uncharged ==
    ASSUME TypeOK, Ledger, UNCHANGED <<total, lastRead, used>>,
           \A p \in Peers : counter'[p] = counter[p] \/ counter'[p] = 0,
           \A p \in Peers : Pending(p)' => Pending(p) /\ reading'[p] = reading[p],
           \A p \in todo' : p \in todo /\ snap'.total[p] = snap.total[p]
                                       /\ snap'.last[p] = snap.last[p]
    PROVE  Ledger'
<1>1. ASSUME NEW p \in Peers
      PROVE  Due(p)' <= used'[p]
  <2>1. /\ total[p] \in Nat /\ lastRead[p] \in Nat /\ counter[p] \in Nat /\ used[p] \in Nat
        /\ TrafficDelta(lastRead[p], counter[p]) \in Nat
    BY TypedAt, DeltaNat
  <2>2. TrafficDelta(lastRead[p], counter'[p]) <= TrafficDelta(lastRead[p], counter[p])
    BY <2>1, DeltaFacts
  <2>3. TrafficDelta(lastRead[p], counter'[p]) \in Nat
    BY <2>1, DeltaNat
  <2> QED BY <2>1, <2>2, <2>3 DEF Ledger, Due
<1>2. ASSUME NEW p \in Peers, Pending(p)'
      PROVE  DueTwice(p)' <= used'[p]
  <2>1. /\ total[p] \in Nat /\ lastRead[p] \in Nat /\ counter[p] \in Nat /\ used[p] \in Nat
        /\ reading[p] \in Nat
        /\ TrafficDelta(lastRead[p], reading[p]) \in Nat
        /\ TrafficDelta(reading[p], counter[p]) \in Nat
    BY TypedAt, DeltaNat
  <2>2. TrafficDelta(reading[p], counter'[p]) <= TrafficDelta(reading[p], counter[p])
    BY <2>1, DeltaFacts
  <2>3. TrafficDelta(reading[p], counter'[p]) \in Nat
    BY <2>1, DeltaNat
  <2>4. Pending(p) /\ reading'[p] = reading[p]
    BY <1>2
  <2>5. DueTwice(p) <= used[p]
    BY <2>4 DEF Ledger
  <2> QED BY <2>1, <2>2, <2>3, <2>4, <2>5 DEF DueTwice
<1>3. \A p \in Peers : lastRead'[p] <= total'[p]
  BY DEF Ledger
<1>4. \A p \in todo' : snap'.total[p] = total'[p] /\ snap'.last[p] = lastRead'[p]
  BY DEF Ledger
<1> QED BY <1>1, <1>2, <1>3, <1>4 DEF Ledger

\* One more byte, moved and counted.
LEMMA TransferStep ==
    ASSUME TypeOK, Ledger, NEW q \in Peers, Transfer(q)
    PROVE  Ledger'
<1>1. /\ UNCHANGED <<total, lastRead, pc, found, reading, snap, todo>>
      /\ \A p \in Peers : \/ counter'[p] = counter[p] /\ used'[p] = used[p]
                          \/ counter'[p] = counter[p] + 1 /\ used'[p] = used[p] + 1
  BY DEF Transfer, TypeOK, table, collector
<1>2. ASSUME NEW p \in Peers
      PROVE  Due(p)' <= used'[p]
  <2>1. /\ total[p] \in Nat /\ lastRead[p] \in Nat /\ counter[p] \in Nat /\ used[p] \in Nat
        /\ TrafficDelta(lastRead[p], counter[p]) \in Nat
        /\ TrafficDelta(lastRead[p], counter[p] + 1) \in Nat
    BY TypedAt, DeltaNat
  <2>2. TrafficDelta(lastRead[p], counter[p] + 1) <= TrafficDelta(lastRead[p], counter[p]) + 1
    BY <2>1, DeltaFacts
  <2>3. Due(p) <= used[p]
    BY DEF Ledger
  <2> QED BY <1>1, <2>1, <2>2, <2>3 DEF Due
<1>3. ASSUME NEW p \in Peers, Pending(p)
      PROVE  DueTwice(p)' <= used'[p]
  <2>1. /\ total[p] \in Nat /\ lastRead[p] \in Nat /\ counter[p] \in Nat /\ used[p] \in Nat
        /\ reading[p] \in Nat
        /\ TrafficDelta(lastRead[p], reading[p]) \in Nat
        /\ TrafficDelta(reading[p], counter[p]) \in Nat
        /\ TrafficDelta(reading[p], counter[p] + 1) \in Nat
    BY TypedAt, DeltaNat
  <2>2. TrafficDelta(reading[p], counter[p] + 1) <= TrafficDelta(reading[p], counter[p]) + 1
    BY <2>1, DeltaFacts
  <2>3. DueTwice(p) <= used[p]
    BY <1>3 DEF Ledger
  <2> QED BY <1>1, <2>1, <2>2, <2>3 DEF DueTwice
<1>4. \A p \in Peers : Pending(p)' => Pending(p)
  BY <1>1 DEF Pending
<1> QED BY <1>1, <1>2, <1>3, <1>4 DEF Ledger

\* A reading just taken is pending, and owes nothing beyond itself.
LEMMA GetStatsStep ==
    ASSUME TypeOK, Ledger, GetStats
    PROVE  Ledger'
<1>1. UNCHANGED <<total, lastRead, counter, used, snap, todo>> /\ reading' = counter
  BY DEF GetStats, table, worker
<1>2. ASSUME NEW p \in Peers
      PROVE  DueTwice(p)' <= used'[p]
  <2>1. /\ total[p] \in Nat /\ lastRead[p] \in Nat /\ counter[p] \in Nat /\ used[p] \in Nat
        /\ TrafficDelta(lastRead[p], counter[p]) \in Nat
        /\ TrafficDelta(counter[p], counter[p]) = 0
    BY TypedAt, DeltaNat, DeltaFacts
  <2>2. Due(p) <= used[p]
    BY DEF Ledger
  <2> QED BY <1>1, <2>1, <2>2 DEF Due, DueTwice
<1>3. \A p \in Peers : Due(p)' = Due(p)
  BY <1>1 DEF Due
<1> QED BY <1>1, <1>2, <1>3 DEF Ledger

\* What the loop writes for a config was covered, and leaves covered what its counter
\* has grown by since.
LEMMA WriteStep ==
    ASSUME TypeOK, Ledger, NEW p \in todo, p \in Peers, p \in found, WriteTraffic(p)
    PROVE  /\ total'[p] = total[p] + TrafficDelta(lastRead[p], reading[p])
           /\ lastRead'[p] = reading[p]
           /\ total[p] <= total'[p]
           /\ lastRead'[p] <= total'[p]
           /\ total'[p] + TrafficDelta(lastRead'[p], counter[p]) <= used[p]
<1>1. snap.total[p] = total[p] /\ snap.last[p] = lastRead[p] /\ lastRead[p] <= total[p]
  BY DEF Ledger
<1>2. /\ total[p] \in Nat /\ lastRead[p] \in Nat /\ counter[p] \in Nat /\ used[p] \in Nat
      /\ reading[p] \in Nat
      /\ TrafficDelta(lastRead[p], reading[p]) \in Nat
      /\ TrafficDelta(reading[p], counter[p]) \in Nat
  BY TypedAt, DeltaNat
<1>3. total'[p] = total[p] + TrafficDelta(lastRead[p], reading[p]) /\ lastRead'[p] = reading[p]
  BY <1>1 DEF WriteTraffic, TypeOK
<1>4. reading[p] <= lastRead[p] + TrafficDelta(lastRead[p], reading[p])
  BY <1>2, DeltaFacts
<1>5. DueTwice(p) <= used[p]
  BY DEF Ledger, Pending
<1> QED BY <1>1, <1>2, <1>3, <1>4, <1>5 DEF DueTwice

\* What is left of a pass after a turn of the loop.
LEMMA VisitedLeaves ==
    ASSUME TypeOK, NEW q \in Peers, Visited(q)
    PROVE  /\ todo' = todo \ {q}
           /\ \A p \in Peers : Pending(p)' => p # q /\ Pending(p) /\ reading'[p] = reading[p]
           /\ \A p \in todo' : snap'.total[p] = snap.total[p] /\ snap'.last[p] = snap.last[p]
<1>1. pc = "update"
  BY DEF Visited, TypeOK
<1>2. CASE todo = {q}
  BY <1>2 DEF Visited, Rests, Pending
<1>3. CASE todo # {q}
  BY <1>1, <1>3 DEF Visited, Pending
<1> QED BY <1>2, <1>3

LEMMA UpdateStep ==
    ASSUME TypeOK, Ledger, NEW q \in Peers, UpdateTraffic(q)
    PROVE  Ledger' /\ \A p \in Peers : total[p] <= total'[p]
<1>1. UNCHANGED <<counter, used>> /\ q \in todo
  BY DEF UpdateTraffic, Visited, worker
<1>2. \A p \in Peers : total[p] \in Nat
  BY DEF TypeOK
<1>3. CASE q \notin found \cap rows
  <2>1. UNCHANGED <<total, lastRead>>
    BY <1>3 DEF UpdateTraffic
  <2>2. Ledger'
    BY <1>1, <2>1, VisitedLeaves, Uncharged DEF UpdateTraffic
  <2> QED BY <1>2, <2>1, <2>2
<1>4. CASE q \in found \cap rows
  <2>1. WriteTraffic(q) /\ Visited(q)
    BY <1>4 DEF UpdateTraffic
  <2>2. \A p \in Peers : p # q => total'[p] = total[p] /\ lastRead'[p] = lastRead[p]
    BY <2>1 DEF WriteTraffic, TypeOK
  <2>3. /\ total[q] <= total'[q] /\ lastRead'[q] <= total'[q]
        /\ total'[q] + TrafficDelta(lastRead'[q], counter[q]) <= used[q]
    BY <1>1, <1>4, <2>1, WriteStep
  <2>4. \A p \in Peers : lastRead'[p] <= total'[p]
    BY <2>2, <2>3 DEF Ledger
  <2>5. \A p \in Peers : Due(p)' <= used'[p]
    BY <1>1, <2>2, <2>3 DEF Ledger, Due
  <2>6. ASSUME NEW p \in Peers, Pending(p)'
        PROVE  DueTwice(p)' <= used'[p]
    <3>1. p # q /\ Pending(p) /\ reading'[p] = reading[p]
      BY <2>1, <2>6, VisitedLeaves
    <3> QED BY <1>1, <2>2, <3>1 DEF Ledger, DueTwice
  <2>7. \A p \in todo' : snap'.total[p] = total'[p] /\ snap'.last[p] = lastRead'[p]
    <3>1. todo \subseteq Peers
      BY DEF TypeOK
    <3> QED BY <2>1, <2>2, <3>1, VisitedLeaves DEF Ledger
  <2>8. Ledger'
    BY <2>4, <2>5, <2>6, <2>7 DEF Ledger
  <2> QED BY <1>2, <2>2, <2>3, <2>8
<1> QED BY <1>3, <1>4

\* Only UpdateTraffic writes a total, and it never lowers one.
LEMMA LedgerNext ==
    TypeOK /\ Ledger /\ [Next]_vars => Ledger' /\ \A p \in Peers : total[p] <= total'[p]
<1> SUFFICES ASSUME TypeOK, Ledger, [Next]_vars
             PROVE  Ledger' /\ \A p \in Peers : total[p] <= total'[p]
  OBVIOUS
<1> USE DEF table, worker, collector
<1>1. \A p \in Peers : total[p] \in Nat
  BY DEF TypeOK
<1>2. CASE \E p \in Peers : InsertRow(p) \/ AddPeer(p) \/ DeleteRow(p)
  <2>1. UNCHANGED <<total, lastRead, counter, used, pc, found, reading, snap, todo>>
    BY <1>2 DEF InsertRow, AddPeer, DeleteRow
  <2> QED BY <1>1, <2>1, Uncharged DEF Pending
<1>3. ASSUME NEW q \in Peers, RemovePeer(q)
      PROVE  Ledger' /\ UNCHANGED total
  <2>1. UNCHANGED <<total, lastRead, used, pc, found, reading, snap, todo>>
    BY <1>3 DEF RemovePeer
  <2>2. \A p \in Peers : counter'[p] = counter[p] \/ counter'[p] = 0
    BY <1>3 DEF RemovePeer, TypeOK
  <2> QED BY <2>1, <2>2, Uncharged DEF Pending
<1>4. ASSUME NEW ps \in SUBSET Peers, Reset(ps)
      PROVE  Ledger' /\ UNCHANGED total
  <2>1. UNCHANGED <<total, lastRead, used, pc, found, reading, snap, todo>>
    BY <1>4 DEF Reset
  <2>2. \A p \in Peers : counter'[p] = counter[p] \/ counter'[p] = 0
    BY <1>4 DEF Reset, TypeOK
  <2> QED BY <2>1, <2>2, Uncharged DEF Pending
<1>5. ASSUME NEW q \in Peers, Transfer(q)
      PROVE  Ledger' /\ UNCHANGED total
  BY <1>5, TransferStep DEF Transfer
<1>6. ASSUME GetStats
      PROVE  Ledger' /\ UNCHANGED total
  BY <1>6, GetStatsStep DEF GetStats
<1>7. ASSUME ListAll
      PROVE  Ledger' /\ UNCHANGED total
  <2>1. UNCHANGED <<total, lastRead, counter, used>> /\ pc = "list"
    BY <1>7 DEF ListAll
  <2>2. CASE rows = {}
    <3>1. Rests
      BY <1>7, <2>2 DEF ListAll
    <3> QED BY <2>1, <3>1, Uncharged DEF Rests, Pending
  <2>3. CASE rows # {}
    <3>1. /\ snap' = [total |-> total, last |-> lastRead] /\ todo' = rows /\ pc' = "update"
          /\ UNCHANGED <<found, reading>>
      BY <1>7, <2>3 DEF ListAll
    <3>2. \A p \in Peers : Pending(p)' => Pending(p)
      BY <2>1, <3>1 DEF Pending
    <3>3. \A p \in Peers : Due(p)' = Due(p) /\ DueTwice(p)' = DueTwice(p)
      BY <2>1, <3>1 DEF Due, DueTwice
    <3> QED BY <2>1, <3>1, <3>2, <3>3 DEF Ledger
  <2> QED BY <2>2, <2>3
<1>8. ASSUME NEW q \in Peers, UpdateTraffic(q)
      PROVE  Ledger' /\ \A p \in Peers : total[p] <= total'[p]
  BY <1>8, UpdateStep
<1>9. ASSUME NEW q \in Peers, UpdateFails(q)
      PROVE  Ledger' /\ UNCHANGED total
  BY <1>9, VisitedLeaves, Uncharged DEF UpdateFails
<1>10. ASSUME GivesUp
       PROVE  Ledger' /\ UNCHANGED total
  BY <1>10, Uncharged DEF GivesUp, Rests, Pending
<1>11. CASE UNCHANGED vars
  BY <1>1, <1>11, Uncharged DEF vars, Pending
<1> QED BY <1>1, <1>2, <1>3, <1>4, <1>5, <1>6, <1>7, <1>8, <1>9, <1>10, <1>11 DEF Next, Collects

\* A config is never charged more than it moved, wherever its counter was reset and a
\* pass cut short, and never less than its counter showed when it was last read.
THEOREM ChargedHolds == Spec => []Charged
<1>1. TypeOK /\ Ledger => Charged
  <2> SUFFICES ASSUME TypeOK, Ledger, NEW p \in rows
               PROVE  lastRead[p] <= total[p] /\ total[p] <= used[p]
    BY DEF Charged
  <2>1. p \in Peers
    BY DEF TypeOK
  <2>2. /\ total[p] \in Nat /\ lastRead[p] \in Nat /\ counter[p] \in Nat /\ used[p] \in Nat
        /\ TrafficDelta(lastRead[p], counter[p]) \in Nat
    BY <2>1, TypedAt, DeltaNat
  <2> QED BY <2>1, <2>2 DEF Ledger, Due
<1> QED BY LedgerInit, LedgerNext, TrafficTypes, <1>1, PTL DEF Spec

\* A total never goes down, although the loop writes what it computed from rows it
\* had listed before.
THEOREM NeverTakenBackHolds == Spec => NeverTakenBack
<1>1. TypeOK /\ Ledger /\ [Next]_vars => [\A p \in rows \cap rows' : total[p] <= total'[p]]_vars
  <2> SUFFICES ASSUME TypeOK, Ledger, [Next]_vars, NEW p \in rows
               PROVE  total[p] <= total'[p]
    OBVIOUS
  <2>1. p \in Peers
    BY DEF TypeOK
  <2> QED BY <2>1, LedgerNext
<1> QED BY LedgerInit, LedgerNext, TrafficTypes, <1>1, PTL DEF Spec, NeverTakenBack
=============================================================================
