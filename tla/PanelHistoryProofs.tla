------------------------- MODULE PanelHistoryProofs -------------------------
(***************************************************************************)
(* Proof that one process after the other keeps the tables, the worker's   *)
(* files and the flags together, for any number of users, configs, slots   *)
(* and processes: what SerialConsistent says of the moments in between.    *)
(***************************************************************************)
EXTENDS PanelHistory, PanelProofs, WellFoundedInduction

----------------------------------------------------------------------------
(* One process at a time *)

OneAtWork ==
    /\ \A p, q \in Reqs : Active(p) /\ Active(q) => p = q
    /\ \A p \in Reqs : Active(p) => svc.pc = "idle"

AloneInv == alone => ActiveCount <= 1

\* ActiveCount counts.
LEMMA Counted ==
    /\ ActiveCount <= 1 => OneAtWork
    /\ ActiveCount = 0 => svc.pc = "idle" /\ \A p \in Reqs : req[p].pc = "idle"
<1> DEFINE S == {p \in Reqs : Active(p)}
<1>1. IsFiniteSet(S) /\ Cardinality(S) \in Nat
  BY SlotsAssumption, FS_Subset, FS_CardinalityType
<1>2. Cardinality(S) = 0 => S = {}
  BY <1>1, FS_EmptySet
<1>3. ASSUME NEW p \in S, NEW q \in S, p # q
      PROVE  Cardinality(S) >= 2
  <2>1. IsFiniteSet({p}) /\ Cardinality({p}) = 1
    BY FS_Singleton
  <2>2. Cardinality({p} \cup {q}) = 2
    BY <1>3, <2>1, FS_AddElement
  <2>3. {p} \cup {q} \in SUBSET S
    OBVIOUS
  <2> HIDE DEF S
  <2>4. Cardinality({p} \cup {q}) <= Cardinality(S)
    BY <1>1, <2>3, FS_Subset
  <2> QED BY <1>1, <2>2, <2>4
<1>4. ActiveCount = Cardinality(S) + (IF svc.pc = "idle" THEN 0 ELSE 1)
  BY DEF ActiveCount
<1>5. \A p \in Reqs : p \in S <=> req[p].pc # "idle"
  BY DEF Active
<1> HIDE DEF S
<1>6. CASE ActiveCount = 0
  BY <1>1, <1>2, <1>4, <1>5, <1>6 DEF OneAtWork, Active
<1>7. CASE ActiveCount <= 1
  <2>1. \A p, q \in S : p = q
    BY <1>1, <1>3, <1>4, <1>7
  <2>2. S # {} => svc.pc = "idle"
    BY <1>1, <1>2, <1>4, <1>7
  <2> QED BY <1>1, <1>2, <1>4, <1>5, <2>1, <2>2 DEF OneAtWork, Active
<1> QED BY <1>6, <1>7

\* The cleanup is at a user of its snapshot: sets of ids have a least one.
LEMMA CurrentInTodo ==
    ASSUME TypeOK, svc.todo # {}
    PROVE  Current \in svc.todo
<1>1. svc.todo \subseteq Nat
  BY UsersAssumption DEF TypeOK, Cleanup
<1>2. PICK R : R = {ss \in Nat \X Nat : ss[1] < ss[2]} /\ IsWellFoundedOn(R, Nat)
  BY NatLessThanWellFounded DEF OpToRel
<1>3. \E u \in svc.todo : \A v \in svc.todo : <<v, u>> \notin R
  BY <1>1, <1>2, WFMin
<1>4. \A u, v \in Nat : v < u => <<v, u>> \in R
  BY <1>2
<1>5. \A u, v \in svc.todo : <<v, u>> \notin R => u <= v
  BY <1>1, <1>4
<1>6. \E u \in svc.todo : \A v \in svc.todo : u <= v
  BY <1>3, <1>5
<1> QED BY <1>6 DEF Current

----------------------------------------------------------------------------
(* The inductive invariant: what holds while one process is at work *)

RenewPcs == {"listFrozen", "unfreezeCall", "clearFlag"}

\* The limit holds, and r is about to insert only below it.
Limits(r) ==
    /\ IsFiniteSet(rows)
    /\ \A u \in Users : Cardinality(RowsOf(u)) <= MaxConfigs
    /\ r.pc = "insert" => Cardinality(RowsOf(r.user)) < MaxConfigs

\* A flag stands for a subscription that has run out, or that r has just renewed.
Flags(r) ==
    \A u \in Users : users[u].frozen =>
        /\ u \notin Admins
        /\ \/ users[u].exp = "expired"
           \/ users[u].exp = "live" /\ r.pc \in RenewPcs /\ r.user = u

\* A row whose peer r has still to create, or has already deleted.
Away(r, u, i) ==
    \/ r.pc \in {"createCall", "deleteRow"} /\ r.user = u /\ r.id = i
    \/ r.pc = "deleteUserRow" /\ r.user = u

\* The state of u's blocks: the flag's, unless r or the cleanup is about to set it.
Shut(r, u) ==
    \/ users[u].frozen /\ ~(r.pc = "clearFlag" /\ r.user = u)
    \/ svc.pc = "setFlag" /\ Current = u

PeerRight(r, u, i) ==
    /\ PeerName(u, i) \in store.json <=> HasRow(u, i) /\ ~Away(r, u, i)
    /\ store.conf[PeerName(u, i)] = IF ~(HasRow(u, i) /\ ~Away(r, u, i)) THEN "absent"
                                    ELSE IF Shut(r, u) THEN "frozen" ELSE "active"

Peers(r) == \A u \in Users, i \in Ids : PeerRight(r, u, i)

\* What r has read is still so.
Fetched(r) ==
    /\ r.pc # "rollback"
    /\ r.pc \in {"limit", "insert", "createCall"} => ~users[r.user].frozen
    /\ r.pc \in {"createCall", "deleteCall", "deleteRow"} => HasRow(r.user, r.id)
    /\ r.pc \in {"deleteAllCall", "unfreezeCall"} => r.peers = ListedNames(r.user) /\ r.peers # {}

\* What the cleanup has read is still so.
Snapshot ==
    /\ svc.pc # "idle" => svc.todo # {} /\ svc.todo \subseteq ToFreeze
    /\ svc.pc = "freezeCall" => svc.peers = ListedNames(Current) /\ svc.peers # {}

Consistent(r) == Limits(r) /\ Flags(r) /\ Peers(r) /\ Fetched(r) /\ Snapshot

\* Every request but p's has ended.
Others(p) == \A q \in Reqs : q # p => req[q].pc = "idle"

SerialNow == orphans = {} /\ \A p \in Reqs : Others(p) => Consistent(req[p])

SerialInv == alone /\ faults = 0 => SerialNow

LEMMA SerialInit == HInit => SerialInv /\ AloneInv
<1> SUFFICES ASSUME HInit PROVE SerialInv /\ AloneInv
  OBVIOUS
<1> USE DEF HInit, Init
<1>1. \A u \in Users : RowsOf(u) = {}
  BY DEF RowsOf
<1>2. IsFiniteSet(rows) /\ \A u \in Users : Cardinality(RowsOf(u)) = 0
  BY <1>1, FS_EmptySet
<1>3. ASSUME NEW p \in Reqs PROVE Consistent(req[p])
  <2>1. req[p].pc = "idle" /\ svc.pc = "idle"
    BY DEF IdleRequest, IdleCleanup
  <2>2. \A u \in Users : ~users[u].frozen
    OBVIOUS
  <2>3. \A u \in Users, i \in Ids : PeerName(u, i) \in PeerNames /\ ~HasRow(u, i)
    BY DEF HasRow, PeerName, PeerNames
  <2>4. Peers(req[p])
    BY <2>3 DEF Peers, PeerRight, EmptyStore
  <2> QED BY <1>2, <2>1, <2>2, <2>4, BoundsAssumption DEF Consistent, Limits, Flags, Fetched, Snapshot
<1>4. ActiveCount = 0
  <2>1. {p \in Reqs : Active(p)} = {}
    BY DEF Active, IdleRequest
  <2>2. Cardinality({p \in Reqs : Active(p)}) = 0
    BY <2>1, FS_EmptySet
  <2>3. svc.pc = "idle"
    BY DEF IdleCleanup
  <2> QED BY <2>2, <2>3 DEF ActiveCount
<1> QED BY <1>3, <1>4 DEF SerialInv, SerialNow, AloneInv

----------------------------------------------------------------------------
(* Steps of the request at work *)

LEMMA SerialRequest ==
    ASSUME SerialNow, OneAtWork, OneAtWork', NEW p \in Reqs, UNCHANGED <<svc, orphans>>,
           \A q \in Reqs : q # p => req'[q] = req[q],
           Active(p) \/ Active(p)',
           svc.pc = "idle" /\ Consistent(req[p]) => Consistent(req[p])'
    PROVE  SerialNow'
<1>1. Others(p) /\ svc.pc = "idle"
  BY DEF OneAtWork, Active, Others
<1>2. Consistent(req[p])'
  BY <1>1 DEF SerialNow
<1>3. ASSUME NEW q \in Reqs, Others(q)', q # p PROVE Consistent(req[q])'
  <2>1. req'[p].pc = "idle" /\ req'[q].pc = "idle"
    BY <1>1, <1>3 DEF Others
  <2>2. Limits(req[q])' /\ Flags(req[q])'
    BY <1>2, <2>1 DEF Consistent, Limits, Flags, RenewPcs
  <2>3. Peers(req[q])'
    BY <1>2, <2>1 DEF Consistent, Peers, PeerRight, Away, Shut
  <2>4. Fetched(req[q])' /\ Snapshot'
    BY <1>2, <2>1 DEF Consistent, Fetched
  <2> QED BY <2>2, <2>3, <2>4 DEF Consistent
<1> QED BY <1>2, <1>3 DEF SerialNow

\* With no failure a call does what the worker promises.
LEMMA AnsweredWell ==
    ASSUME TypeInv, faults' = 0, NEW p, NEW c, NEW reply, Answered(p, c, reply)
    PROVE  reply = Answer(store, c).reply /\ store' = Answer(store, c).store /\ UNCHANGED orphans
<1>1. ~CountFault
  BY DEF CountFault, FaultsLeft, TypeInv, TypeOK
<1> QED BY <1>1 DEF Answered, Executes

\* Fewer rows keep the limit.
LEMMA FewerRows ==
    ASSUME NEW r, Limits(r), rows' \subseteq rows
    PROVE  /\ IsFiniteSet(rows')
           /\ \A u \in Users : Cardinality(RowsOf(u)') <= MaxConfigs
<1>1. IsFiniteSet(rows')
  BY FS_Subset DEF Limits
<1>2. ASSUME NEW u \in Users PROVE Cardinality(RowsOf(u)') <= MaxConfigs
  <2>1. IsFiniteSet(RowsOf(u)) /\ RowsOf(u)' \in SUBSET RowsOf(u)
    BY FS_Subset DEF Limits, RowsOf
  <2>2. /\ Cardinality(RowsOf(u)) \in Nat /\ Cardinality(RowsOf(u)') \in Nat
        /\ Cardinality(RowsOf(u)') <= Cardinality(RowsOf(u))
    BY <2>1, FS_Subset, FS_CardinalityType
  <2> QED BY <2>2, BoundsAssumption DEF Limits
<1> QED BY <1>1, <1>2

\* A step that touches neither table nor worker, and leaves no peer to be created,
\* deleted or unfrozen.
LEMMA ConsistentQuiet ==
    ASSUME NEW p \in Reqs, Consistent(req[p]), svc.pc = "idle", UNCHANGED <<users, rows, store, svc>>,
           req[p].pc \notin {"createCall", "deleteRow", "deleteUserRow", "clearFlag"},
           req'[p].pc \notin {"createCall", "deleteRow", "deleteUserRow", "clearFlag", "insert"},
           req[p].pc \in RenewPcs => req'[p].pc \in RenewPcs /\ req'[p].user = req[p].user,
           Fetched(req[p])'
    PROVE  Consistent(req[p])'
<1>1. Limits(req[p])'
  BY FewerRows DEF Consistent, Limits
<1>2. Flags(req[p])'
  BY DEF Consistent, Flags
<1>3. Peers(req[p])'
  BY DEF Consistent, Peers, PeerRight, HasRow, Away, Shut
<1>4. Snapshot'
  BY DEF Snapshot
<1> QED BY <1>1, <1>2, <1>3, <1>4 DEF Consistent

LEMMA ConsistentStarts ==
    ASSUME TypeInv, NEW p \in Reqs, Consistent(req[p]), svc.pc = "idle", Starts(p)
    PROVE  Consistent(req[p])'
<1>1. ASSUME NEW u \in Users, NEW n \in ConfigNames, CreateConfig(p, u, n)
      PROVE  Consistent(req[p])'
  <2>1. req'[p].pc = "limit" /\ req'[p].user = u /\ req[p].pc = "idle"
    BY <1>1 DEF CreateConfig, Begin, Active, IdleRequest, TypeInv, TypeOK
  <2>2. ~users[u].frozen
    BY <1>1, <2>1 DEF CreateConfig, Consistent, Flags, RenewPcs
  <2>3. Fetched(req[p])'
    BY <1>1, <2>1, <2>2 DEF CreateConfig, Fetched
  <2> QED BY <1>1, <2>1, <2>3, ConsistentQuiet DEF CreateConfig, RenewPcs
<1>2. ASSUME NEW r \in rows, DeleteConfig(p, r)
      PROVE  Consistent(req[p])'
  <2>1. req'[p].pc = "deleteCall" /\ req'[p].user = r.user /\ req'[p].id = r.id /\ req[p].pc = "idle"
    BY <1>2 DEF DeleteConfig, Begin, Active, IdleRequest, TypeInv, TypeOK
  <2>2. Fetched(req[p])'
    BY <1>2, <2>1 DEF DeleteConfig, Fetched, HasRow
  <2> QED BY <1>2, <2>1, <2>2, ConsistentQuiet DEF DeleteConfig, RenewPcs
<1>3. ASSUME NEW u \in Users, DeleteUser(p, u) \/ PatchUser(p, u)
      PROVE  Consistent(req[p])'
  <2>1. req'[p].pc \in {"listAll", "setExpiry"} /\ req[p].pc = "idle"
    BY <1>3 DEF DeleteUser, PatchUser, Begin, Active, IdleRequest, TypeInv, TypeOK
  <2>2. Fetched(req[p])'
    BY <2>1 DEF Fetched
  <2> QED BY <1>3, <2>1, <2>2, ConsistentQuiet DEF DeleteUser, PatchUser, RenewPcs
<1> QED BY <1>1, <1>2, <1>3 DEF Starts

LEMMA ConsistentCheckLimit ==
    ASSUME TypeInv, NEW p \in Reqs, Consistent(req[p]), svc.pc = "idle", CheckLimit(p)
    PROVE  Consistent(req[p])'
<1> DEFINE u == req[p].user
<1>1. UNCHANGED <<users, rows, store, svc>> /\ req[p].pc = "limit"
  BY DEF CheckLimit
<1>2. CASE req' = Done(p)
  <2>1. req'[p].pc = "idle"
    BY <1>2 DEF Done, IdleRequest, TypeInv, TypeOK
  <2> QED BY <1>1, <2>1, ConsistentQuiet DEF Fetched, RenewPcs
<1>3. CASE ~(Cardinality(RowsOf(u)) >= MaxConfigs) /\ req' = At(p, "insert")
  <2>1. req'[p].pc = "insert" /\ req'[p].user = u
    BY <1>3 DEF At, TypeInv, TypeOK, Request
  <2>2. Cardinality(RowsOf(u)) \in Nat /\ u \in Users
    BY <1>1, FS_Subset, FS_CardinalityType DEF Consistent, Limits, RowsOf, TypeInv, LocalsOK
  <2>3. Limits(req[p])'
    <3>1. RowsOf(req[p].user)' = RowsOf(u)
      BY <1>1, <2>1 DEF RowsOf
    <3>2. Cardinality(RowsOf(u)) < MaxConfigs
      BY <1>3, <2>2, BoundsAssumption
    <3> HIDE DEF u
    <3>3. Cardinality(RowsOf(req[p].user)') < MaxConfigs
      BY <3>1, <3>2
    <3> QED BY <1>1, <3>3, FewerRows DEF Consistent, Limits
  <2>4. Flags(req[p])'
    BY <1>1, <2>1 DEF Consistent, Flags, RenewPcs
  <2>5. Peers(req[p])'
    BY <1>1, <2>1 DEF Consistent, Peers, PeerRight, HasRow, Away, Shut
  <2>6. Fetched(req[p])' /\ Snapshot'
    BY <1>1, <2>1 DEF Consistent, Fetched, Snapshot
  <2> QED BY <2>3, <2>4, <2>5, <2>6 DEF Consistent
<1> QED BY <1>2, <1>3 DEF CheckLimit

LEMMA ConsistentInsertRow ==
    ASSUME TypeInv, NEW p \in Reqs, Consistent(req[p]), svc.pc = "idle", InsertRow(p)
    PROVE  Consistent(req[p])'
<1> DEFINE u == req[p].user
           row == [id |-> nextId, user |-> u, name |-> req[p].name]
<1>1. UNCHANGED <<users, store, svc>> /\ req[p].pc = "insert" /\ u \in Users
  BY DEF InsertRow, TypeInv, LocalsOK
<1>2. CASE req' = Done(p) /\ UNCHANGED rows
  <2>1. req'[p].pc = "idle"
    BY <1>2 DEF Done, IdleRequest, TypeInv, TypeOK
  <2> QED BY <1>1, <1>2, <2>1, ConsistentQuiet DEF Fetched, RenewPcs
<1>3. CASE rows' = rows \cup {row} /\ req' = [req EXCEPT ![p].pc = "createCall", ![p].id = nextId]
  <2>1. req'[p].pc = "createCall" /\ req'[p].user = u /\ req'[p].id = nextId
    BY <1>3 DEF TypeInv, TypeOK, Request
  <2>2. row.id = nextId /\ row.user = u
    OBVIOUS
  <2> HIDE DEF row
  <2>3. IsFiniteSet(rows') /\ \A v \in Users : Cardinality(RowsOf(v)') <= MaxConfigs
    <3>1. IsFiniteSet(rows')
      BY <1>3, FS_AddElement DEF Consistent, Limits
    <3>2. ASSUME NEW v \in Users PROVE Cardinality(RowsOf(v)') <= MaxConfigs
      <4>1. IsFiniteSet(RowsOf(v)) /\ Cardinality(RowsOf(v)) \in Nat
        BY FS_Subset, FS_CardinalityType DEF Consistent, Limits, RowsOf
      <4>2. CASE v = u
        <5>1. RowsOf(v)' = RowsOf(v) \cup {row}
          BY <1>3, <2>2, <4>2 DEF RowsOf
        <5>2. Cardinality(RowsOf(v)) < MaxConfigs
          BY <1>1, <4>2 DEF Consistent, Limits
        <5> HIDE DEF u
        <5>3. Cardinality(RowsOf(v) \cup {row}) <= Cardinality(RowsOf(v)) + 1
          <6>1. Cardinality(RowsOf(v) \cup {row})
                  = IF row \in RowsOf(v) THEN Cardinality(RowsOf(v)) ELSE Cardinality(RowsOf(v)) + 1
            BY <4>1, FS_AddElement
          <6> QED BY <4>1, <6>1
        <5>4. Cardinality(RowsOf(v) \cup {row}) \in Nat
          BY <4>1, FS_AddElement, FS_CardinalityType
        <5> QED BY <4>1, <5>1, <5>2, <5>3, <5>4, BoundsAssumption
      <4>3. CASE v # u
        <5>1. RowsOf(v)' = RowsOf(v)
          BY <1>3, <2>2, <4>3 DEF RowsOf
        <5> QED BY <5>1 DEF Consistent, Limits
      <4> QED BY <4>2, <4>3
    <3> QED BY <3>1, <3>2
  <2>4. Limits(req[p])'
    BY <2>1, <2>3 DEF Limits
  <2>5. Flags(req[p])'
    BY <1>1, <2>1 DEF Consistent, Flags, RenewPcs
  <2>6. ASSUME NEW v \in Users, NEW i \in Ids PROVE PeerRight(req[p], v, i)'
    <3>1. HasRow(v, i)' <=> HasRow(v, i) \/ (v = u /\ i = nextId)
      BY <1>3, <2>2 DEF HasRow
    <3>2. Away(req[p], v, i)' <=> v = u /\ i = nextId
      BY <2>1 DEF Away
    <3>3. v = u /\ i = nextId => ~HasRow(v, i)
      BY DEF HasRow, TypeInv, TypeOK, RowsAreKeyed, Ids
    <3>4. ~Away(req[p], v, i) /\ (Shut(req[p], v)' <=> Shut(req[p], v))
      BY <1>1, <2>1 DEF Away, Shut
    <3>5. PeerRight(req[p], v, i)
      BY DEF Consistent, Peers
    <3> QED BY <1>1, <3>1, <3>2, <3>3, <3>4, <3>5 DEF PeerRight
  <2>7. Fetched(req[p])'
    <3>1. \E r \in rows' : r.user = req'[p].user /\ r.id = req'[p].id
      BY <1>3, <2>1, <2>2
    <3> QED BY <1>1, <2>1, <3>1 DEF Consistent, Fetched, HasRow
  <2>8. Snapshot'
    BY <1>1 DEF Snapshot
  <2> QED BY <2>4, <2>5, <2>6, <2>7, <2>8 DEF Consistent, Peers
<1> QED BY <1>2, <1>3 DEF InsertRow

\* What a peer's name says, and when two are equal.
LEMMA NamesDiffer ==
    \A u, v \in Users, i, j \in Ids :
        /\ PeerName(u, i) \in PeerNames
        /\ PeerName(u, i) = PeerName(v, j) <=> u = v /\ i = j
BY DEF PeerName, PeerNames

\* The row is inserted and both files are whole, so the worker creates its peer and
\* says so.
LEMMA ConsistentCreateAnswered ==
    ASSUME TypeInv, NEW p \in Reqs, Consistent(req[p]), svc.pc = "idle", store.torn = {},
           faults' = 0, CreateAnswered(p)
    PROVE  Consistent(req[p])' /\ UNCHANGED orphans
<1>1. PICK u \in Users, i \in Ids : u = req[p].user /\ i = req[p].id
  BY DEF CreateAnswered, TypeInv, LocalsOK
<1>2. PICK reply \in Reply :
         /\ Answered(p, CallOf(req[p]), reply)
         /\ req' = IF reply = "ok" THEN Done(p) ELSE At(p, "rollback")
  BY DEF CreateAnswered
<1>3. UNCHANGED <<users, rows, svc>> /\ req[p].pc = "createCall"
  BY DEF CreateAnswered
<1>4. HasRow(u, i) /\ ~users[u].frozen /\ PeerRight(req[p], u, i)
  BY <1>1, <1>3 DEF Consistent, Peers, Fetched
<1>5. PeerName(u, i) \notin store.json
  BY <1>1, <1>3, <1>4 DEF PeerRight, Away
<1>6. CallOf(req[p]) = Call("create", {PeerName(u, i)})
  BY <1>1, <1>3 DEF CallOf
<1>7. /\ reply = "ok" /\ UNCHANGED orphans
      /\ store' = WithPeers(store, {PeerName(u, i)})
  BY <1>2, <1>5, <1>6, AnsweredWell DEF Call, Answer, CreateResult, CreateRefused, Result
<1>8. req'[p].pc = "idle"
  BY <1>2, <1>7 DEF Done, IdleRequest, TypeInv, TypeOK
<1>9. /\ store'.json = store.json \cup {PeerName(u, i)}
      /\ \A n \in PeerNames :
            store'.conf[n] = IF n = PeerName(u, i) THEN "active" ELSE store.conf[n]
  BY <1>7 DEF WithPeers, WithBlocks
<1>10. ASSUME NEW v \in Users, NEW j \in Ids PROVE PeerRight(req[p], v, j)'
  <2>1. (HasRow(v, j)' <=> HasRow(v, j)) /\ ~Away(req[p], v, j)'
    BY <1>3, <1>8 DEF HasRow, Away
  <2>2. Shut(req[p], v)' <=> users[v].frozen
    BY <1>3, <1>8 DEF Shut
  <2>3. (Shut(req[p], v) <=> users[v].frozen) /\ (Away(req[p], v, j) <=> v = u /\ j = i)
    BY <1>1, <1>3 DEF Shut, Away
  <2>4. PeerRight(req[p], v, j)
    BY DEF Consistent, Peers
  <2>5. PeerName(v, j) \in PeerNames /\ (PeerName(v, j) = PeerName(u, i) <=> v = u /\ j = i)
    BY NamesDiffer
  <2> QED BY <1>4, <1>9, <2>1, <2>2, <2>3, <2>4, <2>5 DEF PeerRight
<1>11. Limits(req[p])' /\ Flags(req[p])'
  BY <1>3, <1>8, FewerRows DEF Consistent, Limits, Flags, RenewPcs
<1>12. Fetched(req[p])' /\ Snapshot'
  BY <1>3, <1>8 DEF Fetched, Snapshot
<1> QED BY <1>7, <1>10, <1>11, <1>12 DEF Consistent, Peers

\* The peer is on the worker, so it is deleted there before its row goes.
LEMMA ConsistentDeleteAnswered ==
    ASSUME TypeInv, NEW p \in Reqs, Consistent(req[p]), svc.pc = "idle", faults' = 0,
           DeleteAnswered(p)
    PROVE  Consistent(req[p])' /\ UNCHANGED orphans
<1>1. PICK u \in Users, i \in Ids : u = req[p].user /\ i = req[p].id
  BY DEF DeleteAnswered, TypeInv, LocalsOK
<1>2. PICK reply \in Reply :
         /\ Answered(p, CallOf(req[p]), reply)
         /\ req' = IF reply = "ok" THEN At(p, "deleteRow") ELSE Done(p)
  BY DEF DeleteAnswered
<1>3. UNCHANGED <<users, rows, svc>> /\ req[p].pc = "deleteCall"
  BY DEF DeleteAnswered
<1>4. HasRow(u, i) /\ PeerRight(req[p], u, i)
  BY <1>1, <1>3 DEF Consistent, Peers, Fetched
<1>5. PeerName(u, i) \in store.json
  BY <1>3, <1>4 DEF PeerRight, Away
<1>6. CallOf(req[p]) = Call("delete", {PeerName(u, i)}) /\ {PeerName(u, i)} \cap store.json = {PeerName(u, i)}
  BY <1>1, <1>3, <1>5 DEF CallOf
<1>7. /\ reply = "ok" /\ UNCHANGED orphans
      /\ store' = WithoutPeers(store, {PeerName(u, i)})
  <2>1. Answer(store, CallOf(req[p])) = Result(WithoutPeers(store, {PeerName(u, i)}), "ok")
    BY <1>6 DEF Call, Answer, DeleteResult
  <2> QED BY <1>2, <2>1, AnsweredWell DEF Result
<1>8. req'[p].pc = "deleteRow" /\ req'[p].user = u /\ req'[p].id = i
  BY <1>1, <1>2, <1>7 DEF At, TypeInv, TypeOK, Request
<1>9. /\ store'.json = store.json \ {PeerName(u, i)}
      /\ \A n \in PeerNames :
            store'.conf[n] = IF n = PeerName(u, i) THEN "absent" ELSE store.conf[n]
  BY <1>7 DEF WithoutPeers, WithoutBlocks
<1>10. ASSUME NEW v \in Users, NEW j \in Ids PROVE PeerRight(req[p], v, j)'
  <2>1. (HasRow(v, j)' <=> HasRow(v, j)) /\ (Away(req[p], v, j)' <=> v = u /\ j = i)
    BY <1>3, <1>8 DEF HasRow, Away
  <2>2. Shut(req[p], v)' <=> Shut(req[p], v)
    BY <1>3, <1>8 DEF Shut
  <2>3. ~Away(req[p], v, j) /\ PeerRight(req[p], v, j)
    BY <1>3 DEF Away, Consistent, Peers
  <2>4. PeerName(v, j) \in PeerNames /\ (PeerName(v, j) = PeerName(u, i) <=> v = u /\ j = i)
    BY NamesDiffer
  <2> QED BY <1>9, <2>1, <2>2, <2>3, <2>4 DEF PeerRight
<1>11. Limits(req[p])' /\ Flags(req[p])'
  BY <1>3, <1>8, FewerRows DEF Consistent, Limits, Flags, RenewPcs
<1>12. Fetched(req[p])' /\ Snapshot'
  BY <1>3, <1>4, <1>8 DEF Fetched, HasRow, Snapshot
<1> QED BY <1>7, <1>10, <1>11, <1>12 DEF Consistent, Peers

LEMMA ConsistentDeleteRow ==
    ASSUME TypeInv, NEW p \in Reqs, Consistent(req[p]), svc.pc = "idle", DeleteRow(p)
    PROVE  Consistent(req[p])'
<1>1. PICK u \in Users, i \in Ids : u = req[p].user /\ i = req[p].id
  BY DEF DeleteRow, TypeInv, LocalsOK
<1>2. UNCHANGED <<users, store, svc>> /\ req[p].pc = "deleteRow" /\ rows' = {r \in rows : r.id # i}
  BY <1>1 DEF DeleteRow, WithoutRow
<1>3. req'[p].pc = "idle"
  BY DEF DeleteRow, Done, IdleRequest, TypeInv, TypeOK
<1>4. HasRow(u, i)
  BY <1>1, <1>2 DEF Consistent, Fetched
<1>5. ASSUME NEW v \in Users, NEW j \in Ids PROVE PeerRight(req[p], v, j)'
  <2>1. HasRow(v, j)' <=> HasRow(v, j) /\ j # i
    BY <1>2 DEF HasRow
  <2>2. HasRow(v, j) /\ j = i => v = u
    BY <1>4 DEF HasRow, TypeInv, TypeOK, RowsAreKeyed
  <2>3. ~Away(req[p], v, j)' /\ (Away(req[p], v, j) <=> v = u /\ j = i)
    BY <1>1, <1>2, <1>3 DEF Away
  <2>4. (Shut(req[p], v)' <=> Shut(req[p], v)) /\ PeerRight(req[p], v, j)
    BY <1>2, <1>3 DEF Shut, Consistent, Peers
  <2> QED BY <1>2, <2>1, <2>2, <2>3, <2>4 DEF PeerRight
<1>6. rows' \subseteq rows
  BY <1>2
<1>7. Limits(req[p])' /\ Flags(req[p])'
  BY <1>2, <1>3, <1>6, FewerRows DEF Consistent, Limits, Flags, RenewPcs
<1>8. Fetched(req[p])' /\ Snapshot'
  BY <1>2, <1>3 DEF Fetched, Snapshot
<1> QED BY <1>5, <1>7, <1>8 DEF Consistent, Peers

\* A user's names are those of the rows.
LEMMA Listed ==
    ASSUME TypeOK, NEW u \in Users, NEW v \in Users, NEW i \in Ids
    PROVE  PeerName(v, i) \in ListedNames(u) <=> v = u /\ HasRow(v, i)
BY NamesDiffer DEF TypeOK, ListedNames, RowsOf, HasRow

LEMMA ConsistentListAll ==
    ASSUME TypeInv, NEW p \in Reqs, Consistent(req[p]), svc.pc = "idle", ListAll(p)
    PROVE  Consistent(req[p])'
<1>1. PICK u \in Users : u = req[p].user
  BY DEF ListAll, TypeInv, LocalsOK
<1>2. UNCHANGED <<users, rows, store, svc>> /\ req[p].pc = "listAll"
  BY DEF ListAll
<1>3. /\ req'[p].pc = IF ListedNames(u) = {} THEN "deleteUserRow" ELSE "deleteAllCall"
      /\ req'[p].user = u /\ req'[p].peers = ListedNames(u)
  BY <1>1 DEF ListAll, TypeInv, TypeOK, Request
<1>4. ListedNames(u)' = ListedNames(u)
  BY <1>2 DEF ListedNames, RowsOf
<1>5. ASSUME NEW v \in Users, NEW i \in Ids PROVE PeerRight(req[p], v, i)'
  <2>1. HasRow(v, i)' <=> HasRow(v, i)
    BY <1>2 DEF HasRow
  <2>2. HasRow(v, i) => ~Away(req[p], v, i)'
    BY <1>3, Listed DEF Away, TypeInv
  <2>3. ~Away(req[p], v, i) /\ (Shut(req[p], v)' <=> Shut(req[p], v)) /\ PeerRight(req[p], v, i)
    BY <1>2, <1>3 DEF Away, Shut, Consistent, Peers
  <2> QED BY <1>2, <2>1, <2>2, <2>3 DEF PeerRight
<1>6. Limits(req[p])' /\ Flags(req[p])'
  BY <1>2, <1>3, FewerRows DEF Consistent, Limits, Flags, RenewPcs
<1>7. Fetched(req[p])' /\ Snapshot'
  <2>1. ListedNames(req[p].user)' = ListedNames(u)
    BY <1>3, <1>4 DEF ListedNames, RowsOf
  <2> QED BY <1>2, <1>3, <2>1 DEF Fetched, Snapshot
<1> QED BY <1>5, <1>6, <1>7 DEF Consistent, Peers

\* All the peers of the user are on the worker, so they are deleted there.
LEMMA ConsistentDeleteAllAnswered ==
    ASSUME TypeInv, NEW p \in Reqs, Consistent(req[p]), svc.pc = "idle", faults' = 0,
           DeleteAllAnswered(p)
    PROVE  Consistent(req[p])' /\ UNCHANGED orphans
<1>1. PICK u \in Users : u = req[p].user
  BY DEF DeleteAllAnswered, TypeInv, LocalsOK
<1>2. PICK ns : ns = ListedNames(u)
  OBVIOUS
<1>3. PICK reply \in Reply :
         /\ Answered(p, CallOf(req[p]), reply)
         /\ req' = IF reply = "ok" THEN At(p, "deleteUserRow") ELSE Done(p)
  BY DEF DeleteAllAnswered
<1>4. UNCHANGED <<users, rows, svc>> /\ req[p].pc = "deleteAllCall"
  BY DEF DeleteAllAnswered
<1>5. CallOf(req[p]) = Call("delete", ns) /\ ns # {}
  BY <1>1, <1>2, <1>4 DEF CallOf, Consistent, Fetched
<1>6. \A v \in Users, i \in Ids : /\ PeerName(v, i) \in ns <=> v = u /\ HasRow(v, i)
                                  /\ PeerName(v, i) \in store.json <=> HasRow(v, i)
  BY <1>2, <1>4, Listed DEF Away, Consistent, Peers, PeerRight, TypeInv
<1>7. ns \subseteq store.json
  <2>1. \A n \in ns : \E i \in Ids : n = PeerName(u, i)
    BY <1>2 DEF ListedNames, RowsOf, TypeInv, TypeOK
  <2> QED BY <1>6, <2>1
<1>8. Answer(store, CallOf(req[p])) = Result(WithoutPeers(store, ns), "ok")
  <2>1. ns \cap store.json = ns /\ ns # {}
    BY <1>5, <1>7
  <2> QED BY <1>5, <2>1 DEF Call, Answer, DeleteResult
<1>9. reply = "ok" /\ UNCHANGED orphans /\ store' = WithoutPeers(store, ns)
  BY <1>3, <1>8, AnsweredWell DEF Result
<1>10. req'[p].pc = "deleteUserRow" /\ req'[p].user = u
  BY <1>1, <1>3, <1>9 DEF At, TypeInv, TypeOK, Request
<1>11. /\ store'.json = store.json \ ns
       /\ \A n \in PeerNames : store'.conf[n] = IF n \in ns THEN "absent" ELSE store.conf[n]
  BY <1>9 DEF WithoutPeers, WithoutBlocks
<1>12. ASSUME NEW v \in Users, NEW i \in Ids PROVE PeerRight(req[p], v, i)'
  <2>1. (HasRow(v, i)' <=> HasRow(v, i)) /\ (Away(req[p], v, i)' <=> v = u)
    BY <1>4, <1>10 DEF HasRow, Away
  <2>2. Shut(req[p], v)' <=> Shut(req[p], v)
    BY <1>4, <1>10 DEF Shut
  <2>3. ~Away(req[p], v, i) /\ PeerRight(req[p], v, i)
    BY <1>4 DEF Away, Consistent, Peers
  <2>4. PeerName(v, i) \in PeerNames
    BY NamesDiffer
  <2> QED BY <1>6, <1>11, <2>1, <2>2, <2>3, <2>4 DEF PeerRight
<1>13. Limits(req[p])' /\ Flags(req[p])'
  BY <1>4, <1>10, FewerRows DEF Consistent, Limits, Flags, RenewPcs
<1>14. Fetched(req[p])' /\ Snapshot'
  BY <1>4, <1>10 DEF Fetched, Snapshot
<1> QED BY <1>9, <1>12, <1>13, <1>14 DEF Consistent, Peers

LEMMA ConsistentDeleteUserRow ==
    ASSUME TypeInv, NEW p \in Reqs, Consistent(req[p]), svc.pc = "idle", DeleteUserRow(p)
    PROVE  Consistent(req[p])'
<1>1. PICK u \in Users : u = req[p].user
  BY DEF DeleteUserRow, TypeInv, LocalsOK
<1>2. UNCHANGED <<store, svc>> /\ req[p].pc = "deleteUserRow" /\ rows' = {r \in rows : r.user # u}
  BY <1>1 DEF DeleteUserRow, RowsOf
<1>3. \A v \in Users : users'[v] = IF v = u THEN [exp |-> "gone", frozen |-> FALSE] ELSE users[v]
  BY <1>1 DEF DeleteUserRow, TypeInv, TypeOK
<1>4. req'[p].pc = "idle"
  BY DEF DeleteUserRow, Done, IdleRequest, TypeInv, TypeOK
<1>5. ASSUME NEW v \in Users, NEW i \in Ids PROVE PeerRight(req[p], v, i)'
  <2>1. HasRow(v, i)' <=> HasRow(v, i) /\ v # u
    BY <1>2 DEF HasRow
  <2>2. ~Away(req[p], v, i)' /\ (Away(req[p], v, i) <=> v = u)
    BY <1>1, <1>2, <1>4 DEF Away
  <2>3. v # u => (Shut(req[p], v)' <=> Shut(req[p], v))
    BY <1>2, <1>3, <1>4 DEF Shut
  <2>4. PeerRight(req[p], v, i)
    BY DEF Consistent, Peers
  <2> QED BY <1>2, <2>1, <2>2, <2>3, <2>4 DEF PeerRight
<1>6. rows' \subseteq rows
  BY <1>2
<1>7. Limits(req[p])' /\ Flags(req[p])'
  <2>1. Limits(req[p])'
    BY <1>4, <1>6, FewerRows DEF Consistent, Limits
  <2>2. Flags(req[p])'
    BY <1>2, <1>3, <1>4 DEF Consistent, Flags, RenewPcs
  <2> QED BY <2>1, <2>2
<1>8. Fetched(req[p])' /\ Snapshot'
  BY <1>2, <1>4 DEF Fetched, Snapshot
<1> QED BY <1>5, <1>7, <1>8 DEF Consistent, Peers

\* A flag outlives the date that is moved.
LEMMA ConsistentSetExpiry ==
    ASSUME TypeInv, NEW p \in Reqs, Consistent(req[p]), svc.pc = "idle", SetExpiry(p)
    PROVE  Consistent(req[p])'
<1>1. PICK u \in Users : u = req[p].user
  BY DEF SetExpiry, TypeInv, LocalsOK
<1>2. UNCHANGED <<rows, store, svc>> /\ req[p].pc = "setExpiry"
  BY DEF SetExpiry
<1>3. CASE req' = Done(p) /\ UNCHANGED users
  <2>1. req'[p].pc = "idle"
    BY <1>3 DEF Done, IdleRequest, TypeInv, TypeOK
  <2> QED BY <1>2, <1>3, <2>1, ConsistentQuiet DEF Fetched, RenewPcs
<1>4. CASE users' = [users EXCEPT ![u].exp = "live"] /\ req' = At(p, "listFrozen")
  <2>1. req'[p].pc = "listFrozen" /\ req'[p].user = u
    BY <1>1, <1>4 DEF At, TypeInv, TypeOK, Request
  <2>2. \A v \in Users : /\ users'[v].frozen = users[v].frozen
                         /\ users'[v].exp = IF v = u THEN "live" ELSE users[v].exp
    BY <1>4 DEF TypeInv, TypeOK
  <2>3. Flags(req[p])'
    BY <1>2, <2>1, <2>2 DEF Consistent, Flags, RenewPcs
  <2>4. Peers(req[p])'
    BY <1>2, <2>1, <2>2 DEF Consistent, Peers, PeerRight, HasRow, Away, Shut
  <2>5. Limits(req[p])' /\ Fetched(req[p])' /\ Snapshot'
    BY <1>2, <2>1, FewerRows DEF Consistent, Limits, Fetched, Snapshot
  <2> QED BY <2>3, <2>4, <2>5 DEF Consistent
<1> QED BY <1>1, <1>3, <1>4 DEF SetExpiry

LEMMA ConsistentListFrozen ==
    ASSUME TypeInv, NEW p \in Reqs, Consistent(req[p]), svc.pc = "idle", ListFrozen(p)
    PROVE  Consistent(req[p])'
<1>1. PICK u \in Users : u = req[p].user
  BY DEF ListFrozen, TypeInv, LocalsOK
<1>2. UNCHANGED <<users, rows, store, svc>> /\ req[p].pc = "listFrozen"
  BY DEF ListFrozen
<1>3. /\ req'[p].pc = IF ListedNames(u) = {} THEN "clearFlag" ELSE "unfreezeCall"
      /\ req'[p].user = u /\ req'[p].peers = ListedNames(u)
  BY <1>1 DEF ListFrozen, TypeInv, TypeOK, Request
<1>4. ASSUME NEW v \in Users, NEW i \in Ids PROVE PeerRight(req[p], v, i)'
  <2>1. HasRow(v, i)' <=> HasRow(v, i)
    BY <1>2 DEF HasRow
  <2>2. ~Away(req[p], v, i)' /\ ~Away(req[p], v, i)
    BY <1>2, <1>3 DEF Away
  <2>3. HasRow(v, i) => (Shut(req[p], v)' <=> Shut(req[p], v))
    BY <1>2, <1>3, Listed DEF Shut, TypeInv
  <2>4. PeerRight(req[p], v, i)
    BY DEF Consistent, Peers
  <2> QED BY <1>2, <2>1, <2>2, <2>3, <2>4 DEF PeerRight
<1>5. Limits(req[p])' /\ Flags(req[p])'
  BY <1>1, <1>2, <1>3, FewerRows DEF Consistent, Limits, Flags, RenewPcs
<1>6. Fetched(req[p])' /\ Snapshot'
  <2>1. ListedNames(req[p].user)' = ListedNames(u)
    BY <1>2, <1>3 DEF ListedNames, RowsOf
  <2> QED BY <1>2, <1>3, <2>1 DEF Fetched, Snapshot
<1> QED BY <1>4, <1>5, <1>6 DEF Consistent, Peers

\* All the peers of the user are on the worker, so they are let in again.
LEMMA ConsistentUnfreezeAnswered ==
    ASSUME TypeInv, NEW p \in Reqs, Consistent(req[p]), svc.pc = "idle", faults' = 0,
           UnfreezeAnswered(p)
    PROVE  Consistent(req[p])' /\ UNCHANGED orphans
<1>1. PICK u \in Users : u = req[p].user
  BY DEF UnfreezeAnswered, TypeInv, LocalsOK
<1>2. PICK ns : ns = ListedNames(u)
  OBVIOUS
<1>3. PICK reply \in Reply :
         /\ Answered(p, CallOf(req[p]), reply)
         /\ req' = IF reply = "ok" THEN At(p, "clearFlag") ELSE Done(p)
  BY DEF UnfreezeAnswered
<1>4. UNCHANGED <<users, rows, svc>> /\ req[p].pc = "unfreezeCall"
  BY DEF UnfreezeAnswered
<1>5. CallOf(req[p]) = Call("unfreeze", ns) /\ ns # {}
  BY <1>1, <1>2, <1>4 DEF CallOf, Consistent, Fetched
<1>6. \A v \in Users, i \in Ids : /\ PeerName(v, i) \in ns <=> v = u /\ HasRow(v, i)
                                  /\ PeerName(v, i) \in store.json <=> HasRow(v, i)
  BY <1>2, <1>4, Listed DEF Away, Consistent, Peers, PeerRight, TypeInv
<1>7. ns \cap store.json # {}
  <2>1. \A n \in ns : \E i \in Ids : n = PeerName(u, i)
    BY <1>2 DEF ListedNames, RowsOf, TypeInv, TypeOK
  <2> QED BY <1>5, <1>6, <2>1
<1>8. Answer(store, CallOf(req[p])) = Result(Unfrozen(store, ns), "ok")
  BY <1>5, <1>7 DEF Call, Answer, UnfreezeResult
<1>9. reply = "ok" /\ UNCHANGED orphans /\ store' = Unfrozen(store, ns)
  BY <1>3, <1>8, AnsweredWell DEF Result
<1>10. req'[p].pc = "clearFlag" /\ req'[p].user = u
  BY <1>1, <1>3, <1>9 DEF At, TypeInv, TypeOK, Request
<1>11. /\ store'.json = store.json
       /\ \A n \in PeerNames :
             store'.conf[n] = IF n \in ns \cap store.json /\ store.conf[n] = "frozen"
                                THEN "active" ELSE store.conf[n]
  BY <1>9 DEF Unfrozen, WithState
<1>12. ASSUME NEW v \in Users, NEW i \in Ids PROVE PeerRight(req[p], v, i)'
  <2>1. (HasRow(v, i)' <=> HasRow(v, i)) /\ ~Away(req[p], v, i)'
    BY <1>4, <1>10 DEF HasRow, Away
  <2>2. Shut(req[p], v)' <=> Shut(req[p], v) /\ v # u
    BY <1>4, <1>10 DEF Shut
  <2>3. ~Away(req[p], v, i) /\ PeerRight(req[p], v, i)
    BY <1>4 DEF Away, Consistent, Peers
  <2>4. PeerName(v, i) \in PeerNames
    BY NamesDiffer
  <2> QED BY <1>6, <1>11, <2>1, <2>2, <2>3, <2>4 DEF PeerRight
<1>13. Limits(req[p])' /\ Flags(req[p])'
  BY <1>1, <1>4, <1>10, FewerRows DEF Consistent, Limits, Flags, RenewPcs
<1>14. Fetched(req[p])' /\ Snapshot'
  BY <1>4, <1>10 DEF Fetched, Snapshot
<1> QED BY <1>9, <1>12, <1>13, <1>14 DEF Consistent, Peers

LEMMA ConsistentClearFlag ==
    ASSUME TypeInv, NEW p \in Reqs, Consistent(req[p]), svc.pc = "idle", ClearFlag(p)
    PROVE  Consistent(req[p])'
<1>1. PICK u \in Users : u = req[p].user
  BY DEF ClearFlag, TypeInv, LocalsOK
<1>2. UNCHANGED <<rows, store, svc>> /\ req[p].pc = "clearFlag"
  BY DEF ClearFlag
<1>3. req'[p].pc = "idle"
  BY DEF ClearFlag, Done, IdleRequest, TypeInv, TypeOK
<1>4. \A v \in Users : users'[v].exp = users[v].exp /\ (users'[v].frozen <=> users[v].frozen /\ v # u)
  <2>1. CASE Exists(u)
    <3>1. users' = [users EXCEPT ![u].frozen = FALSE]
      BY <1>1, <2>1 DEF ClearFlag, SetFrozen
    <3> QED BY <3>1 DEF TypeInv, TypeOK
  <2>2. CASE ~Exists(u)
    <3>1. UNCHANGED users
      BY <1>1, <2>2 DEF ClearFlag, SetFrozen
    <3>2. ~users[u].frozen
      BY <2>2 DEF Exists, Consistent, Flags
    <3> QED BY <3>1, <3>2
  <2> QED BY <2>1, <2>2
<1>5. ASSUME NEW v \in Users, NEW i \in Ids PROVE PeerRight(req[p], v, i)'
  <2>1. (HasRow(v, i)' <=> HasRow(v, i)) /\ ~Away(req[p], v, i)' /\ ~Away(req[p], v, i)
    BY <1>2, <1>3 DEF HasRow, Away
  <2>2. Shut(req[p], v)' <=> Shut(req[p], v)
    BY <1>1, <1>2, <1>3, <1>4 DEF Shut
  <2>3. PeerRight(req[p], v, i)
    BY DEF Consistent, Peers
  <2> QED BY <1>2, <2>1, <2>2, <2>3 DEF PeerRight
<1>6. Flags(req[p])'
  BY <1>1, <1>3, <1>4 DEF Consistent, Flags, RenewPcs
<1>7. Limits(req[p])' /\ Fetched(req[p])' /\ Snapshot'
  BY <1>2, <1>3, FewerRows DEF Consistent, Limits, Fetched, Snapshot
<1> QED BY <1>5, <1>6, <1>7 DEF Consistent, Peers

\* A request at work keeps everything in step.
LEMMA ConsistentContinues ==
    ASSUME TypeInv, NEW p \in Reqs, Consistent(req[p]), svc.pc = "idle", store.torn = {},
           faults' = 0, Continues(p)
    PROVE  Consistent(req[p])' /\ UNCHANGED orphans
<1>1. ~RollBack(p)
  BY DEF RollBack, Consistent, Fetched
<1>2. CASE CheckLimit(p) \/ InsertRow(p) \/ DeleteRow(p) \/ ListAll(p) \/ DeleteUserRow(p)
  BY <1>2, ConsistentCheckLimit, ConsistentInsertRow, ConsistentDeleteRow, ConsistentListAll,
     ConsistentDeleteUserRow DEF CheckLimit, InsertRow, DeleteRow, ListAll, DeleteUserRow
<1>3. CASE SetExpiry(p) \/ ListFrozen(p) \/ ClearFlag(p)
  BY <1>3, ConsistentSetExpiry, ConsistentListFrozen, ConsistentClearFlag
     DEF SetExpiry, ListFrozen, ClearFlag
<1>4. CASE CreateAnswered(p) \/ DeleteAnswered(p) \/ DeleteAllAnswered(p) \/ UnfreezeAnswered(p)
  BY <1>4, ConsistentCreateAnswered, ConsistentDeleteAnswered, ConsistentDeleteAllAnswered,
     ConsistentUnfreezeAnswered
<1> QED BY <1>1, <1>2, <1>3, <1>4 DEF Continues

LEMMA SerialRequests ==
    ASSUME TypeInv, OneAtWork, OneAtWork', SerialNow, store.torn = {}, faults' = 0, NEW p \in Reqs,
           Starts(p) \/ Continues(p)
    PROVE  SerialNow'
<1>1. UNCHANGED svc /\ \A q \in Reqs : q # p => req'[q] = req[q]
  <2>1. CASE Starts(p)
    BY <2>1 DEF Starts, CreateConfig, DeleteConfig, DeleteUser, PatchUser, Begin, TypeInv, TypeOK
  <2>2. CASE CheckLimit(p) \/ InsertRow(p) \/ CreateAnswered(p) \/ RollBack(p)
    BY <2>2 DEF CheckLimit, InsertRow, CreateAnswered, RollBack, At, Done, TypeInv, TypeOK
  <2>3. CASE DeleteAnswered(p) \/ DeleteRow(p) \/ ListAll(p) \/ DeleteAllAnswered(p) \/ DeleteUserRow(p)
    BY <2>3 DEF DeleteAnswered, DeleteRow, ListAll, DeleteAllAnswered, DeleteUserRow, At, Done,
                TypeInv, TypeOK
  <2>4. CASE SetExpiry(p) \/ ListFrozen(p) \/ UnfreezeAnswered(p) \/ ClearFlag(p)
    BY <2>4 DEF SetExpiry, ListFrozen, UnfreezeAnswered, ClearFlag, At, Done, TypeInv, TypeOK
  <2> QED BY <2>1, <2>2, <2>3, <2>4 DEF Continues
<1>2. CASE Starts(p)
  <2>1. UNCHANGED orphans
    BY <1>2 DEF Starts, CreateConfig, DeleteConfig, DeleteUser, PatchUser
  <2>2. Active(p)'
    <3>1. ASSUME NEW u \in Users, NEW n \in ConfigNames, CreateConfig(p, u, n)
          PROVE  Active(p)'
      BY <3>1 DEF CreateConfig, Begin, Active, IdleRequest, TypeInv, TypeOK
    <3>2. ASSUME NEW r \in rows, DeleteConfig(p, r)
          PROVE  Active(p)'
      BY <3>2 DEF DeleteConfig, Begin, Active, IdleRequest, TypeInv, TypeOK
    <3>3. ASSUME NEW u \in Users, DeleteUser(p, u) \/ PatchUser(p, u)
          PROVE  Active(p)'
      BY <3>3 DEF DeleteUser, PatchUser, Begin, Active, IdleRequest, TypeInv, TypeOK
    <3> QED BY <1>2, <3>1, <3>2, <3>3 DEF Starts
  <2> QED BY <1>1, <1>2, <2>1, <2>2, ConsistentStarts, SerialRequest
<1>3. CASE Continues(p)
  <2>1. Active(p)
    BY <1>3 DEF Continues, Active, CheckLimit, InsertRow, CreateAnswered, RollBack, DeleteAnswered,
                DeleteRow, ListAll, DeleteAllAnswered, DeleteUserRow, SetExpiry, ListFrozen,
                UnfreezeAnswered, ClearFlag
  <2>2. svc.pc = "idle" /\ Others(p)
    BY <2>1 DEF OneAtWork, Active, Others
  <2>3. Consistent(req[p])' /\ UNCHANGED orphans
    BY <1>3, <2>2, ConsistentContinues DEF SerialNow
  <2> QED BY <1>1, <2>1, <2>3, SerialRequest
<1> QED BY <1>2, <1>3

----------------------------------------------------------------------------
(* Steps of the cleanup, and of time *)

\* With the cleanup at work no request is.
LEMMA SerialCleanup ==
    ASSUME SerialNow, \A p \in Reqs : req[p].pc = "idle", UNCHANGED <<req, orphans>>,
           \A p \in Reqs : Consistent(req[p]) =>
              Limits(req[p])' /\ Flags(req[p])' /\ Peers(req[p])' /\ Snapshot'
    PROVE  SerialNow'
<1>1. ASSUME NEW p \in Reqs PROVE Consistent(req[p])'
  <2>1. Consistent(req[p])
    BY DEF SerialNow, Others
  <2>2. Limits(req[p])' /\ Flags(req[p])' /\ Peers(req[p])' /\ Snapshot'
    BY <2>1
  <2>3. Fetched(req[p])'
    BY DEF Fetched
  <2> QED BY <2>2, <2>3 DEF Consistent
<1> QED BY <1>1 DEF SerialNow

LEMMA CleanupStarts ==
    ASSUME TypeInv, NEW p \in Reqs, req[p].pc = "idle", Consistent(req[p]), StartCleanup
    PROVE  Limits(req[p])' /\ Flags(req[p])' /\ Peers(req[p])' /\ Snapshot'
<1>1. UNCHANGED <<users, rows, store, req>> /\ svc.pc = "idle" /\ svc'.pc = "list"
  BY DEF StartCleanup
<1>2. Limits(req[p])' /\ Flags(req[p])'
  BY <1>1, FewerRows DEF Consistent, Limits, Flags
<1>3. Peers(req[p])'
  BY <1>1 DEF Consistent, Peers, PeerRight, HasRow, Away, Shut
<1>4. Snapshot'
  BY DEF StartCleanup, Snapshot, ToFreeze
<1> QED BY <1>2, <1>3, <1>4

LEMMA CleanupLists ==
    ASSUME TypeInv, NEW p \in Reqs, req[p].pc = "idle", Consistent(req[p]), ListPeers
    PROVE  Limits(req[p])' /\ Flags(req[p])' /\ Peers(req[p])' /\ Snapshot'
<1>1. UNCHANGED <<users, rows, store, req>> /\ svc.pc = "list"
  BY DEF ListPeers
<1>2. PICK c \in Users : c = Current /\ c \in ToFreeze
  BY <1>1, CurrentInTodo DEF Consistent, Snapshot, ToFreeze, TypeInv
<1>3. /\ svc'.todo = svc.todo /\ svc'.peers = ListedNames(c)
      /\ svc'.pc = IF ListedNames(c) = {} THEN "setFlag" ELSE "freezeCall"
  BY <1>2 DEF ListPeers, TypeInv, TypeOK, Cleanup
<1>4. Current' = c
  BY <1>2, <1>3 DEF Current
<1>5. Limits(req[p])' /\ Flags(req[p])'
  BY <1>1, FewerRows DEF Consistent, Limits, Flags
<1>6. ASSUME NEW v \in Users, NEW i \in Ids PROVE PeerRight(req[p], v, i)'
  <2>1. (HasRow(v, i)' <=> HasRow(v, i)) /\ ~Away(req[p], v, i)' /\ ~Away(req[p], v, i)
    BY <1>1 DEF HasRow, Away
  <2>2. HasRow(v, i) => (Shut(req[p], v)' <=> Shut(req[p], v))
    BY <1>1, <1>3, <1>4, Listed DEF Shut, TypeInv
  <2>3. PeerRight(req[p], v, i)
    BY DEF Consistent, Peers
  <2> QED BY <1>1, <2>1, <2>2, <2>3 DEF PeerRight
<1>7. Snapshot'
  <2>1. ListedNames(Current)' = ListedNames(c)
    BY <1>1, <1>4 DEF ListedNames, RowsOf
  <2>2. svc'.todo # {} /\ svc'.todo \subseteq ToFreeze'
    BY <1>1, <1>3 DEF Consistent, Snapshot, ToFreeze
  <2> QED BY <1>3, <2>1, <2>2 DEF Snapshot
<1> QED BY <1>5, <1>6, <1>7 DEF Peers

\* All the peers of the user are on the worker, so they are frozen.
LEMMA CleanupFreezes ==
    ASSUME TypeInv, NEW p \in Reqs, req[p].pc = "idle", Consistent(req[p]), faults' = 0,
           FreezeAnswered
    PROVE  /\ Limits(req[p])' /\ Flags(req[p])' /\ Peers(req[p])' /\ Snapshot'
           /\ UNCHANGED orphans
<1>1. UNCHANGED <<users, rows, req>> /\ svc.pc = "freezeCall"
  BY DEF FreezeAnswered
<1>2. PICK c \in Users : c = Current /\ c \in ToFreeze
  BY <1>1, CurrentInTodo DEF Consistent, Snapshot, ToFreeze, TypeInv
<1>3. PICK ns : ns = ListedNames(c) /\ ns = svc.peers /\ ns # {}
  BY <1>1, <1>2 DEF Consistent, Snapshot
<1>4. PICK reply \in Reply :
         /\ Answered("service", Call("freeze", ns), reply)
         /\ svc' = IF reply = "error" THEN NextUser ELSE [svc EXCEPT !.pc = "setFlag"]
  BY <1>3 DEF FreezeAnswered
<1>5. \A v \in Users, i \in Ids : /\ PeerName(v, i) \in ns <=> v = c /\ HasRow(v, i)
                                  /\ PeerName(v, i) \in store.json <=> HasRow(v, i)
  BY <1>3, Listed DEF Away, Consistent, Peers, PeerRight, TypeInv
<1>6. ns \cap store.json # {}
  <2>1. \A n \in ns : \E i \in Ids : n = PeerName(c, i)
    BY <1>3 DEF ListedNames, RowsOf, TypeInv, TypeOK
  <2> QED BY <1>3, <1>5, <2>1
<1>7. Answer(store, Call("freeze", ns)) = Result(Frozen(store, ns), "ok")
  BY <1>6 DEF Call, Answer, FreezeResult
<1>8. reply = "ok" /\ UNCHANGED orphans /\ store' = Frozen(store, ns)
  BY <1>4, <1>7, AnsweredWell DEF Result
<1>9. svc'.pc = "setFlag" /\ svc'.todo = svc.todo
  BY <1>4, <1>8 DEF TypeInv, TypeOK, Cleanup
<1>10. Current' = c
  BY <1>2, <1>9 DEF Current
<1>11. /\ store'.json = store.json
       /\ \A n \in PeerNames :
             store'.conf[n] = IF n \in ns \cap store.json /\ store.conf[n] = "active"
                                THEN "frozen" ELSE store.conf[n]
  BY <1>8 DEF Frozen, WithState
<1>12. ASSUME NEW v \in Users, NEW i \in Ids PROVE PeerRight(req[p], v, i)'
  <2>1. (HasRow(v, i)' <=> HasRow(v, i)) /\ ~Away(req[p], v, i)' /\ ~Away(req[p], v, i)
    BY <1>1 DEF HasRow, Away
  <2>2. Shut(req[p], v)' <=> Shut(req[p], v) \/ v = c
    BY <1>1, <1>9, <1>10 DEF Shut
  <2>3. PeerRight(req[p], v, i) /\ PeerName(v, i) \in PeerNames
    BY NamesDiffer DEF Consistent, Peers
  <2> QED BY <1>5, <1>11, <2>1, <2>2, <2>3 DEF PeerRight
<1>13. Limits(req[p])' /\ Flags(req[p])'
  BY <1>1, FewerRows DEF Consistent, Limits, Flags
<1>14. Snapshot'
  BY <1>1, <1>9 DEF Consistent, Snapshot, ToFreeze
<1> QED BY <1>8, <1>12, <1>13, <1>14 DEF Peers

LEMMA CleanupFlags ==
    ASSUME TypeInv, NEW p \in Reqs, req[p].pc = "idle", Consistent(req[p]), SetFlag
    PROVE  Limits(req[p])' /\ Flags(req[p])' /\ Peers(req[p])' /\ Snapshot'
<1>1. UNCHANGED <<rows, store, req>> /\ svc.pc = "setFlag"
  BY DEF SetFlag
<1>2. PICK c \in Users : c = Current /\ c \in ToFreeze
  BY <1>1, CurrentInTodo DEF Consistent, Snapshot, ToFreeze, TypeInv
<1>3. \A v \in Users : users'[v].exp = users[v].exp /\ (users'[v].frozen <=> users[v].frozen \/ v = c)
  <2>1. users' = [users EXCEPT ![c].frozen = TRUE]
    BY <1>2 DEF SetFlag, SetFrozen, Exists, ToFreeze
  <2> QED BY <2>1 DEF TypeInv, TypeOK
<1>4. /\ svc'.pc \in {"idle", "list"}
      /\ svc'.pc = "list" => svc'.todo = svc.todo \ {c} /\ svc'.todo # {}
  BY <1>2 DEF SetFlag, NextUser, IdleCleanup
<1>5. ASSUME NEW v \in Users, NEW i \in Ids PROVE PeerRight(req[p], v, i)'
  <2>1. (HasRow(v, i)' <=> HasRow(v, i)) /\ ~Away(req[p], v, i)' /\ ~Away(req[p], v, i)
    BY <1>1 DEF HasRow, Away
  <2>2. Shut(req[p], v)' <=> Shut(req[p], v)
    BY <1>1, <1>2, <1>3, <1>4 DEF Shut
  <2>3. PeerRight(req[p], v, i)
    BY DEF Consistent, Peers
  <2> QED BY <1>1, <2>1, <2>2, <2>3 DEF PeerRight
<1>6. Flags(req[p])'
  BY <1>1, <1>2, <1>3 DEF Consistent, Flags, ToFreeze
<1>7. Limits(req[p])'
  BY <1>1, FewerRows DEF Consistent, Limits
<1>8. Snapshot'
  BY <1>1, <1>3, <1>4 DEF Consistent, Snapshot, ToFreeze
<1> QED BY <1>5, <1>6, <1>7, <1>8 DEF Peers

LEMMA SerialCleanups ==
    ASSUME TypeInv, OneAtWork, OneAtWork', SerialNow, faults' = 0, CleanupStep
    PROVE  SerialNow'
<1>1. UNCHANGED req /\ \A p \in Reqs : req[p].pc = "idle"
  <2>1. CASE StartCleanup
    BY <2>1 DEF StartCleanup, OneAtWork, Active
  <2>2. CASE ListPeers \/ FreezeAnswered \/ SetFlag
    BY <2>2 DEF ListPeers, FreezeAnswered, SetFlag, OneAtWork, Active
  <2> QED BY <2>1, <2>2 DEF CleanupStep
<1>2. CASE StartCleanup \/ ListPeers \/ SetFlag
  <2>1. UNCHANGED orphans
    BY <1>2 DEF StartCleanup, ListPeers, SetFlag
  <2> QED BY <1>1, <1>2, <2>1, CleanupStarts, CleanupLists, CleanupFlags, SerialCleanup
<1>3. CASE FreezeAnswered
  <2>1. \A p \in Reqs : Consistent(req[p])
    BY <1>1 DEF SerialNow, Others
  <2>2. UNCHANGED orphans
    BY <1>1, <1>3, <2>1, CleanupFreezes, SlotsAssumption
  <2> QED BY <1>1, <1>3, <2>2, CleanupFreezes, SerialCleanup
<1> QED BY <1>2, <1>3 DEF CleanupStep

\* A subscription runs out at any time.
LEMMA SerialExpires ==
    ASSUME TypeInv, SerialNow, NEW c \in Users, Expire(c)
    PROVE  SerialNow'
<1>1. UNCHANGED <<rows, store, req, svc, orphans>>
  BY DEF Expire
<1>2. \A v \in Users : /\ users'[v].frozen = users[v].frozen
                       /\ \/ users'[v].exp = users[v].exp
                          \/ v = c /\ users[v].exp = "live" /\ users'[v].exp = "expired"
  BY DEF Expire, TypeInv, TypeOK
<1>3. Snapshot => Snapshot'
  <2>1. ToFreeze \subseteq ToFreeze'
    BY <1>2 DEF ToFreeze
  <2>2. Current' = Current
    BY <1>1 DEF Current
  <2>3. ListedNames(Current)' = ListedNames(Current)
    BY <1>1, <2>2 DEF ListedNames, RowsOf
  <2> QED BY <1>1, <2>1, <2>3 DEF Snapshot
<1>4. ASSUME NEW p \in Reqs, Consistent(req[p]) PROVE Consistent(req[p])'
  <2>1. Limits(req[p])'
    <3>1. RowsOf(req[p].user)' = RowsOf(req[p].user)
      BY <1>1 DEF RowsOf
    <3>2. IsFiniteSet(rows') /\ \A v \in Users : Cardinality(RowsOf(v)') <= MaxConfigs
      BY <1>1, <1>4, FewerRows DEF Consistent
    <3>3. req'[p].pc = "insert" => Cardinality(RowsOf(req[p].user)') < MaxConfigs
      BY <1>1, <1>4, <3>1 DEF Consistent, Limits
    <3> QED BY <3>2, <3>3 DEF Limits
  <2>2. Flags(req[p])'
    BY <1>1, <1>2, <1>4 DEF Consistent, Flags
  <2>3. Peers(req[p])'
    <3>1. \A u \in Users : Shut(req[p], u)' <=> Shut(req[p], u)
      BY <1>1, <1>2 DEF Shut, Current
    <3> QED BY <1>1, <1>4, <3>1 DEF Consistent, Peers, PeerRight, HasRow, Away
  <2>4. Fetched(req[p])'
    <3>1. req[p].pc \in {"limit", "insert", "createCall"} => req[p].user \in Users
      BY DEF TypeInv, LocalsOK
    <3>2. ListedNames(req[p].user)' = ListedNames(req[p].user)
      BY <1>1 DEF ListedNames, RowsOf
    <3> QED BY <1>1, <1>2, <1>4, <3>1, <3>2 DEF Consistent, Fetched, HasRow
  <2> QED BY <1>3, <1>4, <2>1, <2>2, <2>3, <2>4 DEF Consistent
<1> QED BY <1>1, <1>4 DEF SerialNow, Others

----------------------------------------------------------------------------

LEMMA SerialNext ==
    ASSUME TypeInv, OneAtWork, OneAtWork', SerialNow, store.torn = {}, faults = 0, faults' = 0,
           [HNext]_hvars
    PROVE  SerialNow'
<1>1. CASE \E p \in Reqs : Starts(p) \/ Continues(p)
  BY <1>1, SerialRequests
<1>2. CASE CleanupStep
  BY <1>2, SerialCleanups
<1>3. CASE \E u \in Users : Expire(u)
  BY <1>3, SerialExpires
<1>4. ~(\E o \in orphans : OrphanRuns(o))
  BY DEF SerialNow
<1>5. ~((\E p \in Reqs : Abandon(p)) \/ SkipUser \/ Crash)
  BY DEF Abandon, SkipUser, Crash, CountFault, TypeInv, TypeOK
<1>6. CASE UNCHANGED hvars
  <2>1. UNCHANGED <<users, rows, store, req, svc, orphans>>
    BY <1>6 DEF hvars, vars
  <2>2. ASSUME NEW p \in Reqs, Consistent(req[p]) PROVE Consistent(req[p])'
    <3>1. Limits(req[p])' /\ Flags(req[p])'
      BY <2>1, <2>2 DEF Consistent, Limits, Flags, RowsOf
    <3>2. Peers(req[p])'
      BY <2>1, <2>2 DEF Consistent, Peers, PeerRight, HasRow, Away, Shut, Current
    <3>3. Fetched(req[p])' /\ Snapshot'
      BY <2>1, <2>2 DEF Consistent, Fetched, Snapshot, HasRow, ListedNames, RowsOf, Current, ToFreeze
    <3> QED BY <3>1, <3>2, <3>3 DEF Consistent
  <2> QED BY <2>1, <2>2 DEF SerialNow, Others
<1> QED BY <1>1, <1>2, <1>3, <1>4, <1>5, <1>6 DEF HNext, Next, Environment

\* Failures are counted, never forgotten.
LEMMA FaultsGrow == TypeInv /\ [HNext]_hvars /\ faults' = 0 => faults = 0
<1> SUFFICES ASSUME TypeInv, HNext, faults' = 0 PROVE faults = 0
  BY DEF hvars, vars
<1>1. ASSUME faults' = faults \/ CountFault PROVE faults = 0
  BY <1>1 DEF CountFault, TypeInv, TypeOK
<1>2. \A p, c, reply : Executes(c, reply) \/ Answered(p, c, reply) => faults' = faults \/ CountFault
  BY DEF Executes, Answered
<1>3. ASSUME NEW p \in Reqs, Starts(p) \/ Continues(p) PROVE faults' = faults \/ CountFault
  <2>1. CASE Starts(p)
    BY <2>1 DEF Starts, CreateConfig, DeleteConfig, DeleteUser, PatchUser
  <2>2. CASE CreateAnswered(p) \/ DeleteAnswered(p) \/ DeleteAllAnswered(p) \/ UnfreezeAnswered(p)
    BY <1>2, <2>2 DEF CreateAnswered, DeleteAnswered, DeleteAllAnswered, UnfreezeAnswered
  <2> QED BY <1>3, <2>1, <2>2 DEF Continues, CheckLimit, InsertRow, RollBack, DeleteRow, ListAll,
                DeleteUserRow, SetExpiry, ListFrozen, ClearFlag
<1>4. ASSUME CleanupStep PROVE faults' = faults \/ CountFault
  BY <1>2, <1>4 DEF CleanupStep, StartCleanup, ListPeers, FreezeAnswered, SetFlag
<1>5. ASSUME Environment PROVE faults' = faults \/ CountFault
  BY <1>2, <1>5 DEF Environment, Expire, OrphanRuns, Abandon, SkipUser, Crash
<1> QED BY <1>1, <1>3, <1>4, <1>5 DEF HNext, Next

----------------------------------------------------------------------------
(* Files are torn by failed writes alone *)

Untorn == faults = 0 => store.torn = {}

LEMMA AnswerTears ==
    ASSUME NEW s \in Store, NEW c \in Calls
    PROVE  Answer(s, c).store.torn = s.torn
<1>1. CASE c.op = "create"
  BY <1>1 DEF Answer, CreateResult, CreateRefused, Result, WithPeers
<1>2. CASE c.op = "delete"
  BY <1>2 DEF Answer, DeleteResult, Result, WithoutPeers
<1>3. CASE c.op = "freeze"
  BY <1>3 DEF Answer, FreezeResult, Result, Frozen, WithState
<1>4. CASE c.op = "unfreeze"
  BY <1>4 DEF Answer, UnfreezeResult, Result, Unfrozen, WithState
<1> QED BY <1>1, <1>2, <1>3, <1>4 DEF Calls

LEMMA UntornNext == TypeInv /\ Untorn /\ [Next]_vars => Untorn'
<1> SUFFICES ASSUME TypeInv, Untorn, [Next]_vars, faults' = 0 PROVE store'.torn = {}
  BY DEF Untorn
<1>1. ~CountFault
  BY DEF CountFault, TypeInv, TypeOK
<1>2. ASSUME UNCHANGED <<store, faults>> PROVE store'.torn = {}
  BY <1>2 DEF Untorn
<1>3. ASSUME NEW c \in Calls, NEW reply, Executes(c, reply) PROVE store'.torn = {}
  <2>1. faults = 0 /\ store' = Answer(store, c).store
    BY <1>1, <1>3 DEF Executes
  <2> QED BY <2>1, AnswerTears DEF Untorn, TypeInv, TypeOK
<1>4. ASSUME NEW p, NEW c \in Calls, NEW reply, Answered(p, c, reply) PROVE store'.torn = {}
  BY <1>1, <1>3, <1>4 DEF Answered
<1>5. ASSUME NEW p \in Reqs, Starts(p) \/ Continues(p) PROVE store'.torn = {}
  <2>1. CASE Starts(p)
    BY <1>2, <2>1 DEF Starts, CreateConfig, DeleteConfig, DeleteUser, PatchUser
  <2>2. CASE CreateAnswered(p) \/ DeleteAnswered(p) \/ DeleteAllAnswered(p) \/ UnfreezeAnswered(p)
    <3>1. CallOf(req[p]) \in Calls
      BY <2>2, CallOfTyped DEF CreateAnswered, DeleteAnswered, DeleteAllAnswered, UnfreezeAnswered, CallPcs
    <3> QED BY <1>4, <2>2, <3>1 DEF CreateAnswered, DeleteAnswered, DeleteAllAnswered, UnfreezeAnswered
  <2> QED BY <1>2, <1>5, <2>1, <2>2 DEF Continues, CheckLimit, InsertRow, RollBack, DeleteRow, ListAll,
                DeleteUserRow, SetExpiry, ListFrozen, ClearFlag
<1>6. CASE CleanupStep
  <2>1. Call("freeze", svc.peers) \in Calls
    BY CallInCalls DEF TypeInv, TypeOK, Cleanup
  <2> QED BY <1>2, <1>4, <1>6, <2>1 DEF CleanupStep, StartCleanup, ListPeers, FreezeAnswered, SetFlag
<1>7. ASSUME NEW o \in orphans, OrphanRuns(o) PROVE store'.torn = {}
  <2>1. o.call \in Calls
    BY DEF TypeInv, TypeOK, Orphans
  <2> QED BY <1>3, <1>7, <2>1 DEF OrphanRuns
<1>8. CASE \E u \in Users : Expire(u)
  BY <1>2, <1>8 DEF Expire
<1>9. ~((\E p \in Reqs : Abandon(p)) \/ SkipUser \/ Crash)
  BY <1>1 DEF Abandon, SkipUser, Crash
<1>10. CASE UNCHANGED vars
  BY <1>2, <1>10 DEF vars
<1> QED BY <1>5, <1>6, <1>7, <1>8, <1>9, <1>10 DEF Next, Environment

----------------------------------------------------------------------------

\* One process after the other and no failures: between two of them the peers table,
\* peers.json, awg0.conf and the two flags tell one story, nobody is over the limit and
\* no admin is frozen, whatever the processes were (user.go, admin.go, service.go).
THEOREM SerialConsistentHolds == HFairSpec => []SerialConsistent
<1>1. HInit => TypeInv /\ Untorn /\ AloneInv /\ SerialInv
  <2>1. Init => Untorn
    BY DEF Init, Untorn, EmptyStore
  <2> QED BY <2>1, SerialInit, TypeInit DEF HInit
<1>2. TypeInv /\ Untorn /\ AloneInv /\ [HNext]_hvars => TypeInv' /\ Untorn' /\ AloneInv'
  <2>1. [HNext]_hvars => [Next]_vars
    BY DEF HNext, hvars
  <2>2. AloneInv /\ [HNext]_hvars => AloneInv'
    BY DEF AloneInv, HNext, hvars, vars, ActiveCount, Active
  <2> QED BY <2>1, <2>2, TypeNext, UntornNext
<1>3. AloneInv => (alone => OneAtWork)
  BY Counted DEF AloneInv
<1>4. TypeInv /\ Untorn /\ (alone => OneAtWork) /\ (alone => OneAtWork)' /\ SerialInv
         /\ [HNext]_hvars => SerialInv'
  <2> SUFFICES ASSUME TypeInv, Untorn, alone => OneAtWork, (alone => OneAtWork)', SerialInv, [HNext]_hvars,
                      alone', faults' = 0
               PROVE  SerialNow'
    BY DEF SerialInv
  <2>1. alone
    BY DEF HNext, hvars
  <2> QED BY <2>1, FaultsGrow, SerialNext DEF SerialInv, Untorn
<1>5. HFairSpec => [](TypeInv /\ SerialInv)
  BY <1>1, <1>2, <1>3, <1>4, PTL DEF HFairSpec
<1>6. TypeInv /\ SerialInv => SerialConsistent
  <2> SUFFICES ASSUME TypeInv, SerialInv, alone, faults = 0, AtRest, NEW u \in Users
               PROVE  /\ Cardinality(RowsOf(u)) <= MaxConfigs
                      /\ users[u].frozen => users[u].exp = "expired" /\ u \notin Admins
                      /\ \A i \in Ids :
                           /\ HasRow(u, i) <=> PeerName(u, i) \in store.json
                           /\ store.conf[PeerName(u, i)]
                                = IF ~HasRow(u, i) THEN "absent"
                                  ELSE IF users[u].frozen THEN "frozen" ELSE "active"
    BY DEF SerialConsistent
  <2>1. svc.pc = "idle" /\ \A p \in Reqs : req[p].pc = "idle"
    BY Counted DEF AtRest
  <2>2. PICK p \in Reqs : Consistent(req[p])
    BY <2>1, SlotsAssumption DEF SerialInv, SerialNow, Others
  <2>3. \A i \in Ids : ~Away(req[p], u, i) /\ (Shut(req[p], u) <=> users[u].frozen)
    BY <2>1 DEF Away, Shut
  <2>4. \A i \in Ids : PeerRight(req[p], u, i)
    BY <2>2 DEF Consistent, Peers
  <2>5. Limits(req[p]) /\ Flags(req[p])
    BY <2>2 DEF Consistent
  <2> QED BY <2>1, <2>3, <2>4, <2>5 DEF PeerRight, Limits, Flags, RenewPcs
<1> QED BY <1>5, <1>6, PTL
=============================================================================
