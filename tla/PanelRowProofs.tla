--------------------------- MODULE PanelRowProofs ---------------------------
(***************************************************************************)
(* Proofs that the peers table and the worker stay together: a config that *)
(* was answered 201 for is kept until it is deleted, and as long as        *)
(* nothing fails the two agree, for any number of users, slots and         *)
(* configs.                                                                *)
(***************************************************************************)
EXTENDS PanelProofs

----------------------------------------------------------------------------
(* The first inductive invariant *)

\* Handlers that have a row by its id.
RowPcs == {"createCall", "rollback", "deleteCall", "deleteRow"}
DeletePcs == {"deleteCall", "deleteRow"}

Inserted(p) == req[p].pc \in {"createCall", "rollback"}

Doomed(n) == fate[n] \in {"deleting", "deleted"}

\* The id a handler has is of a row of its user, if the row is still there, and what
\* it is about to delete was noted to be.
Holds(p) ==
    /\ req[p].pc \in RowPcs => /\ req[p].id < nextId
                               /\ \A r \in rows : r.id = req[p].id => r.user = req[p].user
    /\ req[p].pc \in DeletePcs => Doomed(NameOf(p))
    /\ req[p].pc = "deleteAllCall" =>
          \A n \in req[p].peers : n[1] = req[p].user /\ Doomed(n)

\* A row is created, or undone, by the request that inserted it alone, and its
\* owner has not been told that it is there.
OneCreator ==
    /\ \A p, q \in Reqs : Inserted(p) /\ Inserted(q) /\ req[p].id = req[q].id => p = q
    /\ \A p \in Reqs : Inserted(p) => fate[NameOf(p)] # "acked"

OrphansNoted == \A o \in orphans : o.call.op = "delete" => \A n \in o.call.peers : Doomed(n)

Rooted(n) == HasRow(n[1], n[2]) \/ ~Exists(n[1])

\* The row of a peer about to be created waits for it, unless its owner has gone.
RowsWait == \A p \in Reqs : Creating(p) /\ fate[NameOf(p)] = "unknown" => Rooted(NameOf(p))

\* Peer n is in a file, unless a failed write has emptied the file.
InJson(s, n) == "json" \in s.torn \/ n \in s.json
InConf(s, n) == "conf" \in s.torn \/ s.conf[n] # "absent"

Whole(n) == InJson(store, n) /\ InConf(store, n) /\ Rooted(n)

AckedWhole == \A n \in PeerNames : fate[n] = "acked" => Whole(n)

RowInv == /\ \A p \in Reqs : Holds(p)
          /\ OneCreator /\ OrphansNoted /\ RowsWait /\ AckedWhole

LEMMA RowInit == Init => RowInv
BY DEF Init, RowInv, Holds, RowPcs, DeletePcs, OneCreator, Inserted, OrphansNoted, RowsWait,
       Creating, AckedWhole, IdleRequest

----------------------------------------------------------------------------
(* What a call leaves in place *)

LEMMA AnswerStays ==
    ASSUME NEW s \in Store, NEW c \in Calls, NEW n \in PeerNames, ~(c.op = "delete" /\ n \in c.peers)
    PROVE  /\ InJson(s, n) => InJson(Answer(s, c).store, n)
           /\ InConf(s, n) => InConf(Answer(s, c).store, n)
<1> USE DEF InJson, InConf
<1>1. CASE c.op = "create"
  BY <1>1 DEF Answer, CreateResult, CreateRefused, Result, WithPeers, WithBlocks, Store, BlockState,
              Calls
<1>2. CASE c.op = "delete"
  BY <1>2 DEF Answer, DeleteResult, Result, WithoutPeers, WithoutBlocks, Store, BlockState, Calls
<1>3. CASE c.op = "freeze"
  BY <1>3 DEF Answer, FreezeResult, Result, Frozen, WithState, Store, BlockState, Calls
<1>4. CASE c.op = "unfreeze"
  BY <1>4 DEF Answer, UnfreezeResult, Result, Unfrozen, WithState, Store, BlockState, Calls
<1> QED BY <1>1, <1>2, <1>3, <1>4 DEF Calls

LEMMA BadAnswerStays ==
    ASSUME NEW s \in Store, NEW c \in Calls, NEW a \in BadAnswers(s, c), NEW n \in PeerNames,
           ~(c.op = "delete" /\ n \in c.peers)
    PROVE  /\ InJson(s, n) => InJson(a.store, n)
           /\ InConf(s, n) => InConf(a.store, n)
<1> USE DEF InJson, InConf
<1>1. CASE c.op = "create"
  BY <1>1 DEF BadAnswers, CreateFaults, CreateRefused, Failed, WithPeers, WithBlocks, ConfLost,
              JsonLost, Store, BlockState, Calls
<1>2. CASE c.op = "delete"
  BY <1>2 DEF BadAnswers, DeleteFaults, Failed, WithoutPeers, WithoutBlocks, ConfLost, JsonLost,
              Store, BlockState, Calls
<1>3. CASE c.op = "freeze"
  BY <1>3 DEF BadAnswers, FreezeFaults, WriteFaults, Failed, Frozen, WithState, ConfLost,
              Store, BlockState, Calls
<1>4. CASE c.op = "unfreeze"
  BY <1>4 DEF BadAnswers, UnfreezeFaults, WriteFaults, Failed, Unfrozen, WithState, ConfLost,
              Store, BlockState, Calls
<1> QED BY <1>1, <1>2, <1>3, <1>4 DEF Calls

\* The worker keeps what is not to be deleted.
Stays(n) == /\ InJson(store, n) => InJson(store, n)'
            /\ InConf(store, n) => InConf(store, n)'

LEMMA ExecutesStays ==
    ASSUME TypeInv, NEW c \in Calls, NEW reply, Executes(c, reply), NEW n \in PeerNames,
           ~(c.op = "delete" /\ n \in c.peers)
    PROVE  Stays(n)
<1>1. CASE store' = Answer(store, c).store
  BY <1>1, AnswerStays DEF TypeInv, TypeOK, Stays
<1>2. CASE \E a \in BadAnswers(store, c) : store' = a.store
  BY <1>2, BadAnswerStays DEF TypeInv, TypeOK, Stays
<1> QED BY <1>1, <1>2 DEF Executes

\* 201 from the worker: the peer is in both files.
LEMMA CreateOk ==
    ASSUME TypeInv, NEW n \in PeerNames, NEW p, Answered(p, Call("create", {n}), "ok")
    PROVE  n \in store'.json /\ store'.conf[n] # "absent"
<1> DEFINE c == Call("create", {n})
<1>1. c \in Calls /\ c.op = "create" /\ c.peers = {n}
  BY CallInCalls
<1>2. Executes(c, "ok")
  BY DEF Answered
<1>3. Answer(store, c).reply = "ok" /\ store' = Answer(store, c).store
  BY <1>1, <1>2, BadAnswerEffect DEF Executes, TypeInv, TypeOK
<1>4. Answer(store, c) = CreateResult(store, {n})
  BY <1>1 DEF Answer
<1> QED BY <1>3, <1>4 DEF CreateResult, CreateRefused, Result, WithPeers, WithBlocks, TypeInv,
                          TypeOK, Store

----------------------------------------------------------------------------
(* What makes a step keep the invariant *)

\* Request q keeps the row it has, or lets go of it.
Follows(q) ==
    /\ req'[q].pc \in RowPcs => /\ req[q].pc \in RowPcs
                                /\ req'[q].user = req[q].user /\ req'[q].id = req[q].id
    /\ req'[q].pc \in DeletePcs => req[q].pc \in DeletePcs
    /\ req'[q].pc = "createCall" => req[q].pc = "createCall"
    /\ req'[q].pc = "rollback" => req[q].pc \in {"createCall", "rollback"}
    /\ req'[q].pc = "deleteAllCall" => req'[q] = req[q]

LEMMA RowsKept ==
    ASSUME TypeInv, TypeInv', RowInv, nextId' = nextId, rows' \subseteq rows,
           \A q \in Reqs : Follows(q) \/ (Holds(q)' /\ ~Inserted(q)'),
           \A u \in Users : ~Exists(u) => ~Exists(u)',
           \A n \in PeerNames : Doomed(n) => Doomed(n)',
           \A n \in PeerNames : fate'[n] = "unknown" => fate[n] = "unknown",
           \A n \in PeerNames : fate'[n] = "acked" =>
              \/ fate[n] = "acked" /\ Stays(n)
              \/ Whole(n)' /\ \A q \in Reqs : Inserted(q)' => NameOf(q)' # n,
           \A o \in orphans' : o.call.op = "delete" => \A n \in o.call.peers : Doomed(n),
           \A n \in PeerNames : Rooted(n) =>
              \/ Rooted(n)'
              \/ ~(fate'[n] = "acked") /\ \A q \in Reqs : ~(Creating(q)' /\ NameOf(q)' = n)
    PROVE  RowInv'
<1>1. ASSUME NEW q \in Reqs, Follows(q), req'[q].pc \in RowPcs
      PROVE  /\ NameOf(q)' = NameOf(q) /\ NameOf(q) \in PeerNames
             /\ req[q].pc \in RowPcs /\ req'[q].id = req[q].id /\ req'[q].user = req[q].user
  BY <1>1, Named DEF Follows, NameOf, RowPcs
<1>2. ASSUME NEW q \in Reqs, Inserted(q)'
      PROVE  Inserted(q) /\ NameOf(q)' = NameOf(q) /\ NameOf(q) \in PeerNames /\ req'[q].id = req[q].id
  BY <1>1, <1>2 DEF Inserted, Follows, RowPcs
<1>3. ASSUME NEW q \in Reqs
      PROVE  Holds(q)'
  <2>1. CASE Follows(q)
    <3>1. Holds(q)
      BY DEF RowInv
    <3>2. req'[q].pc \in RowPcs => /\ req'[q].id < nextId'
                                   /\ \A r \in rows' : r.id = req'[q].id => r.user = req'[q].user
      BY <1>1, <2>1, <3>1 DEF Holds
    <3>3. req'[q].pc \in DeletePcs => Doomed(NameOf(q))'
      <4> SUFFICES ASSUME req'[q].pc \in DeletePcs PROVE Doomed(NameOf(q))'
        OBVIOUS
      <4>1. NameOf(q)' = NameOf(q) /\ NameOf(q) \in PeerNames /\ Doomed(NameOf(q))
        BY <1>1, <2>1, <3>1 DEF Holds, Follows, DeletePcs, RowPcs
      <4> QED BY <4>1 DEF Doomed
    <3>4. req'[q].pc = "deleteAllCall" =>
             \A n \in req'[q].peers : n[1] = req'[q].user /\ Doomed(n)'
      <4> SUFFICES ASSUME req'[q].pc = "deleteAllCall", NEW n \in req'[q].peers
                   PROVE  n[1] = req'[q].user /\ Doomed(n)'
        OBVIOUS
      <4>1. req'[q] = req[q] /\ n \in PeerNames
        BY <2>1 DEF Follows, TypeInv, TypeOK, Request
      <4> QED BY <3>1, <4>1 DEF Holds
    <3> QED BY <3>2, <3>3, <3>4 DEF Holds, Doomed
  <2>2. CASE Holds(q)'
    BY <2>2
  <2> QED BY <2>1, <2>2
<1>4. OneCreator'
  <2>1. ASSUME NEW p \in Reqs, NEW q \in Reqs, Inserted(p)', Inserted(q)', req'[p].id = req'[q].id
        PROVE  p = q
    BY <1>2, <2>1 DEF RowInv, OneCreator
  <2>2. ASSUME NEW p \in Reqs, Inserted(p)'
        PROVE  fate'[NameOf(p)'] # "acked"
    BY <1>2, <2>2 DEF RowInv, OneCreator
  <2> QED BY <2>1, <2>2 DEF OneCreator
<1>5. OrphansNoted'
  <2> SUFFICES ASSUME NEW o \in orphans', o.call.op = "delete", NEW n \in o.call.peers
               PROVE  Doomed(n)'
    BY DEF OrphansNoted
  <2>1. n \in PeerNames
    BY DEF TypeInv, TypeOK, Orphans, Calls
  <2> QED BY <2>1
<1>6. RowsWait'
  <2> SUFFICES ASSUME NEW p \in Reqs, Creating(p)', fate'[NameOf(p)'] = "unknown"
               PROVE  Rooted(NameOf(p))'
    BY DEF RowsWait
  <2>1. Inserted(p)'
    BY DEF Creating, Inserted
  <2>2. Creating(p)
    BY <2>1 DEF Follows, Creating
  <2>3. NameOf(p)' = NameOf(p) /\ NameOf(p) \in PeerNames /\ fate[NameOf(p)] = "unknown"
    BY <1>2, <2>1
  <2>4. Rooted(NameOf(p))
    BY <2>2, <2>3 DEF RowInv, RowsWait
  <2>5. \A n : n = NameOf(p) => Rooted(n)'
    BY <2>3, <2>4
  <2> QED BY <2>3, <2>5 DEF Rooted
<1>7. AckedWhole'
  <2> SUFFICES ASSUME NEW n \in PeerNames, fate'[n] = "acked"
               PROVE  Whole(n)'
    BY DEF AckedWhole, PeerNames, Ids
  <2>1. CASE fate[n] = "acked" /\ Stays(n)
    <3>1. Whole(n)
      BY <2>1 DEF RowInv, AckedWhole
    <3> QED BY <2>1, <3>1 DEF Whole, Stays
  <2> QED BY <2>1
<1> QED BY <1>3, <1>4, <1>5, <1>6, <1>7 DEF RowInv

----------------------------------------------------------------------------
(* The steps *)

\* Slot p ends its request, or goes on to pc.
LEMMA DoneFollows ==
    ASSUME TypeInv, NEW p \in Reqs, req' = Done(p)
    PROVE  \A q \in Reqs : Follows(q)
BY DEF Done, IdleRequest, Follows, RowPcs, DeletePcs, TypeInv, TypeOK

LEMMA AtFollows ==
    ASSUME TypeInv, NEW p \in Reqs, NEW pc, req' = At(p, pc),
           \/ pc \notin RowPcs \cup {"deleteAllCall"}
           \/ pc = "rollback" /\ req[p].pc = "createCall"
           \/ pc = "deleteRow" /\ req[p].pc = "deleteCall"
    PROVE  \A q \in Reqs : Follows(q)
<1>1. \A q \in Reqs : q # p => req'[q] = req[q]
  BY DEF At, TypeInv, TypeOK
<1>2. req'[p].pc = pc /\ req'[p].user = req[p].user /\ req'[p].id = req[p].id
  BY DEF At, TypeInv, TypeOK, Request
<1> QED BY <1>1, <1>2 DEF Follows, RowPcs, DeletePcs

\* A step that changes neither the peers table nor the worker.
LEMMA RowQuiet ==
    ASSUME TypeInv, TypeInv', RowInv, UNCHANGED <<rows, nextId, store, orphans, fate>>,
           \A q \in Reqs : Follows(q), \A u \in Users : ~Exists(u) => ~Exists(u)'
    PROVE  RowInv'
<1>1. \A n \in PeerNames : /\ Doomed(n) => Doomed(n)'
                           /\ Stays(n)
                           /\ Rooted(n) => Rooted(n)'
  BY DEF Doomed, Stays, Rooted, HasRow, PeerNames
<1>2. \A o \in orphans' : o.call.op = "delete" => \A n \in o.call.peers : Doomed(n)
  BY DEF RowInv, OrphansNoted
<1> QED BY <1>1, <1>2, RowsKept

\* A call that deletes only what was noted to be deleted.
LEMMA RowCall ==
    ASSUME TypeInv, TypeInv', RowInv, UNCHANGED <<rows, nextId, users, fate>>,
           \A q \in Reqs : Follows(q), NEW c \in Calls,
           c.op = "delete" => \A n \in c.peers : Doomed(n),
           \/ \E p \in Reqs \cup {"service"}, reply \in Reply : Answered(p, c, reply)
           \/ (\E reply \in Reply : Executes(c, reply)) /\ orphans' \subseteq orphans
    PROVE  RowInv'
<1>1. \A n \in PeerNames : fate[n] = "acked" => Stays(n)
  <2> SUFFICES ASSUME NEW n \in PeerNames, fate[n] = "acked"
               PROVE  Stays(n)
    OBVIOUS
  <2>1. ~(c.op = "delete" /\ n \in c.peers)
    BY DEF Doomed
  <2>2. CASE store' = store
    BY <2>2 DEF Stays
  <2> QED BY <2>1, <2>2, ExecutesStays DEF Answered
<1>2. ASSUME NEW o \in orphans', o.call.op = "delete"
      PROVE  \A n \in o.call.peers : Doomed(n)
  <2>1. o \in orphans \/ \E p : o = Orphan(c, p)
    BY DEF Answered
  <2> QED BY <1>2, <2>1 DEF Orphan, RowInv, OrphansNoted
<1>3. \A n \in PeerNames : /\ Doomed(n) => Doomed(n)'
                           /\ Rooted(n) => Rooted(n)'
  BY DEF Doomed, Rooted, HasRow, Exists
<1>4. \A u \in Users : ~Exists(u) => ~Exists(u)'
  BY DEF Exists
<1> QED BY <1>1, <1>2, <1>3, <1>4, RowsKept

\* A peer's name is that of one row.
LEMMA RowsLost ==
    ASSUME TypeInv, RowInv, NEW p \in Reqs, req[p].pc \in RowPcs, rows' = WithoutRow(req[p].id),
           UNCHANGED users, NEW n \in PeerNames, Rooted(n), ~Rooted(n)'
    PROVE  n = NameOf(p)
<1>1. HasRow(n[1], n[2]) /\ ~HasRow(n[1], n[2])'
  BY DEF Rooted, Exists
<1>2. PICK r \in rows : r.user = n[1] /\ r.id = n[2]
  BY <1>1 DEF HasRow
<1>3. r.id = req[p].id
  BY <1>1, <1>2 DEF HasRow, WithoutRow
<1>4. r.user = req[p].user
  BY <1>3 DEF RowInv, Holds
<1>5. n = <<n[1], n[2]>>
  BY DEF PeerNames
<1> QED BY <1>2, <1>3, <1>4, <1>5 DEF NameOf, PeerName

\* The rollback takes the row of a config that no one was told of.
LEMMA RowRollBack ==
    ASSUME TypeInv, TypeInv', RowInv, NEW p \in Reqs, RollBack(p)
    PROVE  RowInv'
<1>1. /\ req[p].pc = "rollback" /\ rows' = WithoutRow(req[p].id) /\ req' = Done(p)
      /\ UNCHANGED <<users, nextId, store, orphans, fate>>
  BY DEF RollBack
<1>2. \A q \in Reqs : Follows(q)
  BY <1>1, DoneFollows
<1>3. NameOf(p) \in PeerNames /\ fate[NameOf(p)] # "acked"
  BY <1>1, Named DEF RowInv, OneCreator, Inserted
<1>4. ASSUME NEW q \in Reqs, Creating(q)'
      PROVE  NameOf(q)' # NameOf(p)
  <2>1. q # p /\ req'[q] = req[q]
    BY <1>1, <1>4 DEF Done, IdleRequest, Creating, TypeInv, TypeOK
  <2>2. req[q].id # req[p].id
    BY <1>1, <1>4, <2>1 DEF RowInv, OneCreator, Inserted, Creating
  <2> QED BY <2>1, <2>2 DEF NameOf, PeerName
<1>5. \A n \in PeerNames : Rooted(n) =>
         \/ Rooted(n)'
         \/ ~(fate'[n] = "acked") /\ \A q \in Reqs : ~(Creating(q)' /\ NameOf(q)' = n)
  BY <1>1, <1>3, <1>4, RowsLost DEF RowPcs
<1>6. \A n \in PeerNames : (Doomed(n) => Doomed(n)') /\ Stays(n)
  BY <1>1 DEF Doomed, Stays
<1>7. \A o \in orphans' : o.call.op = "delete" => \A n \in o.call.peers : Doomed(n)
  BY <1>1 DEF RowInv, OrphansNoted
<1>8. rows' \subseteq rows /\ \A u \in Users : ~Exists(u) => ~Exists(u)'
  BY <1>1 DEF WithoutRow, Exists
<1> QED BY <1>1, <1>2, <1>5, <1>6, <1>7, <1>8, RowsKept

\* The row of a deleted config goes: nobody is told of it any more, and whoever
\* still creates the peer knows that it is to be deleted.
LEMMA RowDelete ==
    ASSUME TypeInv, TypeInv', GoneInv, RowInv, NEW p \in Reqs, DeleteRow(p)
    PROVE  RowInv'
<1>1. /\ req[p].pc = "deleteRow" /\ rows' = WithoutRow(req[p].id) /\ req' = Done(p)
      /\ UNCHANGED <<users, nextId, store, orphans>>
      /\ fate' = [fate EXCEPT ![NameOf(p)] = "deleted"]
  BY DEF DeleteRow, NameOf
<1>2. \A q \in Reqs : Follows(q)
  BY <1>1, DoneFollows
<1>3. NameOf(p) \in PeerNames /\ ~ToCreate(NameOf(p))
  BY <1>1, Named DEF GoneInv, Gone
<1>4. \A n \in PeerNames : fate'[n] = IF n = NameOf(p) THEN "deleted" ELSE fate[n]
  BY <1>1 DEF TypeInv, TypeOK
<1>5. \A q \in Reqs : Creating(q)' => NameOf(q)' # NameOf(p)
  <2> SUFFICES ASSUME NEW q \in Reqs, Creating(q)' PROVE NameOf(q)' # NameOf(p)
    OBVIOUS
  <2>1. q # p /\ req'[q] = req[q]
    BY <1>1 DEF Done, IdleRequest, Creating, TypeInv, TypeOK
  <2> QED BY <1>3, <2>1 DEF ToCreate, Creating, NameOf
<1>6. \A n \in PeerNames : Rooted(n) =>
         \/ Rooted(n)'
         \/ ~(fate'[n] = "acked") /\ \A q \in Reqs : ~(Creating(q)' /\ NameOf(q)' = n)
  BY <1>1, <1>4, <1>5, RowsLost DEF RowPcs
<1>7. \A n \in PeerNames : (Doomed(n) => Doomed(n)') /\ Stays(n)
  BY <1>1, <1>4 DEF Doomed, Stays
<1>8. \A o \in orphans' : o.call.op = "delete" => \A n \in o.call.peers : Doomed(n)
  BY <1>1 DEF RowInv, OrphansNoted
<1>9. rows' \subseteq rows /\ \A u \in Users : ~Exists(u) => ~Exists(u)'
  BY <1>1 DEF WithoutRow, Exists
<1> QED BY <1>1, <1>2, <1>4, <1>6, <1>7, <1>8, <1>9, RowsKept

\* The owner goes, with all rows.
LEMMA RowDeleteUser ==
    ASSUME TypeInv, TypeInv', RowInv, NEW p \in Reqs, DeleteUserRow(p)
    PROVE  RowInv'
<1>1. /\ rows' = rows \ RowsOf(req[p].user) /\ req' = Done(p) /\ req[p].user \in Users
      /\ UNCHANGED <<nextId, store, orphans, fate>>
      /\ \A u \in Users : Exists(u)' <=> Exists(u) /\ u # req[p].user
  BY DEF DeleteUserRow, Exists, TypeInv, TypeOK, LocalsOK
<1>2. \A q \in Reqs : Follows(q)
  BY <1>1, DoneFollows
<1>3. \A n \in PeerNames : Rooted(n) => Rooted(n)'
  BY <1>1 DEF Rooted, HasRow, RowsOf, PeerNames
<1>4. \A n \in PeerNames : (Doomed(n) => Doomed(n)') /\ Stays(n)
  BY <1>1 DEF Doomed, Stays
<1>5. \A o \in orphans' : o.call.op = "delete" => \A n \in o.call.peers : Doomed(n)
  BY <1>1 DEF RowInv, OrphansNoted
<1> QED BY <1>1, <1>2, <1>3, <1>4, <1>5, RowsKept

\* Handing peers to the worker for deletion is noted first.
LEMMA RowNoted ==
    ASSUME TypeInv, TypeInv', RowInv, NEW ns \in SUBSET PeerNames, fate' = Deleting(ns),
           UNCHANGED <<users, rows, nextId, store, orphans>>,
           \A q \in Reqs : Follows(q) \/ (Holds(q)' /\ ~Inserted(q)')
    PROVE  RowInv'
<1>1. \A n \in PeerNames : fate'[n] = IF n \in ns THEN "deleting" ELSE fate[n]
  BY DEF Deleting
<1>2. \A n \in PeerNames : /\ Doomed(n) => Doomed(n)'
                           /\ Stays(n)
                           /\ Rooted(n) => Rooted(n)'
  BY <1>1 DEF Doomed, Stays, Rooted, HasRow, Exists
<1>3. \A o \in orphans' : o.call.op = "delete" => \A n \in o.call.peers : Doomed(n)
  BY DEF RowInv, OrphansNoted
<1>4. \A u \in Users : ~Exists(u) => ~Exists(u)'
  BY DEF Exists
<1> QED BY <1>1, <1>2, <1>3, <1>4, RowsKept

LEMMA RowDeleteConfig ==
    ASSUME TypeInv, TypeInv', RowInv, NEW p \in Reqs, NEW r \in rows, DeleteConfig(p, r)
    PROVE  RowInv'
<1> DEFINE n == PeerName(r.user, r.id)
<1>1. n \in PeerNames /\ r.id < nextId
  BY DEF TypeInv, TypeOK, RowsAreKeyed, PeerName, PeerNames
<1>2. /\ fate' = Deleting({n}) /\ UNCHANGED <<users, rows, nextId, store, orphans>>
      /\ req' = [req EXCEPT ![p] = [IdleRequest EXCEPT !.pc = "deleteCall", !.user = r.user,
                                                       !.name = r.name, !.id = r.id]]
  BY DEF DeleteConfig, Begin
<1>3. /\ req'[p].pc = "deleteCall" /\ req'[p].user = r.user /\ req'[p].id = r.id
      /\ \A q \in Reqs : q # p => req'[q] = req[q]
  BY <1>2 DEF IdleRequest, TypeInv, TypeOK
<1>4. \A q \in Reqs : q # p => Follows(q)
  BY <1>3 DEF Follows
<1>5. Holds(p)' /\ ~Inserted(p)'
  <2>1. NameOf(p)' = n
    BY <1>3 DEF NameOf
  <2>2. fate'[n] = "deleting"
    BY <1>1, <1>2 DEF Deleting
  <2>3. \A t \in rows' : t.id = req'[p].id => t.user = req'[p].user
    BY <1>2, <1>3 DEF TypeInv, TypeOK, RowsAreKeyed
  <2>4. Doomed(NameOf(p))'
    BY <2>1, <2>2 DEF Doomed
  <2> QED BY <1>1, <1>2, <1>3, <2>3, <2>4 DEF Holds, Inserted
<1> QED BY <1>1, <1>2, <1>4, <1>5, RowNoted

LEMMA RowListAll ==
    ASSUME TypeInv, TypeInv', RowInv, NEW p \in Reqs, ListAll(p)
    PROVE  RowInv'
<1> DEFINE ns == ListedNames(req[p].user)
<1>1. ns \in SUBSET PeerNames /\ \A n \in ns : n[1] = req[p].user
  BY ListedNamesTyped DEF TypeInv, ListedNames, RowsOf, PeerName
<1>2. fate' = Deleting(ns) /\ UNCHANGED <<users, rows, nextId, store, orphans>>
  BY DEF ListAll
<1>3. /\ \A q \in Reqs : q # p => req'[q] = req[q]
      /\ req'[p].pc \in {"deleteUserRow", "deleteAllCall"}
      /\ req'[p].user = req[p].user /\ req'[p].peers = ns
  BY ListAllReads
<1>4. \A q \in Reqs : q # p => Follows(q)
  BY <1>3 DEF Follows
<1>5. Holds(p)' /\ ~Inserted(p)'
  <2>1. \A n \in ns : n[1] = req[p].user /\ Doomed(n)'
    BY <1>1, <1>2 DEF Deleting, Doomed
  <2> QED BY <1>3, <2>1 DEF Holds, Inserted, RowPcs, DeletePcs
<1> QED BY <1>1, <1>2, <1>4, <1>5, RowNoted

\* 201: the peer is in both files and its row is there, if its owner is.
LEMMA RowCreateAnswered ==
    ASSUME TypeInv, TypeInv', RowInv, NEW p \in Reqs, CreateAnswered(p)
    PROVE  RowInv'
<1>1. PICK n \in PeerNames : n = NameOf(p)
  BY Named DEF CreateAnswered
<1> DEFINE c == Call("create", {n})
<1>2. /\ c \in Calls /\ c = CallOf(req[p]) /\ c.op = "create"
      /\ req[p].pc = "createCall" /\ UNCHANGED <<users, rows, nextId>>
  BY <1>1, CallInCalls DEF CreateAnswered, CallOf, NameOf
<1>3. PICK reply \in Reply :
         /\ Answered(p, c, reply)
         /\ req' = IF reply = "ok" THEN Done(p) ELSE At(p, "rollback")
         /\ fate' = IF reply = "ok" /\ fate[n] = "unknown" THEN [fate EXCEPT ![n] = "acked"] ELSE fate
  BY <1>1, <1>2 DEF CreateAnswered, NameOf
<1>4. \A q \in Reqs : Follows(q)
  BY <1>2, <1>3, DoneFollows, AtFollows
<1>5. CASE fate' = fate
  <2> HIDE DEF c
  <2>1. Answered(p, c, reply) /\ p \in Reqs \cup {"service"} /\ c.op # "delete"
    BY <1>2, <1>3
  <2> QED BY <1>2, <1>4, <1>5, <2>1, RowCall
<1>6. CASE reply = "ok" /\ fate[n] = "unknown"
  <2>1. \A m \in PeerNames : fate'[m] = IF m = n THEN "acked" ELSE fate[m]
    BY <1>3, <1>6 DEF TypeInv, TypeOK
  <2>2. n \in store'.json /\ store'.conf[n] # "absent"
    BY <1>3, <1>6, CreateOk
  <2>3. orphans' = orphans /\ Executes(c, "ok")
    BY <1>3, <1>6 DEF Answered
  <2>4. \A m \in PeerNames : (Rooted(m) => Rooted(m)') /\ (Doomed(m) => Doomed(m)')
    BY <1>2, <1>6, <2>1 DEF Rooted, HasRow, Exists, Doomed
  <2>5. \A m \in PeerNames : Stays(m)
    BY <1>2, <2>3, ExecutesStays
  <2>6. Whole(n)'
    <3>1. Rooted(n)
      BY <1>1, <1>2, <1>6 DEF RowInv, RowsWait, Creating
    <3> QED BY <2>2, <2>4, <3>1 DEF Whole, InJson, InConf
  \* No other request has this row.
  <2>7. \A q \in Reqs : Inserted(q)' => NameOf(q)' # n
    <3> SUFFICES ASSUME NEW q \in Reqs, Inserted(q)' PROVE NameOf(q)' # n
      OBVIOUS
    <3>1. q # p /\ req'[q] = req[q]
      BY <1>3, <1>6 DEF Done, IdleRequest, Inserted, TypeInv, TypeOK
    <3>2. req[q].id # req[p].id
      BY <1>2, <3>1 DEF RowInv, OneCreator, Inserted
    <3> QED BY <1>1, <3>1, <3>2 DEF NameOf, PeerName
  <2>8. \A o \in orphans' : o.call.op = "delete" => \A m \in o.call.peers : Doomed(m)
    BY <2>3 DEF RowInv, OrphansNoted
  <2>9. \A u \in Users : ~Exists(u) => ~Exists(u)'
    BY <1>2 DEF Exists
  <2> QED BY <1>2, <1>4, <2>1, <2>4, <2>5, <2>6, <2>7, <2>8, <2>9, RowsKept
<1> QED BY <1>3, <1>5, <1>6

\* A row with a new id, inserted by a request that is the only one to have it.
LEMMA RowInsert ==
    ASSUME TypeInv, TypeInv', GoneInv, RowInv, NEW p \in Reqs, InsertRow(p)
    PROVE  RowInv'
<1>1. CASE req' = Done(p) /\ UNCHANGED <<rows, nextId>>
  <2>1. \A u \in Users : ~Exists(u) => ~Exists(u)'
    BY DEF InsertRow, Exists
  <2> QED BY <1>1, <2>1, DoneFollows, RowQuiet DEF InsertRow
<1>2. CASE /\ rows' = rows \cup {[id |-> nextId, user |-> req[p].user, name |-> req[p].name]}
           /\ nextId' = nextId + 1
           /\ req' = [req EXCEPT ![p].pc = "createCall", ![p].id = nextId]
  <2>1. UNCHANGED <<users, store, orphans, fate>> /\ nextId \in Nat
    BY DEF InsertRow, TypeInv, TypeOK
  <2>2. /\ \A q \in Reqs : q # p => req'[q] = req[q] /\ NameOf(q)' = NameOf(q)
        /\ req'[p].pc = "createCall" /\ req'[p].id = nextId /\ req'[p].user = req[p].user
    BY <1>2 DEF NameOf, TypeInv, TypeOK, Request
  <2>3. PICK n \in PeerNames : n = PeerName(req[p].user, nextId) /\ n = NameOf(p)'
    <3>1. req'[p].user \in Users /\ req'[p].id \in Ids
      BY <2>2 DEF TypeInv, LocalsOK
    <3> QED BY <2>2, <3>1 DEF PeerName, PeerNames, NameOf
  <2>4. fate[n] = "unknown" /\ n[1] = req[p].user /\ n[2] = nextId
    <3>1. n[1] = req[p].user /\ n[2] = nextId
      BY <2>3 DEF PeerName
    <3> QED BY <2>1, <3>1 DEF GoneInv, Fresh
  <2>5. \A q \in Reqs : q # p /\ req[q].pc \in RowPcs => req[q].id \in Nat /\ req[q].id < nextId
    BY DEF RowInv, Holds, TypeInv, LocalsOK, RowPcs, Ids
  <2>6. \A r \in rows : r.id \in Nat /\ r.id < nextId
    BY DEF TypeInv, TypeOK, RowsAreKeyed, Ids
  <2>7. \A m \in PeerNames : Rooted(m) => Rooted(m)'
    BY <1>2, <2>1 DEF Rooted, HasRow, Exists
  <2>8. Rooted(n)'
    <3> DEFINE row == [id |-> nextId, user |-> req[p].user, name |-> req[p].name]
    <3>1. row \in rows' /\ row.user = n[1] /\ row.id = n[2]
      BY <1>2, <2>4
    <3> HIDE DEF row
    <3>2. \E r \in rows' : r.user = n[1] /\ r.id = n[2]
      BY <3>1
    <3> QED BY <3>2 DEF Rooted, HasRow
  <2>9. ASSUME NEW q \in Reqs
        PROVE  Holds(q)'
    <3>1. CASE q = p
      <4>1. \A r \in rows' : r.id = nextId => r.user = req[p].user
        BY <1>2, <2>1, <2>6
      <4>2. nextId < nextId'
        BY <1>2, <2>1
      <4>3. req'[q].pc = "createCall" /\ req'[q].id = nextId /\ req'[q].user = req[p].user
        BY <2>2, <3>1
      <4> QED BY <4>1, <4>2, <4>3 DEF Holds, DeletePcs
    <3>2. CASE q # p
      <4>1. req'[q] = req[q] /\ NameOf(q)' = NameOf(q) /\ Holds(q)
        BY <2>2, <3>2 DEF RowInv
      <4>2. req[q].pc \in RowPcs => /\ req[q].id < nextId'
                                    /\ \A r \in rows' : r.id = req[q].id => r.user = req[q].user
        BY <1>2, <2>1, <2>5, <3>2, <4>1 DEF Holds
      <4> QED BY <2>1, <4>1, <4>2 DEF Holds, Doomed
    <3> QED BY <3>1, <3>2
  <2>10. OneCreator'
    <3>1. \A q \in Reqs : q # p /\ Inserted(q)' => Inserted(q) /\ req'[q].id = req[q].id /\ req[q].id # nextId
      BY <2>1, <2>2, <2>5 DEF Inserted, RowPcs
    <3>2. \A q \in Reqs : Inserted(q)' => fate'[NameOf(q)'] # "acked"
      BY <2>1, <2>2, <2>3, <2>4, <3>1 DEF RowInv, OneCreator
    <3>3. \A q, r \in Reqs : Inserted(q)' /\ Inserted(r)' /\ req'[q].id = req'[r].id => q = r
      BY <2>2, <3>1 DEF RowInv, OneCreator
    <3> QED BY <3>2, <3>3 DEF OneCreator
  <2>11. OrphansNoted'
    BY <2>1 DEF RowInv, OrphansNoted, Doomed
  <2>12. RowsWait'
    <3> SUFFICES ASSUME NEW q \in Reqs, Creating(q)', fate'[NameOf(q)'] = "unknown"
                 PROVE  Rooted(NameOf(q))'
      BY DEF RowsWait
    <3>1. CASE q = p
      BY <2>3, <2>8, <3>1 DEF Rooted
    <3>2. CASE q # p
      <4>1. NameOf(q)' = NameOf(q) /\ Rooted(NameOf(q)) /\ NameOf(q) \in PeerNames
        BY <2>1, <2>2, <3>2, Named DEF RowInv, RowsWait, Creating
      <4>2. \A m \in PeerNames : m = NameOf(q) => Rooted(m)'
        BY <2>7, <4>1
      <4> QED BY <4>1, <4>2 DEF Rooted
    <3> QED BY <3>1, <3>2
  <2>13. AckedWhole'
    <3>1. \A m \in PeerNames : fate'[m] = "acked" => Whole(m)'
      BY <2>1, <2>7 DEF RowInv, AckedWhole, Whole
    <3> QED BY <3>1 DEF AckedWhole, PeerNames, Ids
  <2> QED BY <2>9, <2>10, <2>11, <2>12, <2>13 DEF RowInv
<1> QED BY <1>1, <1>2 DEF InsertRow

\* A request or the cleanup that goes away leaves its call, which was noted.
LEMMA RowLeaves ==
    ASSUME TypeInv, TypeInv', RowInv, UNCHANGED <<users, rows, nextId, store, fate>>,
           \A q \in Reqs : Follows(q),
           \A o \in orphans' : \/ o \in orphans \cup CleanupLeaves
                               \/ \E q \in Reqs : o \in Leaves(q)
    PROVE  RowInv'
<1>1. ASSUME NEW q \in Reqs, NEW o \in Leaves(q), o.call.op = "delete"
      PROVE  \A n \in o.call.peers : Doomed(n)
  <2>1. o.call = CallOf(req[q]) /\ req[q].pc \in CallPcs
    BY DEF Leaves, Orphan
  <2>2. Holds(q)
    BY DEF RowInv
  <2>3. CASE req[q].pc = "deleteCall"
    BY <2>1, <2>2, <2>3 DEF Holds, DeletePcs, CallOf, Call, NameOf
  <2>4. CASE req[q].pc = "deleteAllCall"
    BY <2>1, <2>2, <2>4 DEF Holds, CallOf, Call
  <2>5. CASE req[q].pc \in {"createCall", "unfreezeCall"}
    BY <1>1, <2>1, <2>5 DEF CallOf, Call
  <2> QED BY <2>1, <2>3, <2>4, <2>5 DEF CallPcs
<1>2. \A o \in orphans' : o.call.op = "delete" => \A n \in o.call.peers : Doomed(n)
  BY <1>1 DEF RowInv, OrphansNoted, CleanupLeaves, Orphan, Call
<1>3. \A n \in PeerNames : /\ Doomed(n) => Doomed(n)'
                           /\ Stays(n)
                           /\ Rooted(n) => Rooted(n)'
  BY DEF Doomed, Stays, Rooted, HasRow, Exists
<1>4. \A u \in Users : ~Exists(u) => ~Exists(u)'
  BY DEF Exists
<1> QED BY <1>2, <1>3, <1>4, RowsKept

LEMMA RowStarts ==
    ASSUME TypeInv, TypeInv', RowInv, NEW p \in Reqs, Starts(p)
    PROVE  RowInv'
<1>1. ASSUME NEW r, r.pc \notin RowPcs \cup {"deleteAllCall"}, Begin(p, r)
      PROVE  \A q \in Reqs : Follows(q)
  BY <1>1 DEF Begin, Follows, RowPcs, DeletePcs, TypeInv, TypeOK
<1>2. ASSUME NEW u \in Users, NEW n \in ConfigNames, CreateConfig(p, u, n)
      PROVE  RowInv'
  <2>1. \A q \in Reqs : Follows(q)
    BY <1>1, <1>2 DEF CreateConfig, IdleRequest, RowPcs
  <2> QED BY <1>2, <2>1, RowQuiet DEF CreateConfig, Exists
<1>3. ASSUME NEW u \in Users, DeleteUser(p, u) \/ PatchUser(p, u)
      PROVE  RowInv'
  <2>1. \A q \in Reqs : Follows(q)
    BY <1>1, <1>3 DEF DeleteUser, PatchUser, IdleRequest, RowPcs
  <2>2. UNCHANGED <<users, rows, nextId, store, orphans, fate>>
    BY <1>3 DEF DeleteUser, PatchUser
  <2> QED BY <2>1, <2>2, RowQuiet DEF Exists
<1> QED BY <1>2, <1>3, RowDeleteConfig DEF Starts

LEMMA RowContinues ==
    ASSUME TypeInv, TypeInv', GoneInv, RowInv, NEW p \in Reqs, Continues(p)
    PROVE  RowInv'
<1>1. CASE CheckLimit(p) \/ ListFrozen(p) \/ SetExpiry(p) \/ ClearFlag(p)
  <2>1. \A q \in Reqs : Follows(q)
    <3>1. CASE CheckLimit(p) \/ SetExpiry(p) \/ ClearFlag(p)
      BY <3>1, DoneFollows, AtFollows DEF CheckLimit, SetExpiry, ClearFlag, RowPcs
    <3>2. CASE ListFrozen(p)
      <4>1. /\ \A q \in Reqs : q # p => req'[q] = req[q]
            /\ req'[p].pc \in {"clearFlag", "unfreezeCall"}
        BY <3>2, ListFrozenReads
      <4> QED BY <4>1 DEF Follows, RowPcs, DeletePcs
    <3> QED BY <1>1, <3>1, <3>2
  <2>2. UNCHANGED <<rows, nextId, store, orphans, fate>>
    BY <1>1 DEF CheckLimit, ListFrozen, SetExpiry, ClearFlag
  <2>3. \A u \in Users : ~Exists(u) => ~Exists(u)'
    BY <1>1 DEF CheckLimit, ListFrozen, SetExpiry, ClearFlag, SetFrozen, Exists, TypeInv, TypeOK
  <2> QED BY <2>1, <2>2, <2>3, RowQuiet
<1>2. CASE DeleteAnswered(p) \/ DeleteAllAnswered(p) \/ UnfreezeAnswered(p)
  <2>1. \A q \in Reqs : Follows(q)
    BY <1>2, DoneFollows, AtFollows
       DEF DeleteAnswered, DeleteAllAnswered, UnfreezeAnswered, RowPcs
  <2>2. /\ UNCHANGED <<users, rows, nextId, fate>>
        /\ \E reply \in Reply : Answered(p, CallOf(req[p]), reply)
        /\ req[p].pc \in {"deleteCall", "deleteAllCall", "unfreezeCall"}
    BY <1>2 DEF DeleteAnswered, DeleteAllAnswered, UnfreezeAnswered
  <2>3. CallOf(req[p]) \in Calls
    BY <2>2, CallOfTyped DEF CallPcs
  <2>4. CallOf(req[p]).op = "delete" => \A n \in CallOf(req[p]).peers : Doomed(n)
    BY <2>2 DEF RowInv, Holds, CallOf, Call, DeletePcs, NameOf
  <2> QED BY <2>1, <2>2, <2>3, <2>4, RowCall
<1> QED BY <1>1, <1>2, RowInsert, RowCreateAnswered, RowRollBack, RowDelete, RowListAll,
           RowDeleteUser
        DEF Continues

LEMMA SameFollows ==
    ASSUME req' = req
    PROVE  \A q \in Reqs : Follows(q)
BY DEF Follows

LEMMA RowCleanup ==
    ASSUME TypeInv, TypeInv', RowInv, CleanupStep
    PROVE  RowInv'
<1>1. CASE FreezeAnswered
  <2>1. Call("freeze", svc.peers) \in Calls /\ Call("freeze", svc.peers).op = "freeze"
    BY CallInCalls DEF TypeInv, TypeOK, Cleanup
  <2>2. PICK reply \in Reply : Answered("service", Call("freeze", svc.peers), reply)
    BY <1>1 DEF FreezeAnswered
  <2> QED BY <1>1, <2>1, <2>2, SameFollows, RowCall DEF FreezeAnswered
<1>2. CASE StartCleanup \/ ListPeers \/ SetFlag
  <2>1. \A u \in Users : ~Exists(u) => ~Exists(u)'
    BY <1>2 DEF StartCleanup, ListPeers, SetFlag, SetFrozen, Exists, TypeInv, TypeOK
  <2>2. UNCHANGED <<rows, nextId, store, req, orphans, fate>>
    BY <1>2 DEF StartCleanup, ListPeers, SetFlag
  <2> QED BY <2>1, <2>2, SameFollows, RowQuiet
<1> QED BY <1>1, <1>2 DEF CleanupStep

LEMMA RowNext == TypeInv /\ TypeInv' /\ GoneInv /\ RowInv /\ [Next]_vars => RowInv'
<1> SUFFICES ASSUME TypeInv, TypeInv', GoneInv, RowInv, [Next]_vars PROVE RowInv'
  OBVIOUS
<1>1. CASE \E p \in Reqs : Starts(p) \/ Continues(p)
  BY <1>1, RowStarts, RowContinues
<1>2. CASE CleanupStep
  BY <1>2, RowCleanup
<1>3. CASE (\E u \in Users : Expire(u)) \/ UNCHANGED vars
  <2>1. \A u \in Users : ~Exists(u) => ~Exists(u)'
    BY <1>3 DEF Expire, Exists, TypeInv, TypeOK, vars
  <2>2. UNCHANGED <<rows, nextId, store, req, orphans, fate>>
    BY <1>3 DEF Expire, vars
  <2> QED BY <2>1, <2>2, SameFollows, RowQuiet
<1>4. ASSUME NEW o \in orphans, OrphanRuns(o)
      PROVE  RowInv'
  <2>1. o.call \in Calls /\ (o.call.op = "delete" => \A n \in o.call.peers : Doomed(n))
    BY DEF TypeInv, TypeOK, Orphans, RowInv, OrphansNoted
  <2>2. /\ orphans' \subseteq orphans /\ UNCHANGED <<users, rows, nextId, req, fate>>
        /\ \E reply \in Reply : Executes(o.call, reply)
    BY <1>4 DEF OrphanRuns
  <2> QED BY <2>1, <2>2, SameFollows, RowCall
<1>5. ASSUME NEW p \in Reqs, Abandon(p)
      PROVE  RowInv'
  <2>1. \A q \in Reqs : Follows(q)
    BY <1>5, DoneFollows DEF Abandon
  <2>2. orphans' \subseteq orphans \cup Leaves(p)
    BY <1>5 DEF Abandon
  <2> QED BY <1>5, <2>1, <2>2, RowLeaves DEF Abandon
<1>6. CASE Crash
  <2>1. \A q \in Reqs : Follows(q)
    BY <1>6 DEF Crash, IdleRequest, Follows, RowPcs, DeletePcs
  <2>2. orphans' \subseteq orphans \cup LeftBehind
    BY <1>6 DEF Crash
  <2>3. \A o \in LeftBehind : o \in CleanupLeaves \/ \E q \in Reqs : o \in Leaves(q)
    BY DEF LeftBehind
  <2>4. UNCHANGED <<users, rows, nextId, store, fate>>
    BY <1>6 DEF Crash
  <2> QED BY <2>1, <2>2, <2>3, <2>4, RowLeaves
<1>7. CASE SkipUser
  BY <1>7, SameFollows, RowQuiet DEF SkipUser, Exists
<1> QED BY <1>1, <1>2, <1>3, <1>4, <1>5, <1>6, <1>7 DEF Next, Environment

\* A config that createConfig answered 201 for keeps its row, its entry of peers.json
\* and its block of awg0.conf until a deletion names it or its owner is gone: whatever
\* rollbacks, failed calls, abandoned calls and crashes happen beside it.  Only a write
\* that failed after os.WriteFile truncated a file takes what that one file had.
THEOREM AckedKeptHolds == Spec => []AckedKept
<1>1. Spec => [](TypeInv /\ GoneInv /\ RowInv)
  BY TypeInit, TypeNext, GoneInit, GoneNext, RowInit, RowNext, PTL DEF Spec
<1>2. RowInv => AckedKept
  <2> SUFFICES ASSUME RowInv, NEW u \in Users, NEW i \in Ids, fate[PeerName(u, i)] = "acked"
               PROVE  /\ InJson(store, PeerName(u, i)) /\ InConf(store, PeerName(u, i))
                      /\ HasRow(u, i) \/ ~Exists(u)
    BY DEF AckedKept, InJson, InConf
  <2>1. PeerName(u, i) \in PeerNames /\ PeerName(u, i)[1] = u /\ PeerName(u, i)[2] = i
    BY DEF PeerName, PeerNames
  <2> QED BY <2>1 DEF RowInv, AckedWhole, Whole, Rooted
<1> QED BY <1>1, <1>2, PTL

----------------------------------------------------------------------------
(* The second inductive invariant *)

Agreeing(s) == /\ s.torn = {}
               /\ \A n \in PeerNames : n \in s.json <=> s.conf[n] # "absent"

\* Without failures no call is lost and no creation is undone, and a peer that is on
\* the worker, or about to be, has its row.
AgreeNow ==
    /\ orphans = {} /\ \A p \in Reqs : req[p].pc # "rollback"
    /\ \A p \in Reqs : Creating(p) => Rooted(NameOf(p))
    /\ Agreeing(store)
    /\ \A n \in PeerNames : n \in store.json => Rooted(n)
    /\ \A r \in rows : InFlight(r) \/ PeerName(r.user, r.id) \in store.json

AgreeInv == faults = 0 => AgreeNow

LEMMA AgreeInit == Init => AgreeInv
BY DEF Init, AgreeInv, AgreeNow, Agreeing, Creating, IdleRequest, EmptyStore

LEMMA AnswerAgrees ==
    ASSUME NEW s \in Store, NEW c \in Calls, Agreeing(s)
    PROVE  Agreeing(Answer(s, c).store)
<1>1. CASE c.op = "create"
  BY <1>1 DEF Answer, CreateResult, CreateRefused, Result, WithPeers, WithBlocks, Store, Calls,
              Agreeing
<1>2. CASE c.op = "delete"
  BY <1>2 DEF Answer, DeleteResult, Result, WithoutPeers, WithoutBlocks, Store, Calls, Agreeing
<1>3. CASE c.op = "freeze"
  BY <1>3 DEF Answer, FreezeResult, Result, Frozen, WithState, Store, Calls, Agreeing
<1>4. CASE c.op = "unfreeze"
  BY <1>4 DEF Answer, UnfreezeResult, Result, Unfrozen, WithState, Store, Calls, Agreeing
<1> QED BY <1>1, <1>2, <1>3, <1>4 DEF Calls

\* Peers leave by a deletion that says so.
LEMMA AnswerJson ==
    ASSUME NEW s \in Store, NEW c \in Calls, c.op # "create"
    PROVE  /\ Answer(s, c).store.json \subseteq s.json
           /\ \A n \in s.json : n \in Answer(s, c).store.json
                 \/ (c.op = "delete" /\ n \in c.peers /\ Answer(s, c).reply = "ok")
<1>1. CASE c.op = "delete"
  BY <1>1 DEF Answer, DeleteResult, Result, WithoutPeers, WithoutBlocks
<1>2. CASE c.op = "freeze"
  BY <1>2 DEF Answer, FreezeResult, Result, Frozen, WithState
<1>3. CASE c.op = "unfreeze"
  BY <1>3 DEF Answer, UnfreezeResult, Result, Unfrozen, WithState
<1> QED BY <1>1, <1>2, <1>3 DEF Calls

\* An answer without a failure.
LEMMA NoFault ==
    ASSUME TypeInv, NEW p, NEW c, NEW reply, Answered(p, c, reply), faults' = 0
    PROVE  /\ faults = 0 /\ orphans' = orphans
           /\ reply = Answer(store, c).reply /\ store' = Answer(store, c).store
<1>1. ~CountFault
  BY DEF CountFault, TypeInv, TypeOK
<1> QED BY <1>1 DEF Answered, Executes

FlightPcs == {"createCall", "deleteRow", "deleteUserRow"}

\* A step that touches neither the peers table nor the worker.
LEMMA AgreeQuiet ==
    ASSUME TypeInv, AgreeInv, UNCHANGED <<rows, store, orphans, faults>>,
           \A q \in Reqs : /\ req[q].pc \in FlightPcs => req'[q] = req[q]
                           /\ req'[q].pc \in {"createCall", "rollback"} => req'[q] = req[q],
           \A u \in Users : ~Exists(u) => ~Exists(u)'
    PROVE  AgreeInv'
<1> SUFFICES ASSUME AgreeNow PROVE AgreeNow'
  BY DEF AgreeInv
<1>1. \A n \in PeerNames : Rooted(n) => Rooted(n)'
  BY DEF Rooted, HasRow, PeerNames
<1>2. \A p \in Reqs : Creating(p)' => Rooted(NameOf(p))'
  <2> SUFFICES ASSUME NEW p \in Reqs, Creating(p)' PROVE Rooted(NameOf(p))'
    OBVIOUS
  <2>1. Creating(p) /\ NameOf(p)' = NameOf(p) /\ NameOf(p) \in PeerNames
    BY Named DEF Creating, NameOf
  <2>2. \A n \in PeerNames : n = NameOf(p) => Rooted(n)'
    BY <1>1, <2>1 DEF AgreeNow
  <2> QED BY <2>1, <2>2 DEF Rooted
<1>3. \A r \in rows : InFlight(r) => InFlight(r)'
  BY DEF InFlight, FlightPcs
<1>4. \A n \in PeerNames : n \in store'.json => Rooted(n)'
  BY <1>1 DEF AgreeNow
<1>5. orphans' = {} /\ \A p \in Reqs : req'[p].pc # "rollback"
  BY DEF AgreeNow
<1>6. Agreeing(store)' /\ \A r \in rows' : InFlight(r)' \/ PeerName(r.user, r.id) \in store'.json
  BY <1>3 DEF AgreeNow
<1> QED BY <1>2, <1>4, <1>5, <1>6 DEF AgreeNow, PeerNames, Ids

\* A call that creates nothing, and deletes only what then is in flight.
LEMMA AgreeCall ==
    ASSUME TypeInv, AgreeInv, UNCHANGED <<users, rows>>, NEW p, NEW c \in Calls, c.op # "create",
           NEW reply, Answered(p, c, reply),
           \A q \in Reqs : /\ req[q].pc \in FlightPcs => req'[q] = req[q]
                           /\ req'[q].pc \in {"createCall", "rollback"} => req'[q] = req[q],
           \A r \in rows : c.op = "delete" /\ reply = "ok" /\ PeerName(r.user, r.id) \in c.peers
                              => InFlight(r)'
    PROVE  AgreeInv'
<1> SUFFICES ASSUME faults' = 0 PROVE AgreeNow'
  BY DEF AgreeInv
<1>1. /\ faults = 0 /\ orphans' = orphans
      /\ reply = Answer(store, c).reply /\ store' = Answer(store, c).store
  BY NoFault
<1>2. AgreeNow /\ store \in Store
  BY <1>1 DEF AgreeInv, TypeInv, TypeOK
<1>3. \A n : Rooted(n)' <=> Rooted(n)
  BY DEF Rooted, HasRow, Exists
<1>4. \A q \in Reqs : Creating(q)' => Rooted(NameOf(q))'
  <2> SUFFICES ASSUME NEW q \in Reqs, Creating(q)' PROVE Rooted(NameOf(q))'
    OBVIOUS
  <2>1. Creating(q) /\ NameOf(q)' = NameOf(q)
    BY DEF Creating, NameOf
  <2>2. \A n : n = NameOf(q) => Rooted(n)'
    BY <1>2, <1>3, <2>1 DEF AgreeNow
  <2> QED BY <2>1, <2>2 DEF Rooted
<1>5. \A r \in rows : InFlight(r) => InFlight(r)'
  BY DEF InFlight, FlightPcs
<1>6. \A r \in rows' : InFlight(r)' \/ PeerName(r.user, r.id) \in store'.json
  BY <1>1, <1>2, <1>5, AnswerJson DEF AgreeNow
<1>7. \A n \in PeerNames : n \in store'.json => Rooted(n)'
  BY <1>1, <1>2, <1>3, AnswerJson DEF AgreeNow
<1>8. Agreeing(store)'
  BY <1>1, <1>2, AnswerAgrees DEF AgreeNow, Agreeing, PeerNames, Ids
<1>9. orphans' = {} /\ \A q \in Reqs : req'[q].pc # "rollback"
  BY <1>1, <1>2 DEF AgreeNow
<1> QED BY <1>4, <1>6, <1>7, <1>8, <1>9 DEF AgreeNow, PeerNames, Ids

\* The worker has the peer: the table had its row, or its owner is gone.
LEMMA AgreeCreateAnswered ==
    ASSUME TypeInv, GoneInv, RowInv, AgreeInv, NEW p \in Reqs, CreateAnswered(p)
    PROVE  AgreeInv'
<1> SUFFICES ASSUME faults' = 0 PROVE AgreeNow'
  BY DEF AgreeInv
<1>1. PICK n \in PeerNames : n = NameOf(p)
  BY Named DEF CreateAnswered
<1> DEFINE c == Call("create", {n})
<1>2. /\ c \in Calls /\ c = CallOf(req[p]) /\ c.op = "create" /\ c.peers = {n}
      /\ req[p].pc = "createCall" /\ UNCHANGED <<users, rows>>
  BY <1>1, CallInCalls DEF CreateAnswered, CallOf, NameOf
<1>3. PICK reply \in Reply :
         Answered(p, c, reply) /\ req' = IF reply = "ok" THEN Done(p) ELSE At(p, "rollback")
  BY <1>2 DEF CreateAnswered
<1>4. /\ faults = 0 /\ orphans' = orphans
      /\ reply = Answer(store, c).reply /\ store' = Answer(store, c).store
  BY <1>3, NoFault
<1>5. AgreeNow /\ store \in Store
  BY <1>4 DEF AgreeInv, TypeInv, TypeOK
\* The name is new to the worker, which so does not refuse.
<1>6. n \notin store.json
  <2>1. ToCreate(n)
    BY <1>1, <1>2 DEF ToCreate, Creating
  <2> QED BY <2>1 DEF GoneInv, Gone
<1>7. reply = "ok" /\ store'.json = store.json \cup {n}
  <2>1. Answer(store, c) = Result(WithPeers(store, {n}), "ok")
    BY <1>2, <1>5, <1>6 DEF Answer, CreateResult, CreateRefused, AgreeNow, Agreeing
  <2> QED BY <1>4, <2>1 DEF Result, WithPeers
<1>8. /\ req' = Done(p) /\ req'[p].pc = "idle"
      /\ \A q \in Reqs : q # p => req'[q] = req[q]
  BY <1>3, <1>7 DEF Done, IdleRequest, TypeInv, TypeOK
<1>9. \A m : Rooted(m)' <=> Rooted(m)
  BY <1>2 DEF Rooted, HasRow, Exists
<1>10. \A q \in Reqs : Creating(q)' => Rooted(NameOf(q))'
  <2> SUFFICES ASSUME NEW q \in Reqs, Creating(q)' PROVE Rooted(NameOf(q))'
    OBVIOUS
  <2>1. Creating(q) /\ NameOf(q)' = NameOf(q)
    BY <1>8 DEF Creating, NameOf
  <2>2. \A m : m = NameOf(q) => Rooted(m)'
    BY <1>5, <1>9, <2>1 DEF AgreeNow
  <2> QED BY <2>1, <2>2 DEF Rooted
<1>11. ASSUME NEW r \in rows
       PROVE  InFlight(r)' \/ PeerName(r.user, r.id) \in store'.json
  <2>1. CASE req[p].id = r.id
    <3>1. r.user = req[p].user
      BY <1>2, <2>1 DEF RowInv, Holds, RowPcs
    <3> QED BY <1>1, <1>7, <2>1, <3>1 DEF NameOf
  <2>2. CASE req[p].id # r.id
    <3>1. InFlight(r) => InFlight(r)'
      BY <1>2, <1>8, <2>2 DEF InFlight
    <3> QED BY <1>5, <1>7, <3>1 DEF AgreeNow
  <2> QED BY <2>1, <2>2
<1>12. \A m \in PeerNames : m \in store'.json => Rooted(m)'
  BY <1>1, <1>2, <1>5, <1>7, <1>9 DEF AgreeNow, Creating
<1>13. Agreeing(store)'
  BY <1>2, <1>4, <1>5, AnswerAgrees DEF AgreeNow, Agreeing, PeerNames, Ids
<1>14. orphans' = {} /\ \A q \in Reqs : req'[q].pc # "rollback"
  BY <1>4, <1>5, <1>8 DEF AgreeNow
<1> QED BY <1>2, <1>10, <1>11, <1>12, <1>13, <1>14 DEF AgreeNow, PeerNames, Ids

\* A call that deletes leaves its rows in flight.
LEMMA AgreeDeleteAnswered ==
    ASSUME TypeInv, RowInv, AgreeInv, NEW p \in Reqs,
           DeleteAnswered(p) \/ DeleteAllAnswered(p) \/ UnfreezeAnswered(p)
    PROVE  AgreeInv'
<1> DEFINE c == CallOf(req[p])
<1>1. /\ UNCHANGED <<users, rows>> /\ req[p].pc \in {"deleteCall", "deleteAllCall", "unfreezeCall"}
  BY DEF DeleteAnswered, DeleteAllAnswered, UnfreezeAnswered
<1>2. PICK reply \in Reply :
         /\ Answered(p, c, reply)
         /\ \/ req' = Done(p) /\ reply # "ok"
            \/ /\ reply = "ok"
               /\ req' = At(p, IF req[p].pc = "deleteCall" THEN "deleteRow"
                               ELSE IF req[p].pc = "deleteAllCall" THEN "deleteUserRow" ELSE "clearFlag")
  BY DEF DeleteAnswered, DeleteAllAnswered, UnfreezeAnswered
<1>3. c \in Calls /\ c.op # "create"
  BY <1>1, CallOfTyped DEF CallPcs, CallOf, Call
<1>4. /\ \A q \in Reqs : q # p => req'[q] = req[q]
      /\ req'[p].pc \in {"idle", "deleteRow", "deleteUserRow", "clearFlag"}
      /\ reply = "ok" /\ req[p].pc = "deleteCall" => req'[p].pc = "deleteRow" /\ req'[p].id = req[p].id
      /\ reply = "ok" /\ req[p].pc = "deleteAllCall" =>
            req'[p].pc = "deleteUserRow" /\ req'[p].user = req[p].user
  BY <1>2 DEF Done, At, IdleRequest, TypeInv, TypeOK, Request
<1>5. ASSUME NEW r \in rows, c.op = "delete", reply = "ok", PeerName(r.user, r.id) \in c.peers
      PROVE  InFlight(r)'
  <2>1. CASE req[p].pc = "deleteCall"
    <3>1. r.id = req[p].id
      BY <1>5, <2>1 DEF CallOf, Call, PeerName
    <3> QED BY <1>4, <1>5, <2>1, <3>1 DEF InFlight
  <2>2. CASE req[p].pc = "deleteAllCall"
    <3>1. PeerName(r.user, r.id) \in req[p].peers
      BY <1>5, <2>2 DEF CallOf, Call
    <3>2. r.user = req[p].user
      BY <2>2, <3>1 DEF RowInv, Holds, PeerName
    <3> QED BY <1>4, <1>5, <2>2, <3>2 DEF InFlight
  <2>3. CASE req[p].pc = "unfreezeCall"
    BY <1>5, <2>3 DEF CallOf, Call
  <2> QED BY <1>1, <2>1, <2>2, <2>3
<1>6. \A q \in Reqs : /\ req[q].pc \in FlightPcs => req'[q] = req[q]
                      /\ req'[q].pc \in {"createCall", "rollback"} => req'[q] = req[q]
  BY <1>1, <1>4 DEF FlightPcs
<1> HIDE DEF c
<1> QED BY <1>1, <1>2, <1>3, <1>5, <1>6, AgreeCall

\* A new row is in flight.
LEMMA AgreeInsert ==
    ASSUME TypeInv, TypeInv', AgreeInv, NEW p \in Reqs, InsertRow(p)
    PROVE  AgreeInv'
<1>1. UNCHANGED <<users, store, orphans, faults>> /\ req[p].pc = "insert"
  BY DEF InsertRow
<1>2. CASE req' = Done(p) /\ UNCHANGED <<rows, nextId>>
  <2>1. \A q \in Reqs : /\ req[q].pc \in FlightPcs => req'[q] = req[q]
                        /\ req'[q].pc \in {"createCall", "rollback"} => req'[q] = req[q]
    BY <1>1, <1>2 DEF Done, IdleRequest, FlightPcs, TypeInv, TypeOK
  <2> QED BY <1>1, <1>2, <2>1, AgreeQuiet DEF Exists
<1>3. CASE /\ rows' = rows \cup {[id |-> nextId, user |-> req[p].user, name |-> req[p].name]}
           /\ req' = [req EXCEPT ![p].pc = "createCall", ![p].id = nextId]
  <2> SUFFICES ASSUME AgreeNow PROVE AgreeNow'
    BY <1>1 DEF AgreeInv
  <2> DEFINE row == [id |-> nextId, user |-> req[p].user, name |-> req[p].name]
  <2>1. row.id = nextId /\ row.user = req[p].user /\ rows' = rows \cup {row}
    BY <1>3
  <2> HIDE DEF row
  <2>2. /\ \A q \in Reqs : q # p => req'[q] = req[q]
        /\ req'[p].pc = "createCall" /\ req'[p].id = nextId /\ req'[p].user = req[p].user
    BY <1>3 DEF TypeInv, TypeOK, Request
  <2>3. \A n : Rooted(n) => Rooted(n)'
    BY <1>1, <2>1 DEF Rooted, HasRow, Exists
  <2>4. \A q \in Reqs : Creating(q)' => Rooted(NameOf(q))'
    <3> SUFFICES ASSUME NEW q \in Reqs, Creating(q)' PROVE Rooted(NameOf(q))'
      OBVIOUS
    <3>1. CASE q = p
      <4>1. NameOf(p)'[1] = req[p].user /\ NameOf(p)'[2] = nextId
        BY <2>2 DEF NameOf, PeerName
      <4>2. \E r \in rows' : r.user = req[p].user /\ r.id = nextId
        BY <2>1
      <4> QED BY <3>1, <4>1, <4>2 DEF Rooted, HasRow
    <3>2. CASE q # p
      <4>1. Creating(q) /\ NameOf(q)' = NameOf(q)
        BY <2>2, <3>2 DEF Creating, NameOf
      <4>2. \A n : n = NameOf(q) => Rooted(n)'
        BY <2>3, <4>1 DEF AgreeNow
      <4> QED BY <4>1, <4>2 DEF Rooted
    <3> QED BY <3>1, <3>2
  <2>5. \A r \in rows' : InFlight(r)' \/ PeerName(r.user, r.id) \in store'.json
    <3>1. ASSUME NEW r \in rows', r = row PROVE InFlight(r)'
      BY <2>1, <2>2, <3>1 DEF InFlight
    <3>2. \A r \in rows : InFlight(r) => InFlight(r)'
      BY <1>1, <2>2 DEF InFlight
    <3> QED BY <1>1, <2>1, <3>1, <3>2 DEF AgreeNow
  <2>6. \A n \in PeerNames : n \in store'.json => Rooted(n)'
    BY <1>1, <2>3 DEF AgreeNow
  <2>7. orphans' = {} /\ Agreeing(store)' /\ \A q \in Reqs : req'[q].pc # "rollback"
    BY <1>1, <2>2 DEF AgreeNow
  <2> QED BY <2>4, <2>5, <2>6, <2>7 DEF AgreeNow, PeerNames, Ids
<1> QED BY <1>2, <1>3 DEF InsertRow

\* Rows go once the worker has nothing of them, or with their owner.
LEMMA AgreeRowsGo ==
    ASSUME TypeInv, GoneInv, RowInv, AgreeInv, NEW p \in Reqs,
           RollBack(p) \/ DeleteRow(p) \/ DeleteUserRow(p)
    PROVE  AgreeInv'
<1>1. /\ req' = Done(p) /\ UNCHANGED <<store, orphans, faults>>
      /\ req[p].pc \in {"rollback", "deleteRow", "deleteUserRow"}
  BY DEF RollBack, DeleteRow, DeleteUserRow
<1> SUFFICES ASSUME AgreeNow PROVE AgreeNow'
  BY <1>1 DEF AgreeInv
<1>2. /\ req'[p].pc = "idle"
      /\ \A q \in Reqs : q # p => req'[q] = req[q]
  BY <1>1 DEF Done, IdleRequest, TypeInv, TypeOK
<1>3. rows' \subseteq rows /\ \A r \in rows' : InFlight(r) => InFlight(r)'
  <2>1. CASE DeleteRow(p)
    <3>1. rows' = WithoutRow(req[p].id) /\ req[p].pc = "deleteRow"
      BY <2>1 DEF DeleteRow
    <3> QED BY <1>2, <3>1 DEF WithoutRow, InFlight
  <2>2. CASE DeleteUserRow(p)
    <3>1. rows' = rows \ RowsOf(req[p].user) /\ req[p].pc = "deleteUserRow"
      BY <2>2 DEF DeleteUserRow
    <3> QED BY <1>2, <3>1 DEF RowsOf, InFlight
  <2>3. CASE RollBack(p)
    BY <2>3 DEF RollBack, AgreeNow
  <2> QED BY <2>1, <2>2, <2>3
\* Whoever loses the row is neither on the worker nor about to be.
<1>4. ASSUME NEW n \in PeerNames, Rooted(n), ~Rooted(n)'
      PROVE  n \notin store.json /\ ~ToCreate(n)
  <2>1. CASE DeleteRow(p)
    <3>1. n = NameOf(p)
      BY <1>4, <2>1, RowsLost DEF DeleteRow, RowPcs
    <3> QED BY <2>1, <3>1 DEF DeleteRow, GoneInv, Gone, OnWorker
  <2>2. CASE DeleteUserRow(p)
    BY <1>4, <2>2 DEF DeleteUserRow, RowsOf, Rooted, HasRow, Exists, TypeInv, TypeOK, LocalsOK,
                      PeerNames
  <2>3. CASE RollBack(p)
    BY <2>3 DEF RollBack, AgreeNow
  <2> QED BY <2>1, <2>2, <2>3
<1>5. \A q \in Reqs : Creating(q)' => Rooted(NameOf(q))'
  <2> SUFFICES ASSUME NEW q \in Reqs, Creating(q)' PROVE Rooted(NameOf(q))'
    OBVIOUS
  <2>1. Creating(q) /\ NameOf(q)' = NameOf(q) /\ NameOf(q) \in PeerNames
    BY <1>2, Named DEF Creating, NameOf
  <2>2. ToCreate(NameOf(q)) /\ Rooted(NameOf(q))
    BY <2>1 DEF ToCreate, AgreeNow
  <2>3. \A n \in PeerNames : n = NameOf(q) => Rooted(n)'
    BY <1>4, <2>2
  <2> QED BY <2>1, <2>3 DEF Rooted
<1>6. \A n \in PeerNames : n \in store'.json => Rooted(n)'
  BY <1>1, <1>4 DEF AgreeNow
<1>7. \A r \in rows' : InFlight(r)' \/ PeerName(r.user, r.id) \in store'.json
  BY <1>1, <1>3 DEF AgreeNow
<1>8. orphans' = {} /\ Agreeing(store)' /\ \A q \in Reqs : req'[q].pc # "rollback"
  BY <1>1, <1>2 DEF AgreeNow
<1> QED BY <1>5, <1>6, <1>7, <1>8 DEF AgreeNow, PeerNames, Ids

LEMMA AgreeNext == TypeInv /\ TypeInv' /\ GoneInv /\ RowInv /\ AgreeInv /\ [Next]_vars => AgreeInv'
<1> SUFFICES ASSUME TypeInv, TypeInv', GoneInv, RowInv, AgreeInv, [Next]_vars PROVE AgreeInv'
  OBVIOUS
<1> DEFINE Aside == \A q \in Reqs : /\ req[q].pc \in FlightPcs => req'[q] = req[q]
                                    /\ req'[q].pc \in {"createCall", "rollback"} => req'[q] = req[q]
<1>1. ASSUME NEW p \in Reqs, Starts(p)
      PROVE  AgreeInv'
  <2>1. ASSUME NEW r, r.pc \notin {"createCall", "rollback"}, Begin(p, r)
        PROVE  Aside
    BY <2>1 DEF Begin, Active, FlightPcs, TypeInv, TypeOK
  <2>2. CASE \E u \in Users, n \in ConfigNames : CreateConfig(p, u, n)
    BY <2>1, <2>2, AgreeQuiet DEF CreateConfig, IdleRequest, Exists
  <2>3. CASE \E r \in rows : DeleteConfig(p, r)
    BY <2>1, <2>3, AgreeQuiet DEF DeleteConfig, IdleRequest, Exists
  <2>4. CASE \E u \in Users : DeleteUser(p, u)
    BY <2>1, <2>4, AgreeQuiet DEF DeleteUser, IdleRequest, Exists
  <2>5. CASE \E u \in Users : PatchUser(p, u)
    BY <2>1, <2>5, AgreeQuiet DEF PatchUser, IdleRequest, Exists
  <2> QED BY <1>1, <2>2, <2>3, <2>4, <2>5 DEF Starts
<1>2. ASSUME NEW p \in Reqs,
             CheckLimit(p) \/ ListAll(p) \/ ListFrozen(p) \/ SetExpiry(p) \/ ClearFlag(p)
      PROVE  AgreeInv'
  <2>1. /\ \A q \in Reqs : q # p => req'[q] = req[q]
        /\ req[p].pc \notin FlightPcs /\ req'[p].pc \notin {"createCall", "rollback"}
    <3>1. req[p].pc \in {"limit", "listAll", "listFrozen", "setExpiry", "clearFlag"}
      BY <1>2 DEF CheckLimit, ListAll, ListFrozen, SetExpiry, ClearFlag
    <3>2. /\ \A q \in Reqs : q # p => req'[q] = req[q]
          /\ req'[p].pc \in {"idle", "insert", "listFrozen", "deleteUserRow", "deleteAllCall",
                             "clearFlag", "unfreezeCall"}
      <4>1. CASE CheckLimit(p)
        <5>1. req' = Done(p) \/ req' = At(p, "insert")
          BY <4>1 DEF CheckLimit
        <5> QED BY <5>1, DoneReads, AtReads
      <4>2. CASE ListAll(p)
        BY <4>2, ListAllReads
      <4>3. CASE ListFrozen(p)
        BY <4>3, ListFrozenReads
      <4>4. CASE SetExpiry(p)
        <5>1. req' = Done(p) \/ req' = At(p, "listFrozen")
          BY <4>4 DEF SetExpiry
        <5> QED BY <5>1, DoneReads, AtReads
      <4>5. CASE ClearFlag(p)
        BY <4>5, DoneReads DEF ClearFlag
      <4> QED BY <1>2, <4>1, <4>2, <4>3, <4>4, <4>5
    <3> QED BY <3>1, <3>2 DEF FlightPcs
  <2>2. UNCHANGED <<rows, store, orphans, faults>>
    BY <1>2 DEF CheckLimit, ListAll, ListFrozen, SetExpiry, ClearFlag
  <2>3. \A u \in Users : ~Exists(u) => ~Exists(u)'
    BY <1>2 DEF CheckLimit, ListAll, ListFrozen, SetExpiry, ClearFlag, SetFrozen, Exists, TypeInv,
                TypeOK
  <2> QED BY <2>1, <2>2, <2>3, AgreeQuiet
<1>3. ASSUME NEW p \in Reqs, Continues(p)
      PROVE  AgreeInv'
  BY <1>2, <1>3, AgreeInsert, AgreeCreateAnswered, AgreeDeleteAnswered, AgreeRowsGo DEF Continues
<1>4. CASE FreezeAnswered
  <2>1. Call("freeze", svc.peers) \in Calls /\ Call("freeze", svc.peers).op = "freeze"
    BY CallInCalls DEF TypeInv, TypeOK, Cleanup
  <2>2. PICK reply \in Reply : Answered("service", Call("freeze", svc.peers), reply)
    BY <1>4 DEF FreezeAnswered
  <2> QED BY <1>4, <2>1, <2>2, AgreeCall DEF FreezeAnswered
<1>5. CASE StartCleanup \/ ListPeers \/ SetFlag \/ (\E u \in Users : Expire(u)) \/ UNCHANGED vars
  <2>1. \A u \in Users : ~Exists(u) => ~Exists(u)'
    BY <1>5 DEF StartCleanup, ListPeers, SetFlag, SetFrozen, Expire, Exists, TypeInv, TypeOK, vars
  <2>2. UNCHANGED <<rows, store, req, orphans, faults>>
    BY <1>5 DEF StartCleanup, ListPeers, SetFlag, Expire, vars
  <2> QED BY <2>1, <2>2, AgreeQuiet
<1>6. CASE \E o \in orphans : OrphanRuns(o)
  <2>1. ASSUME faults' = 0
        PROVE  FALSE
    <3>1. faults = 0
      BY <1>6, <2>1 DEF OrphanRuns, Executes, CountFault, TypeInv, TypeOK
    <3> QED BY <1>6, <3>1 DEF AgreeInv, AgreeNow
  <2> QED BY <2>1 DEF AgreeInv
<1>7. CASE (\E p \in Reqs : Abandon(p)) \/ SkipUser \/ Crash
  BY <1>7 DEF Abandon, SkipUser, Crash, CountFault, AgreeInv, TypeInv, TypeOK
<1> QED BY <1>1, <1>3, <1>4, <1>5, <1>6, <1>7 DEF Next, CleanupStep, Environment

\* As long as nothing has failed, the peers table and the worker's files agree whatever
\* interleaves: a peer is in both files or in neither, it has its row or no owner, and
\* a row that no request is busy with has its peer.
THEOREM TablesAgreeHolds == Spec => []TablesAgree
<1>1. Spec => [](TypeInv /\ GoneInv /\ RowInv /\ AgreeInv)
  BY TypeInit, TypeNext, GoneInit, GoneNext, RowInit, RowNext, AgreeInit, AgreeNext, PTL DEF Spec
<1>2. AgreeInv => TablesAgree
  <2> SUFFICES ASSUME AgreeNow
               PROVE  /\ \A r \in rows : InFlight(r) \/ PeerName(r.user, r.id) \in store.json
                      /\ \A u \in Users, i \in Ids :
                           /\ PeerName(u, i) \in store.json <=> store.conf[PeerName(u, i)] # "absent"
                           /\ PeerName(u, i) \in store.json => HasRow(u, i) \/ ~Exists(u)
    BY DEF AgreeInv, TablesAgree
  <2>1. \A u \in Users, i \in Ids :
           PeerName(u, i) \in PeerNames /\ PeerName(u, i)[1] = u /\ PeerName(u, i)[2] = i
    BY DEF PeerName, PeerNames
  <2> QED BY <2>1 DEF AgreeNow, Agreeing, Rooted
<1> QED BY <1>1, <1>2, PTL
=============================================================================
