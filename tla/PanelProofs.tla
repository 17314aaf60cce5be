----------------------------- MODULE PanelProofs -----------------------------
(***************************************************************************)
(* Proofs about Panel, for any number of users, slots, configs and         *)
(* failures.                                                               *)
(***************************************************************************)
EXTENDS Panel, FiniteSetTheorems, TLAPS

----------------------------------------------------------------------------
(* What a call may do to the worker's store *)

\* The calls the backend makes.
LEMMA CallInCalls ==
    ASSUME NEW op \in {"create", "delete", "freeze", "unfreeze"}, NEW ns \in SUBSET PeerNames
    PROVE  Call(op, ns) \in Calls /\ Call(op, ns).op = op /\ Call(op, ns).peers = ns
BY DEF Call, Calls

\* Well or badly ended, a call leaves a store; a peer it was not asked to create
\* is in the conf or the json only if it was before.
LEMMA AnswerEffect ==
    ASSUME NEW s \in Store, NEW c \in Calls
    PROVE  /\ Answer(s, c).store \in Store
           /\ \A n \in PeerNames : ~(c.op = "create" /\ n \in c.peers) =>
                 /\ n \in Answer(s, c).store.json => n \in s.json
                 /\ Answer(s, c).store.conf[n] # "absent" => s.conf[n] # "absent"
<1>1. CASE c.op = "create"
  BY <1>1 DEF Answer, CreateResult, CreateRefused, Result, WithPeers, WithBlocks, Store, BlockState,
              Calls
<1>2. CASE c.op = "delete"
  BY <1>2 DEF Answer, DeleteResult, Result, WithoutPeers, WithoutBlocks, Store, BlockState, Calls
<1>3. CASE c.op = "freeze"
  BY <1>3 DEF Answer, FreezeResult, Result, Frozen, WithState, Store, BlockState, Calls
<1>4. CASE c.op = "unfreeze"
  BY <1>4 DEF Answer, UnfreezeResult, Result, Unfrozen, WithState, Store, BlockState, Calls
<1> QED BY <1>1, <1>2, <1>3, <1>4 DEF Calls

LEMMA BadAnswerEffect ==
    ASSUME NEW s \in Store, NEW c \in Calls, NEW a \in BadAnswers(s, c)
    PROVE  /\ a.store \in Store
           /\ a.reply \in {"status", "error"}
           /\ \A n \in PeerNames : ~(c.op = "create" /\ n \in c.peers) =>
                 /\ n \in a.store.json => n \in s.json
                 /\ a.store.conf[n] # "absent" => s.conf[n] # "absent"
<1>1. CASE c.op = "create"
  BY <1>1 DEF BadAnswers, CreateFaults, CreateRefused, Failed, WithPeers, WithBlocks, ConfLost,
              JsonLost, Store, BlockState, Calls
<1>2. CASE c.op = "delete"
  BY <1>2 DEF BadAnswers, DeleteFaults, Failed, WithoutPeers, WithoutBlocks, ConfLost, JsonLost,
              Store, BlockState, Calls
<1>3. CASE c.op = "freeze"
  BY <1>3 DEF BadAnswers, FreezeFaults, WriteFaults, Failed, Frozen, WithState, ConfLost,
              Store, BlockState, Calls
<1>4. CASE c.op = "unfreeze"
  BY <1>4 DEF BadAnswers, UnfreezeFaults, WriteFaults, Failed, Unfrozen, WithState, ConfLost,
              Store, BlockState, Calls
<1> QED BY <1>1, <1>2, <1>3, <1>4 DEF Calls

----------------------------------------------------------------------------
(* Types *)

\* The locals a handler uses at each point have been given their values.
LocalsOK ==
    \A p \in Reqs :
        /\ req[p].pc # "idle" => req[p].user \in Users
        /\ req[p].pc \in {"limit", "insert"} => req[p].name \in ConfigNames
        /\ req[p].pc \in {"createCall", "rollback", "deleteCall", "deleteRow"}
              => req[p].id \in Ids

TypeInv == TypeOK /\ LocalsOK

LEMMA ListedNamesTyped ==
    ASSUME TypeOK, NEW u
    PROVE  ListedNames(u) \in SUBSET PeerNames
BY DEF TypeOK, ListedNames, RowsOf, PeerName, PeerNames

LEMMA CallOfTyped ==
    ASSUME TypeInv, NEW p \in Reqs, req[p].pc \in CallPcs
    PROVE  CallOf(req[p]) \in Calls
BY DEF TypeInv, TypeOK, LocalsOK, CallPcs, CallOf, Call, Calls, Request, PeerName, PeerNames

LEMMA ExecutesTyped ==
    ASSUME TypeInv, NEW c \in Calls, NEW reply, Executes(c, reply)
    PROVE  store' \in Store /\ faults' \in 0..MaxFaults
<1>1. CASE store' = Answer(store, c).store /\ faults' = faults
  BY <1>1, AnswerEffect DEF TypeInv, TypeOK
<1>2. CASE CountFault /\ \E a \in BadAnswers(store, c) : store' = a.store
  BY <1>2, BadAnswerEffect, BoundsAssumption DEF TypeInv, TypeOK, CountFault, FaultsLeft
<1> QED BY <1>1, <1>2 DEF Executes

LEMMA OrphanTyped ==
    ASSUME TypeInv, FaultsLeft, NEW c \in Calls, NEW p \in Reqs \cup {"service"}
    PROVE  Orphan(c, p) \in Orphans
BY BoundsAssumption DEF TypeInv, TypeOK, FaultsLeft, Orphan, Orphans

LEMMA AnsweredTyped ==
    ASSUME TypeInv, NEW p \in Reqs \cup {"service"}, NEW c \in Calls, NEW reply,
           Answered(p, c, reply)
    PROVE  store' \in Store /\ orphans' \subseteq Orphans /\ faults' \in 0..MaxFaults
<1>1. CASE Executes(c, reply) /\ UNCHANGED orphans
  BY <1>1, ExecutesTyped DEF TypeInv, TypeOK
<1>2. CASE CountFault /\ orphans' = orphans \cup {Orphan(c, p)} /\ UNCHANGED store
  BY <1>2, OrphanTyped, BoundsAssumption DEF TypeInv, TypeOK, CountFault, FaultsLeft
<1> QED BY <1>1, <1>2 DEF Answered

\* Moving the request of slot p to another point of its handler.
LEMMA DoneTyped ==
    ASSUME TypeInv, NEW p \in Reqs, req' = Done(p)
    PROVE  req' \in [Reqs -> Request] /\ LocalsOK'
<1>1. IdleRequest \in Request
  BY DEF IdleRequest, Request, ReqPcs, NoUser, NoName
<1> QED BY <1>1 DEF TypeInv, TypeOK, LocalsOK, Done, IdleRequest

LEMMA DoneReads ==
    ASSUME TypeInv, NEW p \in Reqs, req' = Done(p)
    PROVE  /\ req'[p] = IdleRequest /\ req'[p].pc = "idle"
           /\ \A q \in Reqs : q # p => req'[q] = req[q]
BY DEF TypeInv, TypeOK, Done, IdleRequest

LEMMA AtReads ==
    ASSUME TypeInv, NEW p \in Reqs, NEW pc, req' = At(p, pc)
    PROVE  /\ req'[p] = [req[p] EXCEPT !.pc = pc]
           /\ req'[p].pc = pc /\ req'[p].user = req[p].user /\ req'[p].name = req[p].name
           /\ req'[p].id = req[p].id /\ req'[p].peers = req[p].peers
           /\ \A q \in Reqs : q # p => req'[q] = req[q]
<1>1. req[p] \in Request
  BY DEF TypeInv, TypeOK
<1>2. req' = [req EXCEPT ![p] = [req[p] EXCEPT !.pc = pc]]
  BY DEF At
<1>3. /\ req'[p] = [req[p] EXCEPT !.pc = pc]
      /\ \A q \in Reqs : q # p => req'[q] = req[q]
  BY <1>2 DEF TypeInv, TypeOK
<1> QED BY <1>1, <1>3 DEF Request

\* ListByUser leaves the names it found with the request.
WithNames(p, ns, pc) == [req EXCEPT ![p].peers = ns, ![p].pc = pc]

LEMMA WithNamesReads ==
    ASSUME TypeInv, NEW p \in Reqs, NEW ns, NEW pc, req' = WithNames(p, ns, pc)
    PROVE  /\ req'[p].pc = pc /\ req'[p].user = req[p].user /\ req'[p].name = req[p].name
           /\ req'[p].id = req[p].id /\ req'[p].peers = ns
           /\ \A q \in Reqs : q # p => req'[q] = req[q]
<1>1. req[p] \in Request
  BY DEF TypeInv, TypeOK
<1> DEFINE r == [req[p] EXCEPT !.peers = ns, !.pc = pc]
<1>2. /\ r.pc = pc /\ r.user = req[p].user /\ r.name = req[p].name
      /\ r.id = req[p].id /\ r.peers = ns
  BY <1>1 DEF Request
<1>3. req' = [req EXCEPT ![p] = r]
  BY DEF TypeInv, TypeOK, WithNames
<1> HIDE DEF r
<1>4. req'[p] = r /\ \A q \in Reqs : q # p => req'[q] = req[q]
  BY <1>3 DEF TypeInv, TypeOK
<1> QED BY <1>2, <1>4

LEMMA ListAllReads ==
    ASSUME TypeInv, NEW p \in Reqs, ListAll(p)
    PROVE  /\ \A q \in Reqs : q # p => req'[q] = req[q]
           /\ req'[p].pc \in {"deleteUserRow", "deleteAllCall"}
           /\ req'[p].user = req[p].user /\ req'[p].peers = ListedNames(req[p].user)
<1> DEFINE ns == ListedNames(req[p].user)
           pc == IF ns = {} THEN "deleteUserRow" ELSE "deleteAllCall"
<1>1. req' = WithNames(p, ns, pc)
  BY DEF ListAll, WithNames
<1>2. pc \in {"deleteUserRow", "deleteAllCall"}
  OBVIOUS
<1> HIDE DEF pc, ns
<1>3. req'[p].pc = pc /\ req'[p].user = req[p].user /\ req'[p].peers = ns
      /\ \A q \in Reqs : q # p => req'[q] = req[q]
  BY <1>1, WithNamesReads
<1> QED BY <1>2, <1>3 DEF ns

LEMMA ListFrozenReads ==
    ASSUME TypeInv, NEW p \in Reqs, ListFrozen(p)
    PROVE  /\ \A q \in Reqs : q # p => req'[q] = req[q]
           /\ req'[p].pc \in {"clearFlag", "unfreezeCall"}
<1> DEFINE ns == ListedNames(req[p].user)
           pc == IF ns = {} THEN "clearFlag" ELSE "unfreezeCall"
<1>1. req' = WithNames(p, ns, pc)
  BY DEF ListFrozen, WithNames
<1>2. pc \in {"clearFlag", "unfreezeCall"}
  OBVIOUS
<1> HIDE DEF pc, ns
<1>3. req'[p].pc = pc /\ req'[p].user = req[p].user /\ req'[p].peers = ns
      /\ \A q \in Reqs : q # p => req'[q] = req[q]
  BY <1>1, WithNamesReads
<1> QED BY <1>2, <1>3 DEF ns

LEMMA AtTyped ==
    ASSUME TypeInv, NEW p \in Reqs, NEW pc \in ReqPcs, req' = At(p, pc), Active(p),
           pc = "insert" => req[p].pc = "limit",
           pc \in {"rollback", "deleteRow"} => req[p].pc \in {"createCall", "deleteCall"},
           pc \notin {"limit", "createCall", "deleteCall"}
    PROVE  req' \in [Reqs -> Request] /\ LocalsOK'
<1>1. [req[p] EXCEPT !.pc = pc] \in Request
  BY DEF TypeInv, TypeOK, Request
<1>2. req' = [req EXCEPT ![p] = [req[p] EXCEPT !.pc = pc]]
  BY DEF At
<1>3. req' \in [Reqs -> Request]
  BY <1>1, <1>2 DEF TypeInv, TypeOK
<1>4. \A q \in Reqs : req'[q] = IF q = p THEN [req[p] EXCEPT !.pc = pc] ELSE req[q]
  BY <1>2 DEF TypeInv, TypeOK
<1>5. /\ req'[p].pc = pc
      /\ req'[p].user = req[p].user /\ req'[p].name = req[p].name /\ req'[p].id = req[p].id
  BY <1>4 DEF TypeInv, TypeOK, Request
<1> QED BY <1>3, <1>4, <1>5 DEF TypeInv, LocalsOK, Active

LEMMA TypeInit == Init => TypeInv
BY BoundsAssumption, UsersAssumption
   DEF Init, TypeInv, TypeOK, LocalsOK, RowsAreKeyed, EmptyStore, Store, BlockState, Request,
       IdleRequest, ReqPcs, Cleanup, IdleCleanup, Expiry, Ids, PeerNames, NoUser, NoName

\* Each action, for the conjuncts it disturbs.
LEMMA TypeNext == TypeInv /\ [Next]_vars => TypeInv'
<1> SUFFICES ASSUME TypeInv, [Next]_vars PROVE TypeInv'
  OBVIOUS
<1> USE DEF TypeInv, TypeOK, LocalsOK
<1>1. ASSUME NEW p \in Reqs, NEW u \in Users, NEW n \in ConfigNames, CreateConfig(p, u, n)
      PROVE  TypeInv'
  BY <1>1 DEF CreateConfig, Begin, IdleRequest, Request, ReqPcs, NoUser, NoName, RowsAreKeyed
<1>2. ASSUME NEW p \in Reqs, NEW r \in rows, DeleteConfig(p, r)
      PROVE  TypeInv'
  BY <1>2 DEF DeleteConfig, Begin, IdleRequest, Request, ReqPcs, NoUser, NoName, RowsAreKeyed, Deleting
<1>3. ASSUME NEW p \in Reqs, NEW u \in Users, DeleteUser(p, u) \/ PatchUser(p, u)
      PROVE  TypeInv'
  <2>1. CASE DeleteUser(p, u)
    BY <2>1 DEF DeleteUser, Begin, IdleRequest, Request, ReqPcs, NoUser, NoName, RowsAreKeyed
  <2>2. CASE PatchUser(p, u)
    BY <2>2 DEF PatchUser, Begin, IdleRequest, Request, ReqPcs, NoUser, NoName, RowsAreKeyed
  <2> QED BY <1>3, <2>1, <2>2
<1>4. ASSUME NEW p \in Reqs, CheckLimit(p)
      PROVE  TypeInv'
  BY <1>4, DoneTyped, AtTyped DEF CheckLimit, Active, ReqPcs, RowsAreKeyed
<1>5. ASSUME NEW p \in Reqs, InsertRow(p)
      PROVE  TypeInv'
  <2> DEFINE u == req[p].user
  <2>1. CASE req' = Done(p) /\ UNCHANGED <<rows, nextId>>
    BY <1>5, <2>1, DoneTyped DEF InsertRow, RowsAreKeyed
  <2>2. CASE ~(req' = Done(p) /\ UNCHANGED <<rows, nextId>>)
    <3>1. /\ ~NameTaken(u, req[p].name) /\ Exists(u) /\ nextId \in Ids
          /\ rows' = rows \cup {[id |-> nextId, user |-> u, name |-> req[p].name]}
          /\ nextId' = nextId + 1
          /\ req' = [req EXCEPT ![p].pc = "createCall", ![p].id = nextId]
          /\ u \in Users /\ req[p].name \in ConfigNames
      BY <1>5, <2>2, BoundsAssumption DEF InsertRow, Ids
    <3>2. UNCHANGED <<users, store, svc, orphans, faults, fate>>
      BY <1>5 DEF InsertRow
    <3>3. RowsAreKeyed'
      BY <3>1, <3>2, BoundsAssumption DEF RowsAreKeyed, NameTaken, RowsOf, Exists, Ids
    <3>4. /\ [req[p] EXCEPT !.pc = "createCall", !.id = nextId] \in Request
          /\ req' = [req EXCEPT ![p] = [req[p] EXCEPT !.pc = "createCall", !.id = nextId]]
      <4>1. [req[p] EXCEPT !.pc = "createCall", !.id = nextId] \in Request
        BY <3>1 DEF Request, ReqPcs
      <4> QED BY <3>1, <4>1
    <3>5. req' \in [Reqs -> Request] /\ LocalsOK'
      BY <3>1, <3>4 DEF Request
    <3> QED BY <3>1, <3>2, <3>3, <3>5, BoundsAssumption DEF Ids
  <2> QED BY <2>1, <2>2
<1>6. ASSUME NEW p \in Reqs, CreateAnswered(p)
      PROVE  TypeInv'
  <2>1. store' \in Store /\ orphans' \subseteq Orphans /\ faults' \in 0..MaxFaults
    BY <1>6, CallOfTyped, AnsweredTyped DEF CreateAnswered, CallPcs
  <2>2. req' \in [Reqs -> Request] /\ LocalsOK'
    BY <1>6, DoneTyped, AtTyped DEF CreateAnswered, Active, ReqPcs
  <2> QED BY <1>6, <2>1, <2>2 DEF CreateAnswered, RowsAreKeyed
<1>7. ASSUME NEW p \in Reqs, DeleteAnswered(p)
      PROVE  TypeInv'
  <2>1. store' \in Store /\ orphans' \subseteq Orphans /\ faults' \in 0..MaxFaults
    BY <1>7, CallOfTyped, AnsweredTyped DEF DeleteAnswered, CallPcs
  <2>2. req' \in [Reqs -> Request] /\ LocalsOK'
    BY <1>7, DoneTyped, AtTyped DEF DeleteAnswered, Active, ReqPcs
  <2> QED BY <1>7, <2>1, <2>2 DEF DeleteAnswered, RowsAreKeyed
<1>8. ASSUME NEW p \in Reqs, DeleteAllAnswered(p)
      PROVE  TypeInv'
  <2>1. store' \in Store /\ orphans' \subseteq Orphans /\ faults' \in 0..MaxFaults
    BY <1>8, CallOfTyped, AnsweredTyped DEF DeleteAllAnswered, CallPcs
  <2>2. req' \in [Reqs -> Request] /\ LocalsOK'
    BY <1>8, DoneTyped, AtTyped DEF DeleteAllAnswered, Active, ReqPcs
  <2> QED BY <1>8, <2>1, <2>2 DEF DeleteAllAnswered, RowsAreKeyed
<1>9. ASSUME NEW p \in Reqs, UnfreezeAnswered(p)
      PROVE  TypeInv'
  <2>1. store' \in Store /\ orphans' \subseteq Orphans /\ faults' \in 0..MaxFaults
    BY <1>9, CallOfTyped, AnsweredTyped DEF UnfreezeAnswered, CallPcs
  <2>2. req' \in [Reqs -> Request] /\ LocalsOK'
    BY <1>9, DoneTyped, AtTyped DEF UnfreezeAnswered, Active, ReqPcs
  <2> QED BY <1>9, <2>1, <2>2 DEF UnfreezeAnswered, RowsAreKeyed
<1>10. ASSUME NEW p \in Reqs, RollBack(p) \/ DeleteRow(p)
       PROVE  TypeInv'
  <2>1. rows' \subseteq rows /\ UNCHANGED <<users, nextId, store, svc, orphans, faults>>
    BY <1>10 DEF RollBack, DeleteRow, WithoutRow
  <2>2. req' \in [Reqs -> Request] /\ LocalsOK'
    BY <1>10, DoneTyped DEF RollBack, DeleteRow
  <2>3. fate' \in [PeerNames -> {"unknown", "acked", "deleting", "deleted"}]
    BY <1>10 DEF RollBack, DeleteRow
  <2> QED BY <2>1, <2>2, <2>3 DEF RowsAreKeyed
<1>11. ASSUME NEW p \in Reqs, ListAll(p) \/ ListFrozen(p)
       PROVE  TypeInv'
  <2>1. req' \in [Reqs -> Request] /\ LocalsOK'
    BY <1>11, ListedNamesTyped DEF ListAll, ListFrozen, Request, ReqPcs
  <2>2. fate' \in [PeerNames -> {"unknown", "acked", "deleting", "deleted"}]
    BY <1>11 DEF ListAll, ListFrozen, Deleting
  <2> QED BY <1>11, <2>1, <2>2 DEF ListAll, ListFrozen, RowsAreKeyed
<1>12. ASSUME NEW p \in Reqs, DeleteUserRow(p)
       PROVE  TypeInv'
  <2>1. req' \in [Reqs -> Request] /\ LocalsOK'
    BY <1>12, DoneTyped DEF DeleteUserRow
  <2> QED BY <1>12, <2>1 DEF DeleteUserRow, RowsAreKeyed, RowsOf, Expiry
<1>13. ASSUME NEW p \in Reqs, SetExpiry(p)
       PROVE  TypeInv'
  <2>1. req' \in [Reqs -> Request] /\ LocalsOK'
    BY <1>13, DoneTyped, AtTyped DEF SetExpiry, Active, ReqPcs
  <2> QED BY <1>13, <2>1 DEF SetExpiry, RowsAreKeyed, Expiry
<1>14. ASSUME NEW p \in Reqs, ClearFlag(p)
       PROVE  TypeInv'
  <2>1. req' \in [Reqs -> Request] /\ LocalsOK'
    BY <1>14, DoneTyped DEF ClearFlag
  <2> QED BY <1>14, <2>1 DEF ClearFlag, SetFrozen, RowsAreKeyed, Expiry
<1>15. ASSUME CleanupStep
       PROVE  TypeInv'
  <2>1. CASE StartCleanup
    BY <2>1 DEF StartCleanup, ToFreeze, Cleanup, RowsAreKeyed
  <2>2. CASE ListPeers
    BY <2>2, ListedNamesTyped DEF ListPeers, Cleanup, RowsAreKeyed
  <2>3. CASE FreezeAnswered
    <3>1. Call("freeze", svc.peers) \in Calls
      BY CallInCalls DEF Cleanup
    <3>2. store' \in Store /\ orphans' \subseteq Orphans /\ faults' \in 0..MaxFaults
      BY <2>3, <3>1, AnsweredTyped DEF FreezeAnswered
    <3> QED BY <2>3, <3>2 DEF FreezeAnswered, NextUser, IdleCleanup, Cleanup, RowsAreKeyed
  <2>4. CASE SetFlag
    <3>1. svc' \in Cleanup
      BY <2>4 DEF SetFlag, NextUser, IdleCleanup, Cleanup
    <3>2. /\ users' \in [Users -> [exp : Expiry, frozen : BOOLEAN]]
          /\ \A u \in Users : users'[u].exp = users[u].exp
      BY <2>4 DEF SetFlag, SetFrozen
    <3> QED BY <2>4, <3>1, <3>2 DEF SetFlag, RowsAreKeyed
  <2> QED BY <1>15, <2>1, <2>2, <2>3, <2>4 DEF CleanupStep
<1>16. ASSUME NEW u \in Users, Expire(u)
       PROVE  TypeInv'
  BY <1>16 DEF Expire, RowsAreKeyed, Expiry
<1>17. ASSUME NEW o \in orphans, OrphanRuns(o)
       PROVE  TypeInv'
  <2>1. o.call \in Calls
    BY DEF Orphans
  <2>2. store' \in Store /\ faults' \in 0..MaxFaults
    BY <1>17, <2>1, ExecutesTyped DEF OrphanRuns
  <2> QED BY <1>17, <2>2 DEF OrphanRuns, RowsAreKeyed
<1>18. ASSUME NEW p \in Reqs, Abandon(p)
       PROVE  TypeInv'
  <2>1. FaultsLeft => Leaves(p) \subseteq Orphans
    BY CallOfTyped, OrphanTyped DEF Leaves
  <2>2. req' \in [Reqs -> Request] /\ LocalsOK'
    BY <1>18, DoneTyped DEF Abandon
  <2> QED BY <1>18, <2>1, <2>2, BoundsAssumption
          DEF Abandon, CountFault, FaultsLeft, RowsAreKeyed
<1>19. ASSUME Crash
       PROVE  TypeInv'
  <2>1. FaultsLeft => \A p \in Reqs : Leaves(p) \subseteq Orphans
    BY CallOfTyped, OrphanTyped DEF Leaves
  <2>2. FaultsLeft => Orphan(Call("freeze", svc.peers), "service") \in Orphans
    BY CallInCalls, OrphanTyped DEF Cleanup
  <2>3. ASSUME FaultsLeft, NEW o \in LeftBehind
        PROVE  o \in Orphans
    <3> HIDE DEF TypeInv, TypeOK
    <3>1. CASE o \in CleanupLeaves
      BY <2>2, <2>3, <3>1 DEF CleanupLeaves
    <3>2. CASE o \in UNION {Leaves(p) : p \in Reqs}
      BY <2>1, <2>3, <3>2
    <3> QED BY <2>3, <3>1, <3>2 DEF LeftBehind
  <2>5. orphans' \subseteq Orphans
    <3>1. FaultsLeft /\ \E part \in SUBSET LeftBehind : orphans' = orphans \cup part
      BY <1>19, ZenonT(30) DEF Crash, CountFault
    <3>2. orphans \subseteq Orphans
      OBVIOUS
    <3> HIDE DEF TypeInv, TypeOK
    <3> QED BY <2>3, <3>1, <3>2
  <2>4. req' \in [Reqs -> Request] /\ LocalsOK' /\ svc' \in Cleanup
    BY <1>19 DEF Crash, IdleRequest, Request, ReqPcs, NoUser, NoName, Cleanup, IdleCleanup
  <2> QED BY <1>19, <2>5, <2>4, BoundsAssumption DEF Crash, CountFault, FaultsLeft, RowsAreKeyed
<1>20. CASE SkipUser
  <2>1. svc' \in Cleanup
    BY <1>20 DEF SkipUser, NextUser, IdleCleanup, Cleanup
  <2> QED BY <1>20, <2>1, BoundsAssumption DEF SkipUser, CountFault, FaultsLeft, RowsAreKeyed
<1>21. CASE UNCHANGED vars
  BY <1>21 DEF vars, RowsAreKeyed
<1> QED BY <1>1, <1>2, <1>3, <1>4, <1>5, <1>6, <1>7, <1>8, <1>9, <1>10, <1>11, <1>12, <1>13,
           <1>14, <1>15, <1>16, <1>17, <1>18, <1>19, <1>20, <1>21
        DEF Next, Starts, Continues, Environment

\* The tables, the worker's files and every handler's locals are of their types, and
\* the tables keep their keys.
THEOREM TypeCorrect == Spec => []TypeOK
<1>1. Spec => []TypeInv
  BY TypeInit, TypeNext, PTL DEF Spec
<1> QED BY <1>1, PTL DEF TypeInv

----------------------------------------------------------------------------
(* MAX_CONFIGS, and how far concurrent requests can overshoot it *)

\* The requests that have passed the limit check and are about to insert.  Each
\* is a row to come; that is what makes the bound inductive.
Inserting(u) == {p \in Reqs : req[p].pc = "insert" /\ req[p].user = u}

LimitInv ==
    \A u \in Users :
        /\ IsFiniteSet(RowsOf(u))
        /\ Cardinality(RowsOf(u)) + Cardinality(Inserting(u))
              <= MaxConfigs + Cardinality(Reqs) - 1

LEMMA InsertingFinite ==
    ASSUME NEW u
    PROVE  /\ IsFiniteSet(Inserting(u))
           /\ Cardinality(Inserting(u)) \in Nat
           /\ Cardinality(Inserting(u)) <= Cardinality(Reqs)
           /\ Cardinality(Reqs) \in Nat
BY FS_Subset, FS_CardinalityType, SlotsAssumption DEF Inserting

\* A step that adds no row and takes no request to its insert.
LEMMA LimitKept ==
    ASSUME LimitInv, rows' \subseteq rows,
           \A p \in Reqs : req'[p].pc = "insert" => req[p].pc = "insert" /\ req'[p].user = req[p].user
    PROVE  LimitInv'
<1> SUFFICES ASSUME NEW u \in Users
             PROVE  /\ IsFiniteSet(RowsOf(u)')
                    /\ Cardinality(RowsOf(u)') + Cardinality(Inserting(u)')
                          <= MaxConfigs + Cardinality(Reqs) - 1
  BY DEF LimitInv
<1>1. RowsOf(u)' \subseteq RowsOf(u) /\ Inserting(u)' \subseteq Inserting(u)
  BY DEF RowsOf, Inserting
<1>2. IsFiniteSet(RowsOf(u)) /\ IsFiniteSet(Inserting(u))
  BY InsertingFinite DEF LimitInv
<1>3. /\ IsFiniteSet(RowsOf(u)')
      /\ Cardinality(RowsOf(u)') <= Cardinality(RowsOf(u))
      /\ Cardinality(Inserting(u)') <= Cardinality(Inserting(u))
  BY <1>1, <1>2, FS_Subset
<1>4. /\ Cardinality(RowsOf(u)) \in Nat /\ Cardinality(RowsOf(u)') \in Nat
      /\ Cardinality(Inserting(u)) \in Nat /\ Cardinality(Inserting(u)') \in Nat
      /\ Cardinality(Reqs) \in Nat
  BY <1>1, <1>2, <1>3, FS_CardinalityType, FS_Subset, InsertingFinite
<1> QED BY <1>3, <1>4, BoundsAssumption DEF LimitInv

\* The check: fewer than MaxConfigs rows, and fewer than all slots inserting.
LEMMA LimitChecked ==
    ASSUME TypeInv, LimitInv, NEW p \in Reqs, CheckLimit(p)
    PROVE  LimitInv'
<1> DEFINE v == req[p].user
<1>1. CASE req' = Done(p)
  <2>1. \A q \in Reqs : req'[q].pc = "insert" => req'[q] = req[q]
    BY <1>1 DEF Done, IdleRequest, TypeInv, TypeOK
  <2> QED BY <2>1, LimitKept DEF CheckLimit
<1>2. CASE req' = At(p, "insert") /\ ~(Cardinality(RowsOf(v)) >= MaxConfigs)
  <2> SUFFICES ASSUME NEW u \in Users
               PROVE  /\ IsFiniteSet(RowsOf(u)')
                      /\ Cardinality(RowsOf(u)') + Cardinality(Inserting(u)')
                            <= MaxConfigs + Cardinality(Reqs) - 1
    BY DEF LimitInv
  <2>1. RowsOf(u)' = RowsOf(u) /\ IsFiniteSet(RowsOf(u)) /\ Cardinality(RowsOf(u)) \in Nat
    BY FS_CardinalityType DEF CheckLimit, RowsOf, LimitInv
  <2>2. \A q \in Reqs : /\ req'[q].pc = IF q = p THEN "insert" ELSE req[q].pc
                        /\ req'[q].user = req[q].user
    BY <1>2 DEF At, TypeInv, TypeOK, Request
  <2>3. CASE u # v
    <3>1. Inserting(u)' = Inserting(u)
      BY <2>2, <2>3 DEF Inserting, CheckLimit
    <3> QED BY <2>1, <3>1 DEF LimitInv
  <2>4. CASE u = v
    <3>1. Inserting(u)' = Inserting(u) \cup {p} /\ p \notin Inserting(u)
      BY <2>2, <2>4 DEF Inserting, CheckLimit
    <3>2. Inserting(u)' \subseteq Reqs
      BY DEF Inserting
    <3>3. Cardinality(Inserting(u)') <= Cardinality(Reqs)
          /\ Cardinality(Inserting(u)') \in Nat /\ Cardinality(Reqs) \in Nat
      BY <3>2, FS_Subset, FS_CardinalityType, SlotsAssumption
    <3>4. Cardinality(RowsOf(u)) <= MaxConfigs - 1
      BY <1>2, <2>1, <2>4, BoundsAssumption
    <3> QED BY <2>1, <3>3, <3>4, BoundsAssumption
  <2> QED BY <2>3, <2>4
<1> QED BY <1>1, <1>2 DEF CheckLimit

\* The insert: a row more, a request about to insert less.
LEMMA LimitInserted ==
    ASSUME TypeInv, LimitInv, NEW p \in Reqs, InsertRow(p)
    PROVE  LimitInv'
<1> DEFINE v == req[p].user
           row == [id |-> nextId, user |-> v, name |-> req[p].name]
<1>1. CASE req' = Done(p) /\ UNCHANGED <<rows, nextId>>
  <2>1. \A q \in Reqs : req'[q].pc = "insert" => req'[q] = req[q]
    BY <1>1 DEF Done, IdleRequest, TypeInv, TypeOK
  <2> QED BY <1>1, <2>1, LimitKept
<1>2. CASE /\ rows' = rows \cup {row}
           /\ req' = [req EXCEPT ![p].pc = "createCall", ![p].id = nextId]
  <2> SUFFICES ASSUME NEW u \in Users
               PROVE  /\ IsFiniteSet(RowsOf(u)')
                      /\ Cardinality(RowsOf(u)') + Cardinality(Inserting(u)')
                            <= MaxConfigs + Cardinality(Reqs) - 1
    BY DEF LimitInv
  <2>1. IsFiniteSet(RowsOf(u)) /\ Cardinality(RowsOf(u)) \in Nat
    BY FS_CardinalityType DEF LimitInv
  <2>2. \A q \in Reqs : /\ req'[q].pc = IF q = p THEN "createCall" ELSE req[q].pc
                        /\ req'[q].user = req[q].user
    BY <1>2 DEF TypeInv, TypeOK, Request
  <2>3. CASE u # v
    <3>1. Inserting(u)' = Inserting(u)
      BY <2>2, <2>3 DEF Inserting, InsertRow
    <3>2. row.user # u
      BY <2>3
    <3>3. RowsOf(u)' = RowsOf(u)
      BY <1>2, <3>2 DEF RowsOf
    <3> QED BY <2>1, <3>1, <3>3 DEF LimitInv
  <2>4. CASE u = v
    <3>1. Inserting(u)' = Inserting(u) \ {p} /\ p \in Inserting(u)
      BY <2>2, <2>4 DEF Inserting, InsertRow
    <3> HIDE DEF row
    <3>2. RowsOf(u)' = RowsOf(u) \cup {row}
      <4>1. row.user = u
        BY <2>4 DEF row
      <4> QED BY <1>2, <4>1 DEF RowsOf
    <3>3. row \notin RowsOf(u)
      <4>1. row.id = nextId
        BY DEF row
      <4> QED BY <4>1 DEF RowsOf, TypeInv, TypeOK, RowsAreKeyed
    <3>4. /\ IsFiniteSet(RowsOf(u)')
          /\ Cardinality(RowsOf(u)') = Cardinality(RowsOf(u)) + 1
      BY <2>1, <3>2, <3>3, FS_AddElement
    <3>5. /\ Cardinality(Inserting(u)') = Cardinality(Inserting(u)) - 1
          /\ Cardinality(Inserting(u)) \in Nat
      BY <3>1, FS_RemoveElement, InsertingFinite
    <3>6. Cardinality(RowsOf(u)) + Cardinality(Inserting(u)) <= MaxConfigs + Cardinality(Reqs) - 1
      BY DEF LimitInv
    <3> QED BY <2>1, <3>4, <3>5, <3>6, InsertingFinite, BoundsAssumption
  <2> QED BY <2>3, <2>4
<1> QED BY <1>1, <1>2 DEF InsertRow

LEMMA LimitInit == Init => LimitInv
<1> SUFFICES ASSUME Init, NEW u \in Users
             PROVE  /\ IsFiniteSet(RowsOf(u))
                    /\ Cardinality(RowsOf(u)) + Cardinality(Inserting(u))
                          <= MaxConfigs + Cardinality(Reqs) - 1
  BY DEF LimitInv
<1>1. RowsOf(u) = {} /\ Inserting(u) = {}
  BY DEF Init, RowsOf, Inserting, IdleRequest
<1>2. Cardinality(Reqs) \in Nat /\ Cardinality(Reqs) # 0
  BY SlotsAssumption, FS_CardinalityType, FS_EmptySet
<1> QED BY <1>1, <1>2, FS_EmptySet, BoundsAssumption

LEMMA LimitNext == TypeInv /\ LimitInv /\ [Next]_vars => LimitInv'
<1> SUFFICES ASSUME TypeInv, LimitInv, [Next]_vars PROVE LimitInv'
  OBVIOUS
<1> DEFINE NoneComesToInsert ==
             \A p \in Reqs : req'[p].pc = "insert" =>
                req[p].pc = "insert" /\ req'[p].user = req[p].user
<1>1. ASSUME NEW p \in Reqs, NEW r, req' = [req EXCEPT ![p] = r], r.pc # "insert"
      PROVE  NoneComesToInsert
  BY <1>1 DEF TypeInv, TypeOK
<1>2. ASSUME NEW p \in Reqs, NEW pc, pc # "insert", req' = At(p, pc)
      PROVE  NoneComesToInsert
  BY <1>2 DEF At, TypeInv, TypeOK, Request
<1>3. ASSUME NEW p \in Reqs, Starts(p)
      PROVE  LimitInv'
  <2>1. rows' = rows
    BY <1>3 DEF Starts, CreateConfig, DeleteConfig, DeleteUser, PatchUser
  <2>2. CASE \E u \in Users, n \in ConfigNames : CreateConfig(p, u, n)
    BY <1>1, <2>1, <2>2, LimitKept DEF CreateConfig, Begin, IdleRequest
  <2>3. CASE \E r \in rows : DeleteConfig(p, r)
    BY <1>1, <2>1, <2>3, LimitKept DEF DeleteConfig, Begin, IdleRequest
  <2>4. CASE \E u \in Users : DeleteUser(p, u)
    BY <1>1, <2>1, <2>4, LimitKept DEF DeleteUser, Begin, IdleRequest
  <2>5. CASE \E u \in Users : PatchUser(p, u)
    BY <1>1, <2>1, <2>5, LimitKept DEF PatchUser, Begin, IdleRequest
  <2> QED BY <1>3, <2>2, <2>3, <2>4, <2>5 DEF Starts
<1>4. ASSUME NEW p \in Reqs, Continues(p)
      PROVE  LimitInv'
  <2>1. CASE CheckLimit(p)
    BY <2>1, LimitChecked
  <2>2. CASE InsertRow(p)
    BY <2>2, LimitInserted
  <2>3. ASSUME req' = Done(p)
        PROVE  NoneComesToInsert
    BY <1>1, <2>3 DEF Done, IdleRequest
  <2>4. CASE CreateAnswered(p) \/ DeleteAnswered(p) \/ DeleteAllAnswered(p) \/ UnfreezeAnswered(p)
    <3>1. NoneComesToInsert
      BY <1>2, <2>3, <2>4 DEF CreateAnswered, DeleteAnswered, DeleteAllAnswered, UnfreezeAnswered
    <3>2. rows' = rows
      BY <2>4 DEF CreateAnswered, DeleteAnswered, DeleteAllAnswered, UnfreezeAnswered
    <3> QED BY <3>1, <3>2, LimitKept
  <2>5. CASE RollBack(p) \/ DeleteRow(p) \/ DeleteUserRow(p) \/ ClearFlag(p)
    <3>1. rows' \subseteq rows /\ req' = Done(p)
      BY <2>5 DEF RollBack, DeleteRow, DeleteUserRow, ClearFlag, WithoutRow
    <3> QED BY <2>3, <3>1, LimitKept
  <2>6. CASE ListAll(p) \/ ListFrozen(p)
    <3>1. NoneComesToInsert
      BY <2>6 DEF ListAll, ListFrozen, TypeInv, TypeOK, Request
    <3>2. rows' = rows
      BY <2>6 DEF ListAll, ListFrozen
    <3> QED BY <3>1, <3>2, LimitKept
  <2>7. CASE SetExpiry(p)
    <3>1. rows' = rows /\ NoneComesToInsert
      BY <1>2, <2>3, <2>7 DEF SetExpiry
    <3> QED BY <3>1, LimitKept
  <2> QED BY <1>4, <2>1, <2>2, <2>4, <2>5, <2>6, <2>7 DEF Continues
<1>5. CASE CleanupStep \/ UNCHANGED vars \/ (\E u \in Users : Expire(u))
           \/ (\E o \in orphans : OrphanRuns(o)) \/ SkipUser
  <2>1. rows' = rows /\ req' = req
    BY <1>5 DEF CleanupStep, StartCleanup, ListPeers, FreezeAnswered, SetFlag, vars, Expire,
                OrphanRuns, SkipUser
  <2> QED BY <2>1, LimitKept
<1>6. ASSUME NEW p \in Reqs, Abandon(p)
      PROVE  LimitInv'
  <2>1. rows' = rows /\ NoneComesToInsert
    BY <1>1, <1>6 DEF Abandon, Done, IdleRequest
  <2> QED BY <2>1, LimitKept
<1>7. CASE Crash
  <2>1. rows' = rows /\ NoneComesToInsert
    BY <1>7 DEF Crash, IdleRequest
  <2> QED BY <2>1, LimitKept
<1> QED BY <1>3, <1>4, <1>5, <1>6, <1>7 DEF Next, Environment

\* However many requests race, a user's configs exceed MAX_CONFIGS by less than
\* the number of requests served at once.
THEOREM LimitHolds == Spec => []LimitSlack
<1>1. Spec => [](TypeInv /\ LimitInv)
  BY TypeInit, TypeNext, LimitInit, LimitNext, PTL DEF Spec
<1>2. LimitInv => LimitSlack
  <2> SUFFICES ASSUME LimitInv, NEW u \in Users
               PROVE  Cardinality(RowsOf(u)) <= MaxConfigs + Cardinality(Reqs) - 1
    BY DEF LimitSlack
  <2>1. Cardinality(RowsOf(u)) \in Nat
    BY FS_CardinalityType DEF LimitInv
  <2> QED BY <2>1, InsertingFinite, BoundsAssumption DEF LimitInv
<1> QED BY <1>1, <1>2, PTL

----------------------------------------------------------------------------
(* A deleted config stays gone *)

\* The peer a request works on.
NameOf(p) == PeerName(req[p].user, req[p].id)

Creating(p) == req[p].pc = "createCall"
OrphanCreates(o) == o.call.op = "create"

\* A call that will create n is on its way to the worker.
ToCreate(n) == \/ \E p \in Reqs : Creating(p) /\ NameOf(p) = n
               \/ \E o \in orphans : OrphanCreates(o) /\ n \in o.call.peers

\* A peer is asked for by one call at most: the row's id is never used again.
Once ==
    /\ \A p, q \in Reqs : Creating(p) /\ Creating(q) /\ NameOf(p) = NameOf(q) => p = q
    /\ \A p \in Reqs, o \in orphans : Creating(p) /\ OrphanCreates(o) => NameOf(p) \notin o.call.peers
    /\ \A o1, o2 \in orphans, n \in PeerNames :
          OrphanCreates(o1) /\ OrphanCreates(o2) /\ n \in o1.call.peers /\ n \in o2.call.peers
             => o1 = o2

\* Whatever is known of a peer, its row was inserted before.
Fresh ==
    /\ \A p \in Reqs : req[p].pc \in {"deleteCall", "deleteRow"} => req[p].id < nextId
    /\ \A n \in PeerNames :
          ToCreate(n) \/ n \in store.json \/ fate[n] # "unknown" => n[2] < nextId

\* Nothing is left of a deleted peer, nor of one whose row is about to go after
\* the worker deleted it; a peer still to be created is neither.
Gone ==
    /\ \A n \in PeerNames : ToCreate(n) => n \notin store.json /\ fate[n] # "deleted"
    /\ \A n \in PeerNames : fate[n] = "deleted" => ~HasRow(n[1], n[2]) /\ ~OnWorker(n)
    /\ \A p \in Reqs : req[p].pc = "deleteRow" => ~OnWorker(NameOf(p)) /\ ~ToCreate(NameOf(p))

GoneInv == Once /\ Fresh /\ Gone

LEMMA GoneInit == Init => GoneInv
BY DEF Init, GoneInv, Once, Fresh, Gone, Creating, ToCreate, IdleRequest, EmptyStore

\* A peer's name and its row.
LEMMA Named ==
    ASSUME TypeInv, NEW p \in Reqs,
           req[p].pc \in {"createCall", "rollback", "deleteCall", "deleteRow"}
    PROVE  NameOf(p) \in PeerNames /\ NameOf(p)[1] = req[p].user /\ NameOf(p)[2] = req[p].id
BY DEF TypeInv, LocalsOK, NameOf, PeerName, PeerNames

\* A step that sends no create: those under way stay with their request, are left
\* behind by it, or end.
CreatesMove ==
    /\ \A p \in Reqs : req'[p].pc = "createCall" =>
          req[p].pc = "createCall" /\ req'[p].user = req[p].user /\ req'[p].id = req[p].id
    /\ \A o \in orphans' : OrphanCreates(o) =>
          \/ o \in orphans
          \/ \E p \in Reqs : Creating(p) /\ req'[p].pc # "createCall" /\ o = Orphan(CallOf(req[p]), p)

LEMMA OnceKept ==
    ASSUME TypeInv, Once, CreatesMove
    PROVE  Once' /\ \A n : ToCreate(n)' => ToCreate(n)
<1>1. \A p \in Reqs : Creating(p)' => Creating(p) /\ NameOf(p)' = NameOf(p)
  BY DEF CreatesMove, Creating, NameOf
<1>2. \A p \in Reqs : Creating(p) =>
         Orphan(CallOf(req[p]), p).call.peers = {NameOf(p)} /\ NameOf(p) \in PeerNames
  BY Named DEF Orphan, CallOf, Call, Creating, NameOf
<1>3. \A o \in orphans' : OrphanCreates(o) =>
         \/ o \in orphans
         \/ \E p \in Reqs : /\ Creating(p) /\ ~Creating(p)' /\ o.call.peers = {NameOf(p)}
                            /\ o = Orphan(CallOf(req[p]), p)
  BY <1>2 DEF CreatesMove, Creating
<1>4. \A n : ToCreate(n)' => ToCreate(n)
  BY <1>1, <1>3 DEF ToCreate
<1>5. \A p, q \in Reqs : Creating(p)' /\ Creating(q)' /\ NameOf(p)' = NameOf(q)' => p = q
  BY <1>1 DEF Once
<1>6. \A p \in Reqs, o \in orphans' : Creating(p)' /\ OrphanCreates(o) => NameOf(p)' \notin o.call.peers
  BY <1>1, <1>3 DEF Once
<1>7. \A o1, o2 \in orphans', n \in PeerNames :
         OrphanCreates(o1) /\ OrphanCreates(o2) /\ n \in o1.call.peers /\ n \in o2.call.peers
            => o1 = o2
  BY <1>3 DEF Once
<1> QED BY <1>4, <1>5, <1>6, <1>7 DEF Once, OrphanCreates

\* The worker gains a peer only by executing the call that creates it.
WorkerGrows ==
    \A n \in PeerNames :
        ~(ToCreate(n) /\ ~ToCreate(n)') =>
            /\ n \in store'.json => n \in store.json
            /\ store'.conf[n] # "absent" => store.conf[n] # "absent"

\* What makes a step keep GoneInv when it inserts no row.
LEMMA GoneKept ==
    ASSUME TypeInv, TypeInv', GoneInv, CreatesMove, WorkerGrows, nextId' = nextId,
           rows' \subseteq rows,
           \A p \in Reqs : req'[p].pc = "deleteCall" => req'[p].id < nextId,
           \A p \in Reqs : req'[p].pc = "deleteRow" =>
              \/ req'[p] = req[p]
              \/ ~OnWorker(NameOf(p))' /\ ~ToCreate(NameOf(p))' /\ req'[p].id < nextId,
           \A n \in PeerNames : fate'[n] # "unknown" => n[2] < nextId,
           \A n \in PeerNames : fate'[n] = "deleted" =>
              fate[n] = "deleted" \/ (~HasRow(n[1], n[2])' /\ ~OnWorker(n)' /\ ~ToCreate(n)')
    PROVE  GoneInv'
<1>1. Once' /\ \A n : ToCreate(n)' => ToCreate(n)
  BY OnceKept DEF GoneInv
<1>2. \A n \in PeerNames : OnWorker(n)' /\ ~ToCreate(n) => OnWorker(n)
  BY DEF WorkerGrows, OnWorker
<1>3. \A n \in PeerNames : HasRow(n[1], n[2])' => HasRow(n[1], n[2])
  BY DEF HasRow
<1>4. Fresh'
  <2>1. \A p \in Reqs : req'[p].pc \in {"deleteCall", "deleteRow"} => req'[p].id < nextId
    BY DEF GoneInv, Fresh
  <2>2. ASSUME NEW n \in PeerNames, ToCreate(n)' \/ n \in store'.json \/ fate'[n] # "unknown"
        PROVE  n[2] < nextId
    BY <1>1, <2>2 DEF GoneInv, Fresh, WorkerGrows
  <2> QED BY <2>1, <2>2 DEF Fresh
<1>5. ASSUME NEW n \in PeerNames, ToCreate(n)'
      PROVE  n \notin store'.json /\ fate'[n] # "deleted"
  BY <1>1, <1>5 DEF GoneInv, Gone, WorkerGrows
<1>6. ASSUME NEW n \in PeerNames, fate'[n] = "deleted"
      PROVE  ~HasRow(n[1], n[2])' /\ ~OnWorker(n)'
  BY <1>2, <1>3, <1>6 DEF GoneInv, Gone
<1>7. ASSUME NEW p \in Reqs, req'[p].pc = "deleteRow"
      PROVE  ~OnWorker(NameOf(p))' /\ ~ToCreate(NameOf(p))'
  <2>1. CASE req'[p] = req[p]
    <3>1. NameOf(p)' = NameOf(p) /\ NameOf(p) \in PeerNames
      BY <1>7, <2>1, Named DEF NameOf
    <3>2. ~OnWorker(NameOf(p)) /\ ~ToCreate(NameOf(p))
      BY <1>7, <2>1 DEF GoneInv, Gone
    <3>3. (\A n \in PeerNames : n = NameOf(p) => ~OnWorker(n) /\ ~ToCreate(n))'
      BY <1>1, <1>2, <3>1, <3>2
    <3> QED BY <3>1, <3>3 DEF PeerNames, Ids
  <2>2. CASE req'[p] # req[p]
    BY <1>7, <2>2
  <2> QED BY <2>1, <2>2
<1> QED BY <1>1, <1>4, <1>5, <1>6, <1>7 DEF GoneInv, Gone

\* A step of slot p that makes no call, and asks for no row or peer to go.
LEMMA GoneQuiet ==
    ASSUME TypeInv, TypeInv', GoneInv, NEW p \in Reqs,
           UNCHANGED <<store, orphans, nextId>>, rows' \subseteq rows,
           \A q \in Reqs : q # p => req'[q] = req[q],
           req'[p].pc \notin {"createCall", "deleteRow"},
           req'[p].pc = "deleteCall" => req'[p].id < nextId,
           \A n \in PeerNames : fate'[n] # "unknown" => n[2] < nextId,
           \A n \in PeerNames : fate'[n] = "deleted" => fate[n] = "deleted"
    PROVE  GoneInv'
<1>1. CreatesMove
  BY DEF CreatesMove
<1>2. WorkerGrows
  BY DEF WorkerGrows
<1>3. \A q \in Reqs : req'[q].pc = "deleteCall" => req'[q].id < nextId
  BY DEF GoneInv, Fresh
<1>4. \A q \in Reqs : req'[q].pc = "deleteRow" => req'[q] = req[q]
  OBVIOUS
<1> QED BY <1>1, <1>2, <1>3, <1>4, GoneKept

LEMMA ExecutesEffect ==
    ASSUME TypeInv, NEW c \in Calls, NEW reply, Executes(c, reply)
    PROVE  \A n \in PeerNames : ~(c.op = "create" /\ n \in c.peers) =>
              /\ n \in store'.json => n \in store.json
              /\ store'.conf[n] # "absent" => store.conf[n] # "absent"
<1>1. CASE store' = Answer(store, c).store
  BY <1>1, AnswerEffect DEF TypeInv, TypeOK
<1>2. CASE \E a \in BadAnswers(store, c) : store' = a.store
  BY <1>2, BadAnswerEffect DEF TypeInv, TypeOK
<1> QED BY <1>1, <1>2 DEF Executes

LEMMA AnsweredEffect ==
    ASSUME TypeInv, NEW p, NEW c \in Calls, NEW reply, Answered(p, c, reply)
    PROVE  /\ \A n \in PeerNames : ~(c.op = "create" /\ n \in c.peers) =>
                 /\ n \in store'.json => n \in store.json
                 /\ store'.conf[n] # "absent" => store.conf[n] # "absent"
           /\ \/ orphans' = orphans
              \/ orphans' = orphans \cup {Orphan(c, p)} /\ reply = "error" /\ store' = store
BY ExecutesEffect DEF Answered

\* 200 from the worker: the peer was there, and is gone from both files.
LEMMA DeleteOk ==
    ASSUME TypeInv, NEW n \in PeerNames, NEW p, Answered(p, Call("delete", {n}), "ok")
    PROVE  /\ n \in store.json /\ n \notin store'.json /\ store'.conf[n] = "absent"
           /\ orphans' = orphans
<1> DEFINE c == Call("delete", {n})
<1>1. c \in Calls /\ c.op = "delete" /\ c.peers = {n}
  BY CallInCalls
<1>2. Executes(c, "ok") /\ orphans' = orphans
  BY DEF Answered
<1>3. Answer(store, c).reply = "ok" /\ store' = Answer(store, c).store
  BY <1>1, <1>2, BadAnswerEffect DEF Executes, TypeInv, TypeOK
<1>4. Answer(store, c) = DeleteResult(store, {n})
  BY <1>1 DEF Answer
<1> QED BY <1>2, <1>3, <1>4
       DEF DeleteResult, Result, WithoutPeers, WithoutBlocks, TypeInv, TypeOK, Store

LEMMA GoneStarts ==
    ASSUME TypeInv, TypeInv', GoneInv, NEW p \in Reqs, Starts(p)
    PROVE  GoneInv'
<1>1. CASE \E u \in Users, n \in ConfigNames : CreateConfig(p, u, n)
  BY <1>1, GoneQuiet DEF CreateConfig, Begin, IdleRequest, GoneInv, Fresh, TypeInv, TypeOK
<1>2. ASSUME NEW r \in rows, DeleteConfig(p, r)
      PROVE  GoneInv'
  <2>1. r.id < nextId /\ r.id \in Ids /\ r.user \in Users
    BY DEF TypeInv, TypeOK, RowsAreKeyed
  <2>2. /\ req'[p].pc = "deleteCall" /\ req'[p].id = r.id
        /\ \A q \in Reqs : q # p => req'[q] = req[q]
    BY <1>2 DEF DeleteConfig, Begin, IdleRequest, TypeInv, TypeOK
  <2>3. \A n \in PeerNames : /\ fate'[n] # "unknown" => n[2] < nextId
                             /\ fate'[n] = "deleted" => fate[n] = "deleted"
    BY <1>2, <2>1 DEF DeleteConfig, Deleting, PeerName, GoneInv, Fresh
  <2> QED BY <1>2, <2>1, <2>2, <2>3, GoneQuiet DEF DeleteConfig
<1>3. CASE \E u \in Users : DeleteUser(p, u)
  BY <1>3, GoneQuiet DEF DeleteUser, Begin, IdleRequest, GoneInv, Fresh, TypeInv, TypeOK
<1>4. CASE \E u \in Users : PatchUser(p, u)
  BY <1>4, GoneQuiet DEF PatchUser, Begin, IdleRequest, GoneInv, Fresh, TypeInv, TypeOK
<1> QED BY <1>1, <1>2, <1>3, <1>4 DEF Starts

\* A request that ends, or goes on to something harmless, touching nothing else.
LEMMA GoneElsewhere ==
    ASSUME TypeInv, TypeInv', GoneInv, NEW p \in Reqs,
           \/ CheckLimit(p) \/ RollBack(p) \/ ListAll(p) \/ ListFrozen(p) \/ SetExpiry(p)
           \/ ClearFlag(p) \/ DeleteUserRow(p)
    PROVE  GoneInv'
<1> DEFINE Moves == /\ \A q \in Reqs : q # p => req'[q] = req[q]
                    /\ req'[p].pc \notin {"createCall", "deleteRow", "deleteCall"}
<1>1. ASSUME req' = Done(p)
      PROVE  Moves
  BY <1>1 DEF Done, IdleRequest, TypeInv, TypeOK
<1>2. ASSUME NEW pc, pc \notin {"createCall", "deleteRow", "deleteCall"}, req' = At(p, pc)
      PROVE  Moves
  BY <1>2 DEF At, TypeInv, TypeOK, Request
<1>3. CASE CheckLimit(p) \/ SetExpiry(p)
  <2>1. Moves
    BY <1>1, <1>2, <1>3 DEF CheckLimit, SetExpiry
  <2> QED BY <1>3, <2>1, GoneQuiet DEF CheckLimit, SetExpiry, GoneInv, Fresh
<1>4. CASE RollBack(p) \/ ClearFlag(p) \/ DeleteUserRow(p)
  <2>1. Moves /\ rows' \subseteq rows /\ UNCHANGED <<store, orphans, nextId, fate>>
    BY <1>1, <1>4 DEF RollBack, ClearFlag, DeleteUserRow, WithoutRow
  <2> QED BY <2>1, GoneQuiet DEF GoneInv, Fresh
<1>5. CASE ListAll(p) \/ ListFrozen(p)
  <2>1. Moves /\ UNCHANGED <<rows, store, orphans, nextId>>
    BY <1>5 DEF ListAll, ListFrozen, TypeInv, TypeOK, Request
  <2>2. \A n \in PeerNames : /\ fate'[n] # "unknown" => n[2] < nextId
                             /\ fate'[n] = "deleted" => fate[n] = "deleted"
    BY <1>5 DEF ListAll, ListFrozen, Deleting, ListedNames, RowsOf, PeerName,
                GoneInv, Fresh, TypeInv, TypeOK, RowsAreKeyed
  <2> QED BY <2>1, <2>2, GoneQuiet
<1> QED BY <1>3, <1>4, <1>5

\* The row goes: with the worker's part gone before it, nothing is left.
LEMMA GoneDeleteRow ==
    ASSUME TypeInv, TypeInv', GoneInv, NEW p \in Reqs, DeleteRow(p)
    PROVE  GoneInv'
<1>1. /\ \A q \in Reqs : q # p => req'[q] = req[q]
      /\ req'[p].pc = "idle"
  BY DEF DeleteRow, Done, IdleRequest, TypeInv, TypeOK
<1>2. CreatesMove /\ WorkerGrows
  BY <1>1 DEF CreatesMove, WorkerGrows, DeleteRow
<1>3. /\ NameOf(p) \in PeerNames /\ NameOf(p)[1] = req[p].user /\ NameOf(p)[2] = req[p].id
      /\ req[p].id < nextId
      /\ ~OnWorker(NameOf(p)) /\ ~ToCreate(NameOf(p))
  BY Named DEF DeleteRow, GoneInv, Fresh, Gone
<1>4. \A n \in PeerNames : ToCreate(n)' => ToCreate(n)
  BY <1>2, OnceKept DEF GoneInv
<1>5. \A n \in PeerNames : OnWorker(n)' => OnWorker(n)
  BY DEF OnWorker, DeleteRow
<1>6. \A u, i : i = req[p].id => ~HasRow(u, i)'
  BY DEF HasRow, DeleteRow, WithoutRow
<1>7. ASSUME NEW n \in PeerNames, fate'[n] = "deleted", fate[n] # "deleted"
      PROVE  ~HasRow(n[1], n[2])' /\ ~OnWorker(n)' /\ ~ToCreate(n)'
  <2>1. n = NameOf(p)
    BY <1>7 DEF DeleteRow, NameOf, TypeInv, TypeOK
  <2>2. n[2] = req[p].id /\ ~OnWorker(n) /\ ~ToCreate(n)
    BY <1>3, <2>1
  <2> QED BY <1>4, <1>5, <1>6, <2>2
<1>8. \A n \in PeerNames : fate'[n] # "unknown" => n[2] < nextId
  BY <1>3 DEF DeleteRow, NameOf, GoneInv, Fresh, TypeInv, TypeOK
<1>9. nextId' = nextId /\ rows' \subseteq rows
  BY DEF DeleteRow, WithoutRow
<1>10. \A q \in Reqs : /\ req'[q].pc = "deleteCall" => req'[q].id < nextId
                       /\ req'[q].pc = "deleteRow" => req'[q] = req[q]
  BY <1>1 DEF GoneInv, Fresh
<1> QED BY <1>2, <1>7, <1>8, <1>9, <1>10, GoneKept

\* A row with a new id: nobody knows the peer named after it.
LEMMA GoneInsert ==
    ASSUME TypeInv, TypeInv', GoneInv, NEW p \in Reqs, InsertRow(p)
    PROVE  GoneInv'
<1> DEFINE u == req[p].user
           new == PeerName(u, nextId)
<1>1. CASE req' = Done(p) /\ UNCHANGED <<rows, nextId>>
  BY <1>1, GoneQuiet DEF InsertRow, Done, IdleRequest, GoneInv, Fresh, TypeInv, TypeOK
<1>2. CASE /\ rows' = rows \cup {[id |-> nextId, user |-> u, name |-> req[p].name]}
           /\ nextId' = nextId + 1
           /\ req' = [req EXCEPT ![p].pc = "createCall", ![p].id = nextId]
  <2>1. UNCHANGED <<store, orphans, fate>> /\ nextId \in Nat
    BY DEF InsertRow, TypeInv, TypeOK
  <2>2. /\ \A q \in Reqs : q # p => req'[q] = req[q] /\ (NameOf(q)' = NameOf(q))
        /\ req'[p].pc = "createCall" /\ NameOf(p)' = new
    BY <1>2 DEF NameOf, TypeInv, TypeOK, Request
  <2>3. new \in PeerNames /\ new[1] = u /\ new[2] = nextId
    <3>1. u \in Users /\ nextId \in Ids
      BY <1>2, <2>2 DEF InsertRow, TypeInv, TypeOK, LocalsOK, Request
    <3> QED BY <3>1 DEF PeerName, PeerNames
  <2>4. ~ToCreate(new) /\ new \notin store.json /\ fate[new] = "unknown"
    BY <2>1, <2>3 DEF GoneInv, Fresh
  <2>5. \A n \in PeerNames : ToCreate(n)' => ToCreate(n) \/ n = new
    BY <2>1, <2>2 DEF ToCreate, Creating
  <2>6. \A n \in PeerNames : n[2] \in Nat
    BY DEF PeerNames, Ids
  <2>7. Once'
    <3>1. \A q \in Reqs : q # p /\ Creating(q)' => Creating(q) /\ NameOf(q)' = NameOf(q) /\ NameOf(q) # new
      BY <2>2, <2>4 DEF Creating, ToCreate
    <3>2. \A o \in orphans : OrphanCreates(o) => new \notin o.call.peers
      BY <2>4 DEF ToCreate
    <3> QED BY <2>1, <2>2, <3>1, <3>2 DEF GoneInv, Once, OrphanCreates
  <2>8. Fresh'
    <3>1. \A q \in Reqs : req'[q].pc \in {"deleteCall", "deleteRow"} => req'[q].id < nextId
      BY <2>2 DEF GoneInv, Fresh
    <3>2. \A q \in Reqs : req'[q].pc \in {"deleteCall", "deleteRow"} => req'[q].id \in Nat
      BY DEF TypeInv, LocalsOK, Ids
    <3>3. \A n \in PeerNames : ToCreate(n)' \/ n \in store'.json \/ fate'[n] # "unknown"
                                  => n[2] < nextId \/ n = new
      BY <2>1, <2>5 DEF GoneInv, Fresh
    <3>4. \A q \in Reqs : req'[q].pc \in {"deleteCall", "deleteRow"} => req'[q].id < nextId'
      <4>1. \A i \in Nat : i < nextId => i < nextId'
        BY <1>2, <2>1
      <4> QED BY <3>1, <3>2, <4>1
    <3>5. ASSUME NEW n \in PeerNames, ToCreate(n)' \/ n \in store'.json \/ fate'[n] # "unknown"
          PROVE  n[2] < nextId'
      BY <1>2, <2>1, <2>3, <2>6, <3>3, <3>5
    <3> QED BY <3>4, <3>5 DEF Fresh
  <2>9. Gone'
    <3>1. ASSUME NEW n \in PeerNames, ToCreate(n)'
          PROVE  n \notin store'.json /\ fate'[n] # "deleted"
      BY <2>1, <2>4, <2>5, <3>1 DEF GoneInv, Gone
    <3>2. ASSUME NEW n \in PeerNames, fate'[n] = "deleted"
          PROVE  ~HasRow(n[1], n[2])' /\ ~OnWorker(n)'
      <4>1. n[2] < nextId /\ ~HasRow(n[1], n[2]) /\ ~OnWorker(n)
        BY <2>1, <3>2 DEF GoneInv, Fresh, Gone
      <4> QED BY <1>2, <2>1, <2>6, <4>1 DEF HasRow, OnWorker
    <3>3. ASSUME NEW q \in Reqs, req'[q].pc = "deleteRow"
          PROVE  ~OnWorker(NameOf(q))' /\ ~ToCreate(NameOf(q))'
      <4>1. q # p /\ req[q].pc = "deleteRow" /\ NameOf(q)' = NameOf(q)
        BY <2>2, <3>3
      <4>2. ~OnWorker(NameOf(q)) /\ ~ToCreate(NameOf(q)) /\ NameOf(q) \in PeerNames
            /\ NameOf(q)[2] < nextId
        BY <4>1, Named DEF GoneInv, Gone, Fresh
      <4>3. NameOf(q) # new
        BY <2>1, <2>3, <4>2
      <4>4. (\A n \in PeerNames : n = NameOf(q) => ~OnWorker(n) /\ ~ToCreate(n))'
        BY <2>1, <2>5, <4>1, <4>2, <4>3 DEF OnWorker, PeerNames, Ids
      <4> QED BY <4>1, <4>2, <4>4 DEF PeerNames, Ids
    <3> QED BY <3>1, <3>2, <3>3 DEF Gone
  <2> QED BY <2>7, <2>8, <2>9 DEF GoneInv
<1> QED BY <1>1, <1>2 DEF InsertRow

\* The call that creates the peer is over, executed or left behind.
LEMMA GoneCreateAnswered ==
    ASSUME TypeInv, TypeInv', GoneInv, NEW p \in Reqs, CreateAnswered(p)
    PROVE  GoneInv'
<1> DEFINE c == CallOf(req[p])
<1>1. PICK reply \in Reply :
         /\ Answered(p, c, reply)
         /\ req' = IF reply = "ok" THEN Done(p) ELSE At(p, "rollback")
         /\ fate' = IF reply = "ok" /\ fate[NameOf(p)] = "unknown"
                      THEN [fate EXCEPT ![NameOf(p)] = "acked"] ELSE fate
  BY DEF CreateAnswered, NameOf
<1>2. /\ c \in Calls /\ c.op = "create" /\ c.peers = {NameOf(p)}
      /\ NameOf(p) \in PeerNames /\ Creating(p) /\ UNCHANGED <<rows, nextId>>
  BY CallOfTyped, Named DEF CreateAnswered, CallOf, Call, CallPcs, Creating, NameOf
<1>3. /\ \A q \in Reqs : q # p => req'[q] = req[q]
      /\ req'[p].pc \in {"idle", "rollback"}
  BY <1>1 DEF Done, At, IdleRequest, TypeInv, TypeOK, Request
<1>4. CreatesMove
  BY <1>1, <1>2, <1>3, AnsweredEffect DEF CreatesMove, Creating
<1>5. WorkerGrows
  <2>1. CASE orphans' = orphans
    <3>1. ToCreate(NameOf(p))
      BY <1>2 DEF ToCreate
    <3>2. (\A n \in PeerNames : n = NameOf(p) => ~ToCreate(n)') \/ store' = store
      <4> SUFFICES ~(\E q \in Reqs : Creating(q)' /\ NameOf(q)' = NameOf(p))
                   /\ ~(\E o \in orphans : OrphanCreates(o) /\ NameOf(p) \in o.call.peers)
        BY <2>1 DEF ToCreate, OrphanCreates
      <4> QED BY <1>2, <1>3 DEF GoneInv, Once, Creating, NameOf
    <3>3. \A n \in PeerNames : n # NameOf(p) =>
             /\ n \in store'.json => n \in store.json
             /\ store'.conf[n] # "absent" => store.conf[n] # "absent"
      BY <1>1, <1>2, AnsweredEffect
    <3> QED BY <3>1, <3>2, <3>3 DEF WorkerGrows
  <2>2. CASE store' = store
    BY <2>2 DEF WorkerGrows
  <2> QED BY <1>1, <1>2, <2>1, <2>2, AnsweredEffect
<1>6. \A n \in PeerNames : /\ fate'[n] # "unknown" => n[2] < nextId
                           /\ fate'[n] = "deleted" => fate[n] = "deleted"
  <2>1. NameOf(p)[2] < nextId
    BY <1>2 DEF GoneInv, Fresh, ToCreate
  <2> QED BY <1>1, <2>1 DEF GoneInv, Fresh, TypeInv, TypeOK
<1>7. \A q \in Reqs : /\ req'[q].pc = "deleteCall" => req'[q].id < nextId
                      /\ req'[q].pc = "deleteRow" => req'[q] = req[q]
  BY <1>3 DEF GoneInv, Fresh
<1> QED BY <1>2, <1>4, <1>5, <1>6, <1>7, GoneKept

\* The worker has deleted the peer, or not.
LEMMA GoneDeleteAnswered ==
    ASSUME TypeInv, TypeInv', GoneInv, NEW p \in Reqs, DeleteAnswered(p)
    PROVE  GoneInv'
<1> DEFINE c == CallOf(req[p])
<1>1. PICK reply \in Reply :
         /\ Answered(p, c, reply)
         /\ req' = IF reply = "ok" THEN At(p, "deleteRow") ELSE Done(p)
  BY DEF DeleteAnswered
<1>2. /\ c \in Calls /\ c = Call("delete", {NameOf(p)}) /\ c.op = "delete"
      /\ NameOf(p) \in PeerNames /\ UNCHANGED <<rows, nextId, fate>>
      /\ req[p].id < nextId
  BY CallOfTyped, Named DEF DeleteAnswered, CallOf, Call, CallPcs, NameOf, GoneInv, Fresh
<1>3. /\ \A q \in Reqs : q # p => req'[q] = req[q]
      /\ req'[p].pc \in {"idle", "deleteRow"}
      /\ req'[p].pc = "deleteRow" => reply = "ok" /\ NameOf(p)' = NameOf(p) /\ req'[p].id = req[p].id
  BY <1>1, DoneReads, AtReads DEF NameOf
<1>4. CreatesMove
  <2>1. \A q \in Reqs : req'[q].pc = "createCall" => req'[q] = req[q]
    BY <1>3
  <2>2. \A o \in orphans' : OrphanCreates(o) => o \in orphans
    <3>1. \A o \in orphans' : o \in orphans \/ o = Orphan(c, p)
      BY <1>1, <1>2, AnsweredEffect
    <3>2. ~OrphanCreates(Orphan(c, p))
      BY <1>2 DEF OrphanCreates, Orphan
    <3> QED BY <3>1, <3>2
  <2> QED BY <2>1, <2>2 DEF CreatesMove
<1>5. WorkerGrows
  BY <1>1, <1>2, AnsweredEffect DEF WorkerGrows
<1>6. \A n : ToCreate(n)' => ToCreate(n)
  BY <1>4, OnceKept DEF GoneInv
<1>7. ASSUME req'[p].pc = "deleteRow"
      PROVE  ~OnWorker(NameOf(p))' /\ ~ToCreate(NameOf(p))' /\ req'[p].id < nextId
  <2>1. /\ NameOf(p) \in store.json /\ NameOf(p) \notin store'.json
        /\ store'.conf[NameOf(p)] = "absent"
    BY <1>1, <1>2, <1>3, <1>7, DeleteOk
  <2>2. ~ToCreate(NameOf(p))
    BY <1>2, <2>1 DEF GoneInv, Gone
  <2>3. (\A n \in PeerNames : n = NameOf(p) => ~OnWorker(n) /\ ~ToCreate(n))'
    BY <1>3, <1>6, <1>7, <2>1, <2>2 DEF OnWorker
  <2> QED BY <1>2, <1>3, <1>7, <2>3 DEF PeerNames, Ids
<1>8. \A q \in Reqs : q # p => /\ req'[q].pc = "deleteCall" => req'[q].id < nextId
                               /\ req'[q].pc = "deleteRow" => req'[q] = req[q]
  BY <1>3 DEF GoneInv, Fresh
<1> QED BY <1>2, <1>3, <1>4, <1>5, <1>7, <1>8, GoneKept DEF GoneInv, Fresh

\* The other answers: of deletions by owner, of unfreezing, of freezing.
LEMMA GoneOtherAnswer ==
    ASSUME TypeInv, TypeInv', GoneInv, NEW by, NEW c \in Calls, c.op # "create", NEW reply,
           Answered(by, c, reply), UNCHANGED <<rows, nextId, fate>>,
           \A q \in Reqs : req'[q] = req[q] \/ req'[q].pc \notin {"createCall", "deleteCall", "deleteRow"}
    PROVE  GoneInv'
<1>1. CreatesMove
  <2>1. orphans' = orphans \/ orphans' = orphans \cup {Orphan(c, by)}
    BY AnsweredEffect
  <2>2. ~OrphanCreates(Orphan(c, by))
    BY DEF OrphanCreates, Orphan
  <2> QED BY <2>1, <2>2 DEF CreatesMove
<1>2. WorkerGrows
  BY AnsweredEffect DEF WorkerGrows
<1>3. \A q \in Reqs : /\ req'[q].pc = "deleteCall" => req'[q].id < nextId
                      /\ req'[q].pc = "deleteRow" => req'[q] = req[q]
  BY DEF GoneInv, Fresh
<1> QED BY <1>1, <1>2, <1>3, GoneKept DEF GoneInv, Fresh

\* A call nobody waits for any more is executed.
LEMMA GoneOrphanRuns ==
    ASSUME TypeInv, TypeInv', GoneInv, NEW o \in orphans, OrphanRuns(o)
    PROVE  GoneInv'
<1>1. o.call \in Calls
  BY DEF TypeInv, TypeOK, Orphans
<1>2. /\ orphans' = orphans \ {o}
      /\ UNCHANGED <<rows, nextId, req, fate>>
      /\ \E reply \in Reply : Executes(o.call, reply)
  BY DEF OrphanRuns
<1>3. CreatesMove
  BY <1>2 DEF CreatesMove
<1>4. WorkerGrows
  <2>1. ASSUME NEW n \in PeerNames, OrphanCreates(o), n \in o.call.peers
        PROVE  ToCreate(n) /\ ~ToCreate(n)'
    <3>1. ToCreate(n)
      BY <2>1 DEF ToCreate
    <3>2. ~(\E q \in Reqs : Creating(q) /\ NameOf(q) = n)
      BY <2>1 DEF GoneInv, Once
    <3>3. ~(\E x \in orphans' : OrphanCreates(x) /\ n \in x.call.peers)
      BY <1>2, <2>1 DEF GoneInv, Once
    <3> QED BY <1>2, <3>1, <3>2, <3>3 DEF ToCreate, Creating, NameOf, OrphanCreates
  <2> QED BY <1>1, <1>2, <2>1, ExecutesEffect DEF WorkerGrows, OrphanCreates
<1> QED BY <1>2, <1>3, <1>4, GoneKept DEF GoneInv, Fresh

\* A request that goes away, alone or with the backend, leaves its call behind.
LEMMA GoneLeaves ==
    ASSUME TypeInv, TypeInv', GoneInv,
           UNCHANGED <<store, rows, nextId, fate>>,
           \A q \in Reqs : req'[q] = req[q] \/ req'[q].pc = "idle",
           \A o \in orphans' : OrphanCreates(o) =>
              o \in orphans \/ \E q \in Reqs : req'[q].pc = "idle" /\ o \in Leaves(q)
    PROVE  GoneInv'
<1>1. CreatesMove
  <2>1. ASSUME NEW o \in orphans', OrphanCreates(o), NEW q \in Reqs, o \in Leaves(q)
        PROVE  Creating(q) /\ o = Orphan(CallOf(req[q]), q)
    BY <2>1 DEF Leaves, OrphanCreates, Orphan, CallOf, Call, CallPcs, Creating
  <2> QED BY <2>1 DEF CreatesMove, Creating
<1>2. WorkerGrows
  BY DEF WorkerGrows
<1> QED BY <1>1, <1>2, GoneKept DEF GoneInv, Fresh

\* A step that moves no request and touches neither table, worker nor call.
LEMMA GoneUntouched ==
    ASSUME TypeInv, TypeInv', GoneInv, UNCHANGED <<rows, nextId, store, req, orphans, fate>>
    PROVE  GoneInv'
<1>1. CreatesMove /\ WorkerGrows
  BY DEF CreatesMove, WorkerGrows
<1> QED BY <1>1, GoneKept DEF GoneInv, Fresh

\* The cleanup creates nothing and deletes nothing.
LEMMA GoneCleanup ==
    ASSUME TypeInv, TypeInv', GoneInv, CleanupStep
    PROVE  GoneInv'
<1>1. CASE FreezeAnswered
  <2>1. Call("freeze", svc.peers) \in Calls /\ Call("freeze", svc.peers).op = "freeze"
    BY CallInCalls DEF TypeInv, TypeOK, Cleanup
  <2>2. PICK reply \in Reply : Answered("service", Call("freeze", svc.peers), reply)
    BY <1>1 DEF FreezeAnswered
  <2> QED BY <1>1, <2>1, <2>2, GoneOtherAnswer DEF FreezeAnswered
<1>2. CASE StartCleanup \/ ListPeers \/ SetFlag
  BY <1>2, GoneUntouched DEF StartCleanup, ListPeers, SetFlag
<1> QED BY <1>1, <1>2 DEF CleanupStep

LEMMA GoneContinues ==
    ASSUME TypeInv, TypeInv', GoneInv, NEW p \in Reqs, Continues(p)
    PROVE  GoneInv'
<1>1. CASE DeleteAllAnswered(p) \/ UnfreezeAnswered(p)
  <2>1. CallOf(req[p]) \in Calls /\ CallOf(req[p]).op # "create"
    BY <1>1, CallOfTyped DEF DeleteAllAnswered, UnfreezeAnswered, CallPcs, CallOf, Call
  <2>2. \E reply \in Reply : Answered(p, CallOf(req[p]), reply)
    BY <1>1 DEF DeleteAllAnswered, UnfreezeAnswered
  <2>3. \A q \in Reqs :
           req'[q] = req[q] \/ req'[q].pc \notin {"createCall", "deleteCall", "deleteRow"}
    BY <1>1 DEF DeleteAllAnswered, UnfreezeAnswered, Done, At, IdleRequest, TypeInv, TypeOK, Request
  <2>4. UNCHANGED <<rows, nextId, fate>>
    BY <1>1 DEF DeleteAllAnswered, UnfreezeAnswered
  <2> QED BY <2>1, <2>2, <2>3, <2>4, GoneOtherAnswer
<1> QED BY <1>1, GoneElsewhere, GoneDeleteRow, GoneInsert, GoneCreateAnswered, GoneDeleteAnswered
        DEF Continues

LEMMA GoneNext == TypeInv /\ TypeInv' /\ GoneInv /\ [Next]_vars => GoneInv'
<1> SUFFICES ASSUME TypeInv, TypeInv', GoneInv, [Next]_vars PROVE GoneInv'
  OBVIOUS
<1>1. CASE \E p \in Reqs : Starts(p) \/ Continues(p)
  BY <1>1, GoneStarts, GoneContinues
<1>2. CASE CleanupStep
  BY <1>2, GoneCleanup
<1>3. CASE \E u \in Users : Expire(u)
  BY <1>3, GoneUntouched DEF Expire
<1>4. CASE \E o \in orphans : OrphanRuns(o)
  BY <1>4, GoneOrphanRuns
<1>5. ASSUME NEW p \in Reqs, Abandon(p)
      PROVE  GoneInv'
  <2>1. /\ req'[p].pc = "idle"
        /\ \A q \in Reqs : q # p => req'[q] = req[q]
    BY <1>5 DEF Abandon, Done, IdleRequest, TypeInv, TypeOK
  <2>2. orphans' \subseteq orphans \cup Leaves(p)
    BY <1>5 DEF Abandon
  <2> QED BY <1>5, <2>1, <2>2, GoneLeaves DEF Abandon
<1>6. CASE Crash
  <2>1. \A q \in Reqs : req'[q].pc = "idle"
    BY <1>6 DEF Crash, IdleRequest
  <2>2. \A o \in CleanupLeaves : ~OrphanCreates(o)
    BY DEF CleanupLeaves, OrphanCreates, Orphan, Call
  <2>3. PICK part \in SUBSET LeftBehind : orphans' = orphans \cup part
    BY <1>6 DEF Crash
  <2>4. \A o \in orphans' : OrphanCreates(o) => o \in orphans \/ \E q \in Reqs : o \in Leaves(q)
    BY <2>2, <2>3 DEF LeftBehind
  <2>5. UNCHANGED <<store, rows, nextId, fate>>
    BY <1>6 DEF Crash
  <2> QED BY <2>1, <2>4, <2>5, GoneLeaves
<1>7. CASE SkipUser
  BY <1>7, GoneUntouched DEF SkipUser
<1>8. CASE UNCHANGED vars
  BY <1>8, GoneUntouched DEF vars
<1> QED BY <1>1, <1>2, <1>3, <1>4, <1>5, <1>6, <1>7, <1>8 DEF Next, Environment

\* A config whose deletion was answered with 200 is in no table and no file ever
\* after, whatever fails, crashes or arrives late.
THEOREM DeletedHolds == Spec => []DeletedStaysGone
<1>1. Spec => [](TypeInv /\ GoneInv)
  BY TypeInit, TypeNext, GoneInit, GoneNext, PTL DEF Spec
<1>2. GoneInv => DeletedStaysGone
  <2> SUFFICES ASSUME GoneInv, NEW u \in Users, NEW i \in Ids, fate[PeerName(u, i)] = "deleted"
               PROVE  ~HasRow(u, i) /\ ~OnWorker(PeerName(u, i))
    BY DEF DeletedStaysGone
  <2>1. PeerName(u, i) \in PeerNames /\ PeerName(u, i)[1] = u /\ PeerName(u, i)[2] = i
    BY DEF PeerName, PeerNames
  <2> QED BY <2>1 DEF GoneInv, Gone
<1> QED BY <1>1, <1>2, PTL
=============================================================================
