-------------------------------- MODULE Panel --------------------------------
(***************************************************************************)
(* The panel: the backend's request handlers that change configs           *)
(* (internal/handler/user.go, admin.go), its periodic service              *)
(* (internal/service), the users and peers tables they share, and the      *)
(* worker they drive over HTTP (WorkerApi).  A handler takes no lock and   *)
(* opens no transaction around its database accesses and worker calls, so  *)
(* each access is a step of its own and any two processes interleave       *)
(* between them.                                                           *)
(***************************************************************************)
EXTENDS Integers, FiniteSets

CONSTANTS
    Users,          \* ids of the rows of the users table
    Admins,         \* those whose role is "admin"
    ConfigNames,    \* names users give their configs
    Reqs,           \* slots for HTTP requests served at the same time
    MaxConfigs,     \* MAX_CONFIGS, rows a user may have
    MaxId,          \* bound: rows ever inserted into the peers table
    MaxFaults,      \* bound: failures of the environment in a behaviour
    MaxActive       \* bound: requests and cleanup passes in progress at once

ASSUME UsersAssumption == Users \subseteq Nat /\ IsFiniteSet(Users) /\ Admins \subseteq Users
ASSUME SlotsAssumption == IsFiniteSet(Reqs) /\ Reqs # {}
ASSUME BoundsAssumption == /\ MaxConfigs \in Nat \ {0}
                           /\ MaxId \in Nat
                           /\ MaxFaults \in Nat
                           /\ MaxActive \in Nat \ {0}

VARIABLES
    users,          \* the users table: when access ends, the frozen flag
    rows,           \* the peers table: id, owner and name of each config
    nextId,         \* the peers table's AUTOINCREMENT
    store,          \* awg0.conf and peers.json, on the worker
    req,            \* what the request in each slot is doing
    svc,            \* what the service's cleanup is doing
    orphans,        \* worker calls whose caller has gone, not executed yet
    faults,         \* failures so far
    fate            \* history: what the API has promised about each peer

vars == <<users, rows, nextId, store, req, svc, orphans, faults, fate>>

Ids == 1..MaxId

\* fmt.Sprintf("%d.%d", userID, id)
PeerName(u, i) == <<u, i>>
PeerNames == Users \X Ids

INSTANCE WorkerApi

----------------------------------------------------------------------------
(* State *)

\* expires_at: NULL, in the future, in the past; "gone" once the row is deleted.
Expiry == {"none", "live", "expired", "gone"}

NoUser == 0
NoName == "-"

\* Where a handler stands: the access it makes next, "idle" when no request
\* is in the slot.  The "...Call" values are waits for the worker's answer.
ReqPcs == {"idle",
           "limit", "insert", "createCall", "rollback",
           "deleteCall", "deleteRow",
           "listAll", "deleteAllCall", "deleteUserRow",
           "setExpiry", "listFrozen", "unfreezeCall", "clearFlag"}

Request == [pc : ReqPcs, user : Users \cup {NoUser}, name : ConfigNames \cup {NoName},
            id : Ids \cup {0}, peers : SUBSET PeerNames]

IdleRequest == [pc |-> "idle", user |-> NoUser, name |-> NoName, id |-> 0, peers |-> {}]

\* The cleanup loop: users its ListUsers snapshot says to freeze, the one it
\* is at being the first by id, and the peer names it listed for that user.
Cleanup == [pc : {"idle", "list", "freezeCall", "setFlag"}, todo : SUBSET Users,
            peers : SUBSET PeerNames]

IdleCleanup == [pc |-> "idle", todo |-> {}, peers |-> {}]

\* A call that outlived its caller; by and at tell equal ones apart.
Orphans == [call : Calls, by : Reqs \cup {"service"}, at : 1..MaxFaults]

\* The schema: the primary key, UNIQUE(user_id, name) and the foreign key.
RowsAreKeyed ==
    /\ \A r \in rows : r.id < nextId /\ users[r.user].exp # "gone"
    /\ \A r, t \in rows : r.id = t.id \/ (r.user = t.user /\ r.name = t.name) => r = t

TypeOK ==
    /\ users \in [Users -> [exp : Expiry, frozen : BOOLEAN]]
    /\ rows \subseteq [id : Ids, user : Users, name : ConfigNames]
    /\ nextId \in 1..MaxId+1
    /\ RowsAreKeyed
    /\ store \in Store
    /\ req \in [Reqs -> Request]
    /\ svc \in Cleanup
    /\ orphans \subseteq Orphans
    /\ faults \in 0..MaxFaults
    /\ fate \in [PeerNames -> {"unknown", "acked", "deleting", "deleted"}]

\* A database with its users and no configs yet; unlimited admins, paid-up users.
Init ==
    /\ users = [u \in Users |-> [exp |-> IF u \in Admins THEN "none" ELSE "live",
                                 frozen |-> FALSE]]
    /\ rows = {}
    /\ nextId = 1
    /\ store = EmptyStore
    /\ req = [p \in Reqs |-> IdleRequest]
    /\ svc = IdleCleanup
    /\ orphans = {}
    /\ faults = 0
    /\ fate = [n \in PeerNames |-> "unknown"]

----------------------------------------------------------------------------
(* The two tables *)

Exists(u) == users[u].exp # "gone"

RowsOf(u) == {r \in rows : r.user = u}

\* ListByUser, reduced to the peer names the handlers collect from it.
ListedNames(u) == {PeerName(u, r.id) : r \in RowsOf(u)}

WithoutRow(i) == {r \in rows : r.id # i}

----------------------------------------------------------------------------
(* Processes *)

Active(p) == req[p].pc # "idle"

ActiveCount == Cardinality({p \in Reqs : Active(p)}) + (IF svc.pc = "idle" THEN 0 ELSE 1)

Begin(p, r) == /\ ~Active(p)
               /\ ActiveCount < MaxActive
               /\ req' = [req EXCEPT ![p] = r]

\* req[p] as it will be once its next access is pc.
At(p, pc) == [req EXCEPT ![p].pc = pc]

\* The handler has written its response.
Done(p) == [req EXCEPT ![p] = IdleRequest]

\* The call a process waits on.
CallOf(r) ==
    CASE r.pc = "createCall"    -> Call("create", {PeerName(r.user, r.id)})
      [] r.pc = "deleteCall"    -> Call("delete", {PeerName(r.user, r.id)})
      [] r.pc = "deleteAllCall" -> Call("delete", r.peers)
      [] r.pc = "unfreezeCall"  -> Call("unfreeze", r.peers)

CallPcs == {"createCall", "deleteCall", "deleteAllCall", "unfreezeCall"}

FaultsLeft == faults < MaxFaults

CountFault == FaultsLeft /\ faults' = faults + 1

\* The worker executes call c and its reply reaches the caller.
Executes(c, reply) ==
    \/ /\ reply = Answer(store, c).reply
       /\ store' = Answer(store, c).store
       /\ UNCHANGED faults
    \/ CountFault /\ \E a \in BadAnswers(store, c) : reply = a.reply /\ store' = a.store

\* The caller sees an error while the worker still has the call: a timeout, or
\* a connection broken while the worker's handler waits for Server.mu.
Orphan(c, p) == [call |-> c, by |-> p, at |-> faults + 1]

\* What process p comes to learn of its call c.
Answered(p, c, reply) ==
    \/ Executes(c, reply) /\ UNCHANGED orphans
    \/ /\ reply = "error"
       /\ CountFault
       /\ orphans' = orphans \cup {Orphan(c, p)}
       /\ UNCHANGED store

\* Peers handed to the worker for deletion are nobody's to keep any more.
Deleting(ns) == [n \in PeerNames |-> IF n \in ns THEN "deleting" ELSE fate[n]]

----------------------------------------------------------------------------
(* POST /configs: createConfig *)

\* GetByID, then the expiry check.
CreateConfig(p, u, n) ==
    /\ users[u].exp \in {"none", "live"}
    /\ Begin(p, [IdleRequest EXCEPT !.pc = "limit", !.user = u, !.name = n])
    /\ UNCHANGED <<users, rows, nextId, store, svc, orphans, faults, fate>>

\* (A mutant: the limit is compared with > where the code has >=.)
CheckLimitLate(p) ==
    /\ req[p].pc = "limit"
    /\ req' = IF Cardinality(RowsOf(req[p].user)) > MaxConfigs THEN Done(p)
                                                               ELSE At(p, "insert")
    /\ UNCHANGED <<users, rows, nextId, store, svc, orphans, faults, fate>>

\* ListByUser, then the limit check.
CheckLimit(p) ==
    /\ req[p].pc = "limit"
    /\ req' = IF Cardinality(RowsOf(req[p].user)) >= MaxConfigs THEN Done(p)
                                                                ELSE At(p, "insert")
    /\ UNCHANGED <<users, rows, nextId, store, svc, orphans, faults, fate>>

\* PeerRepo.CreatePeer: one transaction that inserts the row and names the
\* peer after it.  UNIQUE(user_id, name) and the foreign key may refuse it; so
\* does the bound MaxId, as a database error would.
NameTakenNever(u, n) == FALSE       \* a mutant: the table without its UNIQUE
NameTaken(u, n) == \E r \in RowsOf(u) : r.name = n

InsertRow(p) ==
    LET u == req[p].user IN
    /\ req[p].pc = "insert"
    /\ IF NameTaken(u, req[p].name) \/ ~Exists(u) \/ nextId > MaxId
         THEN req' = Done(p) /\ UNCHANGED <<rows, nextId>>
         ELSE /\ rows' = rows \cup {[id |-> nextId, user |-> u, name |-> req[p].name]}
              /\ nextId' = nextId + 1
              /\ req' = [req EXCEPT ![p].pc = "createCall", ![p].id = nextId]
    /\ UNCHANGED <<users, store, svc, orphans, faults, fate>>

\* 201 ends the request; an error or any other status undoes the row.
CreateAnswered(p) ==
    LET n == PeerName(req[p].user, req[p].id) IN
    /\ req[p].pc = "createCall"
    /\ \E reply \in Reply :
        /\ Answered(p, CallOf(req[p]), reply)
        /\ req' = IF reply = "ok" THEN Done(p) ELSE At(p, "rollback")
        /\ fate' = IF reply = "ok" /\ fate[n] = "unknown"
                     THEN [fate EXCEPT ![n] = "acked"] ELSE fate
    /\ UNCHANGED <<users, rows, nextId, svc>>

\* (A mutant: the rollback deletes by owner, not by id.)
RollBackOwner(p) ==
    /\ req[p].pc = "rollback"
    /\ rows' = rows \ RowsOf(req[p].user)
    /\ req' = Done(p)
    /\ UNCHANGED <<users, nextId, store, svc, orphans, faults, fate>>

\* DeleteByID, its error discarded.
RollBack(p) ==
    /\ req[p].pc = "rollback"
    /\ rows' = WithoutRow(req[p].id)
    /\ req' = Done(p)
    /\ UNCHANGED <<users, nextId, store, svc, orphans, faults, fate>>

----------------------------------------------------------------------------
(* DELETE /configs/{name}: deleteConfig *)

\* GetByUserAndName, then the call to the worker.
DeleteConfig(p, r) ==
    /\ Begin(p, [IdleRequest EXCEPT !.pc = "deleteCall", !.user = r.user,
                                    !.name = r.name, !.id = r.id])
    /\ fate' = Deleting({PeerName(r.user, r.id)})
    /\ UNCHANGED <<users, rows, nextId, store, svc, orphans, faults>>

\* (A mutant: the worker's status is not looked at.)
DeleteAnsweredAny(p) ==
    /\ req[p].pc = "deleteCall"
    /\ \E reply \in Reply :
        /\ Answered(p, CallOf(req[p]), reply)
        /\ req' = IF reply # "error" THEN At(p, "deleteRow") ELSE Done(p)
    /\ UNCHANGED <<users, rows, nextId, svc, fate>>

DeleteAnswered(p) ==
    /\ req[p].pc = "deleteCall"
    /\ \E reply \in Reply :
        /\ Answered(p, CallOf(req[p]), reply)
        /\ req' = IF reply = "ok" THEN At(p, "deleteRow") ELSE Done(p)
    /\ UNCHANGED <<users, rows, nextId, svc, fate>>

\* DeleteByID; a row already gone is no error.  200.
DeleteRow(p) ==
    /\ req[p].pc = "deleteRow"
    /\ rows' = WithoutRow(req[p].id)
    /\ req' = Done(p)
    /\ fate' = [fate EXCEPT ![PeerName(req[p].user, req[p].id)] = "deleted"]
    /\ UNCHANGED <<users, nextId, store, svc, orphans, faults>>

----------------------------------------------------------------------------
(* DELETE /users/{id}: deleteUser *)

\* GetByID.
DeleteUser(p, u) ==
    /\ Exists(u)
    /\ Begin(p, [IdleRequest EXCEPT !.pc = "listAll", !.user = u])
    /\ UNCHANGED <<users, rows, nextId, store, svc, orphans, faults, fate>>

\* ListByUser; the worker is called only if there is something to delete.
ListAll(p) ==
    LET ns == ListedNames(req[p].user) IN
    /\ req[p].pc = "listAll"
    /\ req' = [req EXCEPT ![p].peers = ns,
                          ![p].pc = IF ns = {} THEN "deleteUserRow" ELSE "deleteAllCall"]
    /\ fate' = Deleting(ns)
    /\ UNCHANGED <<users, rows, nextId, store, svc, orphans, faults>>

DeleteAllAnswered(p) ==
    /\ req[p].pc = "deleteAllCall"
    /\ \E reply \in Reply :
        /\ Answered(p, CallOf(req[p]), reply)
        /\ req' = IF reply = "ok" THEN At(p, "deleteUserRow") ELSE Done(p)
    /\ UNCHANGED <<users, rows, nextId, svc, fate>>

\* UserRepo.DeleteUser; ON DELETE CASCADE takes the user's configs with it.
DeleteUserRow(p) ==
    LET u == req[p].user IN
    /\ req[p].pc = "deleteUserRow"
    /\ users' = [users EXCEPT ![u] = [exp |-> "gone", frozen |-> FALSE]]
    /\ rows' = rows \ RowsOf(u)
    /\ req' = Done(p)
    /\ UNCHANGED <<nextId, store, svc, orphans, faults, fate>>

----------------------------------------------------------------------------
(* PATCH /users/{id}: patchUser, a subscription paid for *)

\* GetByID.
PatchUser(p, u) ==
    /\ Exists(u)
    /\ Begin(p, [IdleRequest EXCEPT !.pc = "setExpiry", !.user = u])
    /\ UNCHANGED <<users, rows, nextId, store, svc, orphans, faults, fate>>

\* UpdateExpiry to a date in the future.
SetExpiry(p) ==
    LET u == req[p].user IN
    /\ req[p].pc = "setExpiry"
    /\ IF Exists(u)
         THEN /\ users' = [users EXCEPT ![u].exp = "live"]
              /\ req' = At(p, "listFrozen")
         ELSE req' = Done(p) /\ UNCHANGED users
    /\ UNCHANGED <<rows, nextId, store, svc, orphans, faults, fate>>

\* ListByUser.
ListFrozen(p) ==
    LET ns == ListedNames(req[p].user) IN
    /\ req[p].pc = "listFrozen"
    /\ req' = [req EXCEPT ![p].peers = ns,
                          ![p].pc = IF ns = {} THEN "clearFlag" ELSE "unfreezeCall"]
    /\ UNCHANGED <<users, rows, nextId, store, svc, orphans, faults, fate>>

UnfreezeAnswered(p) ==
    /\ req[p].pc = "unfreezeCall"
    /\ \E reply \in Reply :
        /\ Answered(p, CallOf(req[p]), reply)
        /\ req' = IF reply = "ok" THEN At(p, "clearFlag") ELSE Done(p)
    /\ UNCHANGED <<users, rows, nextId, svc, fate>>

\* SetFrozen: an UPDATE that matches no row is no error.
SetFrozen(u, flag) ==
    users' = IF Exists(u) THEN [users EXCEPT ![u].frozen = flag] ELSE users

ClearFlag(p) ==
    /\ req[p].pc = "clearFlag"
    /\ SetFrozen(req[p].user, FALSE)
    /\ req' = Done(p)
    /\ UNCHANGED <<rows, nextId, store, svc, orphans, faults, fate>>

----------------------------------------------------------------------------
(* Service.cleanup, run at start and every minute *)

\* (A mutant: admins are frozen like everybody.)
ToFreezeAdmins == {u \in Users : users[u].exp = "expired" /\ ~users[u].frozen}

\* Users whose subscription has run out, admins and users already frozen apart.
ToFreeze == {u \in Users \ Admins : users[u].exp = "expired" /\ ~users[u].frozen}

\* ListUsers.  A pass that finds nothing to freeze ends where it began.
StartCleanup ==
    /\ svc.pc = "idle"
    /\ ActiveCount < MaxActive
    /\ ToFreeze # {}
    /\ svc' = [pc |-> "list", todo |-> ToFreeze, peers |-> {}]
    /\ UNCHANGED <<users, rows, nextId, store, req, orphans, faults, fate>>

\* The snapshot is walked in order of id.
Current == CHOOSE u \in svc.todo : \A v \in svc.todo : u <= v

\* On to the next user of the snapshot, or to the end of the pass.
NextUser ==
    LET rest == svc.todo \ {Current} IN
    IF rest = {} THEN IdleCleanup ELSE [pc |-> "list", todo |-> rest, peers |-> {}]

\* (A mutant: a user with nothing to freeze is passed over, flag and all.)
ListPeersOrSkip ==
    LET ns == ListedNames(Current) IN
    /\ svc.pc = "list"
    /\ svc' = IF ns = {} THEN NextUser ELSE [svc EXCEPT !.peers = ns, !.pc = "freezeCall"]
    /\ UNCHANGED <<users, rows, nextId, store, req, orphans, faults, fate>>

\* ListByUser; the worker is called only if there is something to freeze.
ListPeers ==
    LET ns == ListedNames(Current) IN
    /\ svc.pc = "list"
    /\ svc' = [svc EXCEPT !.peers = ns, !.pc = IF ns = {} THEN "setFlag" ELSE "freezeCall"]
    /\ UNCHANGED <<users, rows, nextId, store, req, orphans, faults, fate>>

\* An error leaves the user to the next pass; the status is not looked at.
FreezeAnswered ==
    /\ svc.pc = "freezeCall"
    /\ \E reply \in Reply :
        /\ Answered("service", Call("freeze", svc.peers), reply)
        /\ svc' = IF reply = "error" THEN NextUser ELSE [svc EXCEPT !.pc = "setFlag"]
    /\ UNCHANGED <<users, rows, nextId, req, fate>>

SetFlag ==
    /\ svc.pc = "setFlag"
    /\ SetFrozen(Current, TRUE)
    /\ svc' = NextUser
    /\ UNCHANGED <<rows, nextId, store, req, orphans, faults, fate>>

----------------------------------------------------------------------------
(* The environment *)

\* The date in expires_at passes.
Expire(u) ==
    /\ users[u].exp = "live"
    /\ users' = [users EXCEPT ![u].exp = "expired"]
    /\ UNCHANGED <<rows, nextId, store, req, svc, orphans, faults, fate>>

\* An abandoned call reaches the worker after all and does what it does then.
OrphanRuns(o) ==
    /\ \E reply \in Reply : Executes(o.call, reply)
    /\ orphans' = orphans \ {o}
    /\ UNCHANGED <<users, rows, nextId, req, svc, fate>>

\* What a process that goes away leaves at the worker.
Leaves(p) == IF req[p].pc \in CallPcs THEN {Orphan(CallOf(req[p]), p)} ELSE {}

\* A handler ends with its work half done: its client is gone and the request
\* context with it, or the database refuses the next access.
Abandon(p) ==
    /\ Active(p)
    /\ CountFault
    /\ req' = Done(p)
    /\ orphans' \in {orphans, orphans \cup Leaves(p)}
    /\ UNCHANGED <<users, rows, nextId, store, svc, fate>>

CleanupLeaves ==
    IF svc.pc = "freezeCall" THEN {Orphan(Call("freeze", svc.peers), "service")} ELSE {}

LeftBehind == CleanupLeaves \cup UNION {Leaves(p) : p \in Reqs}

\* The database refuses the cleanup a listing or a flag: it is logged, and the pass
\* goes on with the next user.
SkipUser ==
    /\ svc.pc \in {"list", "setFlag"}
    /\ CountFault
    /\ svc' = NextUser
    /\ UNCHANGED <<users, rows, nextId, store, req, orphans, fate>>

\* The backend dies and is started again; the tables and the worker stay.
Crash ==
    /\ CountFault
    /\ req' = [p \in Reqs |-> IdleRequest]
    /\ svc' = IdleCleanup
    /\ \E part \in SUBSET LeftBehind : orphans' = orphans \cup part
    /\ UNCHANGED <<users, rows, nextId, store, fate>>

----------------------------------------------------------------------------
(* Specification *)

Starts(p) ==
    \/ \E u \in Users, n \in ConfigNames : CreateConfig(p, u, n)
    \/ \E r \in rows : DeleteConfig(p, r)
    \/ \E u \in Users : DeleteUser(p, u) \/ PatchUser(p, u)

Continues(p) ==
    \/ CheckLimit(p) \/ InsertRow(p) \/ CreateAnswered(p) \/ RollBack(p)
    \/ DeleteAnswered(p) \/ DeleteRow(p)
    \/ ListAll(p) \/ DeleteAllAnswered(p) \/ DeleteUserRow(p)
    \/ SetExpiry(p) \/ ListFrozen(p) \/ UnfreezeAnswered(p) \/ ClearFlag(p)

CleanupStep == StartCleanup \/ ListPeers \/ FreezeAnswered \/ SetFlag

Environment ==
    \/ \E u \in Users : Expire(u)
    \/ \E o \in orphans : OrphanRuns(o)
    \/ \E p \in Reqs : Abandon(p)
    \/ SkipUser
    \/ Crash

Next ==
    \/ \E p \in Reqs : Starts(p) \/ Continues(p)
    \/ CleanupStep
    \/ Environment

Spec == Init /\ [][Next]_vars

\* The Go scheduler runs every handler it has started, the ticker fires, the
\* worker answers: it holds Server.mu for one handler at a time.
Fairness == /\ \A p \in Reqs : WF_vars(Continues(p))
            /\ WF_vars(CleanupStep)

FairSpec == Spec /\ Fairness

----------------------------------------------------------------------------
(* Properties *)

\* user.go:189-200 counts the rows in one statement and inserts in another, so
\* requests that counted together overshoot MAX_CONFIGS; but by no more than
\* the requests there are beside the first.
LimitSlack ==
    \A u \in Users : Cardinality(RowsOf(u)) <= MaxConfigs + Cardinality(Reqs) - 1

HasRow(u, i) == \E r \in rows : r.user = u /\ r.id = i

OnWorker(n) == n \in store.json \/ store.conf[n] # "absent"

\* A config deleteConfig answered 200 for never comes back: not through a create
\* that is still on its way, a rollback, nor a call its caller gave up on.
DeletedStaysGone ==
    \A u \in Users, i \in Ids :
        fate[PeerName(u, i)] = "deleted" => ~HasRow(u, i) /\ ~OnWorker(PeerName(u, i))

\* A config createConfig answered 201 for, and that no deletion named, is kept: a
\* rollback, a crash or a call of somebody else does not take its row, its entry or
\* its block.  The exception is os.WriteFile, which truncates first: a write of
\* anybody that fails then takes what is in the one file it was to write, no more.
AckedKept ==
    \A u \in Users, i \in Ids :
        LET n == PeerName(u, i) IN
        fate[n] = "acked" => /\ "json" \in store.torn \/ n \in store.json
                             /\ "conf" \in store.torn \/ store.conf[n] # "absent"
                             /\ HasRow(u, i) \/ ~Exists(u)

\* Row r is in the hands of a request: on its way to the worker, or gone from
\* there and about to be deleted.
InFlight(r) ==
    \E p \in Reqs :
        \/ req[p].pc \in {"createCall", "deleteRow"} /\ req[p].id = r.id
        \/ req[p].pc = "deleteUserRow" /\ req[p].user = r.user

\* As long as nothing has failed the table and the worker agree whatever interleaves:
\* each row no request is busy with has its peer, and each peer its row or no owner left.
TablesAgree == faults = 0 =>
    /\ \A r \in rows : InFlight(r) \/ PeerName(r.user, r.id) \in store.json
    /\ \A u \in Users, i \in Ids :
          /\ PeerName(u, i) \in store.json <=> store.conf[PeerName(u, i)] # "absent"
          /\ PeerName(u, i) \in store.json => HasRow(u, i) \/ ~Exists(u)

AtRest == ActiveCount = 0 /\ orphans = {}

\* A user whose subscription ran out is marked frozen, or pays or leaves, in the
\* end: the cleanup comes back to those a failed call made it skip.
ExpiredIsFlagged ==
    \A u \in Users \ Admins :
        (users[u].exp = "expired" /\ ~users[u].frozen)
            ~> (users[u].frozen \/ users[u].exp # "expired")

----------------------------------------------------------------------------
(* What the comments and texts of the repository say, and races refute *)

\* userrepo.go:127, the flag means the user's configs are frozen.
FlagMeansFrozen ==
    AtRest => \A u \in Users, n \in PeerNames :
                 users[u].frozen /\ n[1] = u => store.conf[n] # "active"

\* userrepo.go:127, the flag means the subscription has run out.
FlagMeansExpired ==
    AtRest => \A u \in Users : users[u].frozen => users[u].exp = "expired"

\* AdminUser.jsx:22, a user is deleted with all configs.
DeletedWithConfigs ==
    AtRest => \A n \in PeerNames : ~Exists(n[1]) => store.conf[n] = "absent"
=============================================================================
