------------------------------ MODULE Accounts ------------------------------
(***************************************************************************)
(* Accounts and sessions: login and logout (internal/handler/auth.go), the *)
(* middleware that admits a request (middleware.go), the handlers that     *)
(* create and delete an account and change a password, and the users and   *)
(* sessions tables under them.  A request is admitted once, by its token's *)
(* signature, date and session row; each database access after that is a   *)
(* step of its own, and nothing looks at the session again.                *)
(***************************************************************************)
EXTENDS Integers, FiniteSets

CONSTANTS
    Names,          \* user names
    AdminName,      \* DefaultAdminUser, "admin"
    Reqs,           \* slots for requests served at the same time
    MaxId,          \* bound: accounts ever created
    MaxTokens,      \* bound: tokens ever issued
    MaxFaults       \* bound: failures of the database, the clients or the process

ASSUME NamesAssumption == AdminName \in Names
ASSUME BoundsAssumption == /\ MaxId \in Nat \ {0}
                           /\ MaxTokens \in Nat
                           /\ MaxFaults \in Nat

VARIABLES
    users,          \* the users table: id, username, role, password
    nextId,         \* the users table's AUTOINCREMENT
    sessions,       \* the sessions table: token_jti, user_id
    tokens,         \* what the server has signed: the claims, and where they are
    req,            \* what the request in each slot is doing
    faults,         \* failures so far
    loggedOut,      \* history: tokens whose logout did what it answered
    created,        \* history: accounts answered 201 that nobody asked to delete
    overtaken       \* history: an admin was deleted under its own createUser

vars == <<users, nextId, sessions, tokens, req, faults, loggedOut, created, overtaken>>

Ids == 1..MaxId
Tokens == 1..MaxTokens
Roles == {"user", "admin"}

----------------------------------------------------------------------------
(* State *)

\* A password is told by whose it is and which one: 0 is the one the account
\* came with, 1 one its user chose.  What password.Generate draws, nobody else has.
Password(i, n) == [of |-> i, n |-> n]

\* DefaultAdminPass, the one password several accounts may have, one after the other.
DefaultPass == Password(0, 0)

Passwords == [of : Ids \cup {0}, n : 0..1]

User == [id : Ids, name : Names, role : Roles, pass : Passwords]

\* The claims of a token, taken from the row at login.
Claims == [user : Ids \cup {0}, name : Names, role : Roles]
NoClaims == [user |-> 0, name |-> AdminName, role |-> "user"]
ClaimsOf(u) == [user |-> u.id, name |-> u.name, role |-> u.role]

\* "lost": signed in a login that was never answered; "held": its client has it.
Token == [claims : Claims, state : {"none", "lost", "held", "expired"}]

\* The access a handler makes next.
ReqPcs == {"idle", "session", "verify", "update", "check", "insert", "find", "deleteRow"}

\* token is 0 in a login, whose claims are those of the token to come; target is
\* the account a handler works on, name the one it creates.
Request == [pc : ReqPcs, token : Tokens \cup {0}, claims : Claims, target : Ids \cup {0},
            name : Names, old : Passwords]

IdleRequest == [pc |-> "idle", token |-> 0, claims |-> NoClaims, target |-> 0,
                name |-> AdminName, old |-> DefaultPass]

\* The schema: the primary keys, the UNIQUE columns and the foreign key.
TablesAreKeyed ==
    /\ \A u, v \in users : u.id = v.id \/ u.name = v.name => u = v
    /\ \A u \in users : u.id < nextId
    /\ \A s, t \in sessions : s.jti = t.jti => s = t
    /\ \A s \in sessions : \E u \in users : u.id = s.user

TypeOK ==
    /\ users \subseteq User
    /\ nextId \in 2..MaxId+1
    /\ sessions \subseteq [jti : Tokens, user : Ids]
    /\ tokens \in [Tokens -> Token]
    /\ TablesAreKeyed
    /\ req \in [Reqs -> Request]
    /\ faults \in 0..MaxFaults
    /\ loggedOut \subseteq Tokens
    /\ created \subseteq [id : Ids, name : Names]
    /\ overtaken \in BOOLEAN

\* The first start, at which EnsureDefaultAdmin found an empty table.
Init ==
    /\ users = {[id |-> 1, name |-> AdminName, role |-> "admin", pass |-> DefaultPass]}
    /\ nextId = 2
    /\ sessions = {}
    /\ tokens = [t \in Tokens |-> [claims |-> NoClaims, state |-> "none"]]
    /\ req = [p \in Reqs |-> IdleRequest]
    /\ faults = 0
    /\ loggedOut = {}
    /\ created = {}
    /\ overtaken = FALSE

----------------------------------------------------------------------------
(* Tables and processes *)

\* (A mutant: neither the check nor UNIQUE(username) finds anything.)
TakenNever(name) == FALSE
Taken(name) == \E u \in users : u.name = name

HasId(i) == \E u \in users : u.id = i

HasSession(t) == \E s \in sessions : s.jti = t

Begin(p, r) == req[p].pc = "idle" /\ req' = [req EXCEPT ![p] = r]
At(p, pc) == [req EXCEPT ![p].pc = pc]
Done(p) == [req EXCEPT ![p] = IdleRequest]

CountFault == faults < MaxFaults /\ faults' = faults + 1

\* UserRepo.CreateUser: the row as INSERT makes it.
NewUser(name, role, pass) == [id |-> nextId, name |-> name, role |-> role, pass |-> pass]

----------------------------------------------------------------------------
(* POST /api/auth/login, POST /api/auth/logout *)

\* verifyUser with the right password: GetByUsername, then bcrypt.  A wrong one
\* changes nothing.
Login(p, u) ==
    /\ Begin(p, [IdleRequest EXCEPT !.pc = "session", !.claims = ClaimsOf(u)])
    /\ UNCHANGED <<users, nextId, sessions, tokens, faults, loggedOut, created, overtaken>>

\* (A mutant: a connection without PRAGMA foreign_keys.)
ForeignKeyOff(i) == TRUE
ForeignKey(i) == HasId(i)

\* NewJTI: an id no token had before.
NewJTI == CHOOSE t \in Tokens : /\ tokens[t].state = "none"
                                /\ \A s \in Tokens : tokens[s].state = "none" => t <= s

\* CreateSession and the answer.  The foreign key refuses an account deleted since;
\* the client may be gone, and its token with it.
CreateSession(p) ==
    LET c == req[p].claims IN
    /\ req[p].pc = "session"
    /\ \E t \in Tokens : tokens[t].state = "none"
    /\ IF ForeignKey(c.user)
         THEN /\ sessions' = sessions \cup {[jti |-> NewJTI, user |-> c.user]}
              /\ \/ /\ tokens' = [tokens EXCEPT ![NewJTI] = [claims |-> c, state |-> "held"]]
                    /\ UNCHANGED faults
                 \/ /\ tokens' = [tokens EXCEPT ![NewJTI] = [claims |-> c, state |-> "lost"]]
                    /\ CountFault
         ELSE UNCHANGED <<sessions, tokens, faults>>
    /\ req' = Done(p)
    /\ UNCHANGED <<users, nextId, loggedOut, created, overtaken>>

\* (A mutant: all sessions of the token's account go.)
SessionsOfUser(t) == {s \in sessions : s.user = tokens[t].claims.user}
SessionsOf(t) == {s \in sessions : s.jti = t}

\* DeleteSession, for a token that still parses: after its date the row stays.
\* "logged out" is the answer even when the database fails.
Logout(t) ==
    /\ tokens[t].state = "held"
    /\ \/ /\ sessions' = sessions \ SessionsOf(t)
          /\ loggedOut' = loggedOut \cup {t}
          /\ UNCHANGED faults
       \/ CountFault /\ UNCHANGED <<sessions, loggedOut>>
    /\ UNCHANGED <<users, nextId, tokens, req, created, overtaken>>

----------------------------------------------------------------------------
(* authMiddleware and adminMiddleware: a request is admitted *)

\* SessionExists.
Valid(t) == tokens[t].state = "held" /\ HasSession(t)

\* (A mutant: the routes of /api/admin without adminMiddleware.)
MayAdministrateAny(t) == TRUE
MayAdministrate(t) == tokens[t].claims.role = "admin"

Admitted(t, pc) == [IdleRequest EXCEPT !.pc = pc, !.token = t, !.claims = tokens[t].claims]

\* The password an account came with, and the one its user chooses.
FirstPass(c) == IF c.role = "admin" THEN DefaultPass ELSE Password(c.user, 0)
OwnPass(c) == Password(c.user, 1)

\* POST /api/user/password, with either of them as the old one.
EnterPassword(p, t, old) ==
    /\ Valid(t)
    /\ old \in {FirstPass(tokens[t].claims), OwnPass(tokens[t].claims)}
    /\ Begin(p, [Admitted(t, "verify") EXCEPT !.old = old])
    /\ UNCHANGED <<users, nextId, sessions, tokens, faults, loggedOut, created, overtaken>>

\* POST /api/admin/users.
EnterCreateUser(p, t, name) ==
    /\ Valid(t) /\ MayAdministrate(t)
    /\ Begin(p, [Admitted(t, "check") EXCEPT !.name = name])
    /\ UNCHANGED <<users, nextId, sessions, tokens, faults, loggedOut, created, overtaken>>

\* DELETE /api/admin/users/{id}; an admin may name himself.
EnterDeleteUser(p, t, i) ==
    /\ Valid(t) /\ MayAdministrate(t)
    /\ Begin(p, [Admitted(t, "find") EXCEPT !.target = i])
    /\ UNCHANGED <<users, nextId, sessions, tokens, faults, loggedOut, created, overtaken>>

----------------------------------------------------------------------------
(* POST /api/user/password: password *)

\* verifyUser by the name in the claims.  Update by the id of the row it found.
VerifyOld(p) ==
    LET r == req[p]
        match == {u \in users : u.name = r.claims.name /\ u.pass = r.old} IN
    /\ r.pc = "verify"
    /\ IF match = {} THEN req' = Done(p)
                     ELSE \E u \in match : req' = [req EXCEPT ![p].pc = "update", ![p].target = u.id]
    /\ UNCHANGED <<users, nextId, sessions, tokens, faults, loggedOut, created, overtaken>>

\* (A mutant: the row is found again by its name.)
RowToUpdateByName(p) == {u \in users : u.name = req[p].claims.name}
RowToUpdate(p) == {u \in users : u.id = req[p].target}

\* UpdatePassword: an UPDATE that matches no row is no error.
UpdatePassword(p) ==
    /\ req[p].pc = "update"
    /\ users' = (users \ RowToUpdate(p))
                    \cup {[u EXCEPT !.pass = OwnPass(req[p].claims)] : u \in RowToUpdate(p)}
    /\ req' = Done(p)
    /\ UNCHANGED <<nextId, sessions, tokens, faults, loggedOut, created, overtaken>>

----------------------------------------------------------------------------
(* POST /api/admin/users: createUser *)

\* GetByUsername.
CheckName(p) ==
    /\ req[p].pc = "check"
    /\ req' = IF Taken(req[p].name) THEN Done(p) ELSE At(p, "insert")
    /\ UNCHANGED <<users, nextId, sessions, tokens, faults, loggedOut, created, overtaken>>

\* (A mutant: INSERT OR REPLACE.)
InsertOrReplace(p) ==
    LET u == NewUser(req[p].name, "user", Password(nextId, 0)) IN
    /\ req[p].pc = "insert"
    /\ nextId <= MaxId
    /\ users' = {v \in users : v.name # u.name} \cup {u}
    /\ sessions' = {s \in sessions : \E v \in users' : v.id = s.user}
    /\ nextId' = nextId + 1
    /\ created' = created \cup {[id |-> u.id, name |-> u.name]}
    /\ req' = Done(p)
    /\ UNCHANGED <<tokens, faults, loggedOut, overtaken>>

\* CreateUser with a generated password and the role "user"; UNIQUE(username) may
\* refuse it, and so does the bound MaxId, as a database error would.
InsertUser(p) ==
    LET u == NewUser(req[p].name, "user", Password(nextId, 0)) IN
    /\ req[p].pc = "insert"
    /\ IF Taken(u.name) \/ nextId > MaxId
         THEN UNCHANGED <<users, nextId, created>>
         ELSE /\ users' = users \cup {u}
              /\ nextId' = nextId + 1
              /\ created' = created \cup {[id |-> u.id, name |-> u.name]}
    /\ req' = Done(p)
    /\ UNCHANGED <<sessions, tokens, faults, loggedOut, overtaken>>

----------------------------------------------------------------------------
(* DELETE /api/admin/users/{id}: deleteUser, as far as the accounts go *)

\* GetByID.  The configs and the worker are Panel's.
FindUser(p) ==
    LET i == req[p].target IN
    /\ req[p].pc = "find"
    /\ IF HasId(i) THEN /\ req' = At(p, "deleteRow")
                        /\ created' = {c \in created : c.id # i}
                   ELSE req' = Done(p) /\ UNCHANGED created
    /\ UNCHANGED <<users, nextId, sessions, tokens, faults, loggedOut, overtaken>>

\* DeleteUser; ON DELETE CASCADE ends the account's sessions.  404 if the row has
\* gone since.
DeleteUserRow(p) ==
    LET i == req[p].target IN
    /\ req[p].pc = "deleteRow"
    /\ users' = {u \in users : u.id # i}
    /\ sessions' = {s \in sessions : s.user # i}
    /\ overtaken' = \/ overtaken
                    \/ \E q \in Reqs : req[q].pc \in {"check", "insert"} /\ req[q].claims.user = i
    /\ req' = Done(p)
    /\ UNCHANGED <<nextId, tokens, faults, loggedOut, created>>

----------------------------------------------------------------------------
(* The environment *)

\* TOKEN_TTL passes.  Nothing removes the row of an expired session.
Expire(t) ==
    /\ tokens[t].state = "held"
    /\ tokens' = [tokens EXCEPT ![t].state = "expired"]
    /\ UNCHANGED <<users, nextId, sessions, req, faults, loggedOut, created, overtaken>>

\* The client goes away, the database or the worker fails: the rest is not done.
Abandon(p) ==
    /\ req[p].pc # "idle"
    /\ CountFault
    /\ req' = Done(p)
    /\ UNCHANGED <<users, nextId, sessions, tokens, loggedOut, created, overtaken>>

\* The process stops and starts: EnsureDefaultAdmin makes up for a missing "admin".
Restart ==
    /\ CountFault
    /\ req' = [p \in Reqs |-> IdleRequest]
    /\ IF Taken(AdminName)
         THEN UNCHANGED <<users, nextId>>
         ELSE /\ nextId <= MaxId
              /\ users' = users \cup {NewUser(AdminName, "admin", DefaultPass)}
              /\ nextId' = nextId + 1
    /\ UNCHANGED <<sessions, tokens, loggedOut, created, overtaken>>

----------------------------------------------------------------------------
(* Specification *)

Enters(p, t) ==
    \/ \E old \in Passwords : EnterPassword(p, t, old)
    \/ \E name \in Names : EnterCreateUser(p, t, name)
    \/ \E i \in Ids : EnterDeleteUser(p, t, i)

Continues(p) ==
    \/ CreateSession(p)
    \/ VerifyOld(p) \/ UpdatePassword(p)
    \/ CheckName(p) \/ InsertUser(p)
    \/ FindUser(p) \/ DeleteUserRow(p)

Next ==
    \/ \E p \in Reqs :
        \/ \E u \in users : Login(p, u)
        \/ \E t \in Tokens : Enters(p, t)
        \/ Continues(p)
        \/ Abandon(p)
    \/ \E t \in Tokens : Logout(t) \/ Expire(t)
    \/ Restart

Spec == Init /\ [][Next]_vars

----------------------------------------------------------------------------
(* Properties *)

\* A token whose account has been deleted, or that was logged out without a failure.
Over(t) == \/ t \in loggedOut
           \/ tokens[t].claims.user \in 1..nextId-1 /\ ~HasId(tokens[t].claims.user)

\* No handler starts for a token that is over: not through a login that overlapped
\* the deletion of its account, nor through another session of the same user.
NothingStartsWhenOver ==
    [][\A p \in Reqs : req[p].pc = "idle" /\ req'[p].token # 0 => ~Over(req'[p].token)]_vars

\* A token a client holds stays good until its own logout, its date or the end of
\* its account: other logouts, password changes and restarts leave it alone.
HeldTokensWork ==
    \A t \in Tokens : tokens[t].state = "held" /\ ~Over(t) => HasSession(t)

\* An account's password is one its own user chose or was given: a change that
\* overlaps the deletion of the account does not hit the next one of that name.
PasswordsAreOwn ==
    \A u \in users : u.pass.of = u.id \/ (u.role = "admin" /\ u.pass = DefaultPass)

\* An account createUser answered 201 for exists under its name until somebody asks
\* to delete it: not a second creation of the name nor a restart replaces it.
CreatedStands ==
    \A c \in created : \E u \in users : u.id = c.id /\ u.name = c.name

\* The name EnsureDefaultAdmin looks for belongs to an admin, so that a start finds
\* out when there is none: unless an admin was deleted under a createUser of his own.
AdminNameIsAdmins ==
    \A u \in users : u.name = AdminName => u.role = "admin" \/ overtaken
=============================================================================
