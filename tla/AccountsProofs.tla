--------------------------- MODULE AccountsProofs ---------------------------
(***************************************************************************)
(* Proofs about Accounts, for any number of names, requests, accounts,     *)
(* tokens and failures.                                                    *)
(***************************************************************************)
EXTENDS Accounts, TLAPS, WellFoundedInduction

----------------------------------------------------------------------------
(* The parts of the inductive invariants *)

\* A request that is not there names no token.
IdleNamesNoToken == \A p \in Reqs : req[p].pc = "idle" => req[p].token = 0

\* Every session row is of a signed token and of the account in its claims.
SessionsAreSigned ==
    \A s \in sessions : tokens[s.jti].state # "none" /\ tokens[s.jti].claims.user = s.user

\* A token that was logged out has no row and gets none.
LoggedOutHaveNone ==
    \A t \in loggedOut : tokens[t].state # "none" /\ ~HasSession(t)

\* Claims taken from a row: an id that was given, and the row's name and role as
\* long as the row is there.
Genuine(c) ==
    /\ c.user \in 1..nextId-1
    /\ c.role = "admin" => c.name = AdminName
    /\ \A u \in users : u.id = c.user => u.name = c.name /\ u.role = c.role

ClaimsAreGenuine ==
    /\ \A t \in Tokens : tokens[t].state # "none" => Genuine(tokens[t].claims)
    /\ \A p \in Reqs : req[p].pc # "idle" => Genuine(req[p].claims)

\* Only EnsureDefaultAdmin makes admins.
AdminsAreNamedAdmin == \A u \in users : u.role = "admin" => u.name = AdminName

\* verifyUser can find only the account of the claims: the password tried is that
\* account's own, or the default one and no other admin has come since.
VerifiesItself(r) ==
    r.pc = "verify" =>
        /\ r.old \in {FirstPass(r.claims), OwnPass(r.claims)}
        /\ r.claims.role = "admin" =>
             \A u \in users : u.role = "admin" => u.id = r.claims.user

UpdatesItself(r) == r.pc = "update" => r.target = r.claims.user

\* The account deleteUser has found is promised to nobody any more.
DeletesWhatWasAsked(r) ==
    r.pc = "deleteRow" => r.target < nextId /\ \A c \in created : c.id # r.target

\* An admin stands behind a createUser, unless he was deleted under it.
CreatedByAdmin(r) ==
    r.pc \in {"check", "insert"} =>
        overtaken \/ \E u \in users : u.id = r.claims.user /\ u.role = "admin"

----------------------------------------------------------------------------
(* Types *)

LEMMA ValuesTyped ==
    /\ IdleRequest \in Request /\ IdleRequest.pc = "idle" /\ IdleRequest.token = 0
    /\ NoClaims \in Claims
    /\ DefaultPass \in Passwords
    /\ \A i \in Ids : \A n \in 0..1 : Password(i, n) \in Passwords
BY NamesAssumption DEF IdleRequest, Request, ReqPcs, NoClaims, Claims, Roles, DefaultPass,
                       Passwords, Password

LEMMA ClaimsOfTyped ==
    ASSUME NEW u \in User
    PROVE  ClaimsOf(u) \in Claims
BY DEF User, ClaimsOf, Claims

\* The new request, and that no other slot changes.
LEMMA DoneTyped ==
    ASSUME TypeOK, NEW p \in Reqs, req' = Done(p)
    PROVE  /\ req' \in [Reqs -> Request]
           /\ req'[p] = IdleRequest
           /\ \A q \in Reqs : q # p => req'[q] = req[q]
BY ValuesTyped DEF TypeOK, Done

LEMMA AtTyped ==
    ASSUME TypeOK, NEW p \in Reqs, NEW pc \in ReqPcs, req' = At(p, pc)
    PROVE  /\ req' \in [Reqs -> Request]
           /\ req'[p] = [req[p] EXCEPT !.pc = pc]
           /\ \A q \in Reqs : q # p => req'[q] = req[q]
BY DEF TypeOK, At, Request

LEMMA BeginTyped ==
    ASSUME TypeOK, NEW p \in Reqs, NEW r \in Request, Begin(p, r)
    PROVE  /\ req' \in [Reqs -> Request]
           /\ req[p].pc = "idle"
           /\ req'[p] = r
           /\ \A q \in Reqs : q # p => req'[q] = req[q]
BY DEF TypeOK, Begin

LEMMA LoginTyped ==
    ASSUME TypeOK, NEW u \in users
    PROVE  [IdleRequest EXCEPT !.pc = "session", !.claims = ClaimsOf(u)] \in Request
<1>1. ClaimsOf(u) \in Claims
  BY ClaimsOfTyped DEF TypeOK
<1> QED BY <1>1, ValuesTyped DEF Request, ReqPcs

LEMMA LoginStep ==
    ASSUME TypeOK, NEW p \in Reqs, NEW u \in users, Login(p, u)
    PROVE  /\ req' \in [Reqs -> Request]
           /\ req[p].pc = "idle"
           /\ req'[p] = [IdleRequest EXCEPT !.pc = "session", !.claims = ClaimsOf(u)]
           /\ req'[p].pc = "session" /\ req'[p].token = 0 /\ req'[p].claims = ClaimsOf(u)
           /\ \A q \in Reqs : q # p => req'[q] = req[q]
<1> DEFINE r == [IdleRequest EXCEPT !.pc = "session", !.claims = ClaimsOf(u)]
<1>1. r \in Request
  BY LoginTyped
<1>2. r.pc = "session" /\ r.token = 0 /\ r.claims = ClaimsOf(u)
  BY DEF IdleRequest
<1>3. Begin(p, r)
  BY DEF Login
<1> HIDE DEF r
<1>4. /\ req' \in [Reqs -> Request] /\ req[p].pc = "idle" /\ req'[p] = r
      /\ \A q \in Reqs : q # p => req'[q] = req[q]
  BY <1>1, <1>3, BeginTyped
<1> QED BY <1>2, <1>4 DEF r

LEMMA AdmittedTyped ==
    ASSUME TypeOK, NEW t \in Tokens, NEW pc \in ReqPcs
    PROVE  /\ Admitted(t, pc) \in Request
           /\ Admitted(t, pc) = [IdleRequest EXCEPT !.pc = pc, !.token = t,
                                                    !.claims = tokens[t].claims]
<1>1. tokens[t].claims \in Claims
  BY DEF TypeOK, Token
<1> QED BY <1>1, ValuesTyped DEF Admitted, Request

\* The least-number principle, from the well-foundedness of < on Nat.
LEMMA LeastOf ==
    ASSUME NEW S \in SUBSET Nat, S # {}
    PROVE  \E n \in S : \A m \in S : n <= m
<1> DEFINE R == OpToRel(<, Nat)
<1>1. IsWellFoundedOn(R, Nat)
  BY NatLessThanWellFounded, Zenon
<1> HIDE DEF R
<1>2. \E x \in S : \A y \in S : ~(<<y, x>> \in R)
  BY <1>1, WFMin, Zenon
<1>3. \A x, y \in Nat : <<y, x>> \in R <=> y < x
  BY DEF R, OpToRel
<1>4. \E x \in S : \A y \in S : ~ (y < x)
  BY <1>2, <1>3, Zenon
<1> QED BY <1>4

LEMMA NewJTIIsUnused ==
    ASSUME TypeOK, \E t \in Tokens : tokens[t].state = "none"
    PROVE  NewJTI \in Tokens /\ tokens[NewJTI].state = "none"
<1> DEFINE U == {t \in Tokens : tokens[t].state = "none"}
<1>1. U \in SUBSET Nat /\ U # {}
  BY BoundsAssumption DEF Tokens
<1> HIDE DEF U
<1>2. \E t \in U : \A s \in U : t <= s
  BY <1>1, LeastOf
<1> QED BY <1>2 DEF NewJTI, U

\* A step of a request that touches no table.
LEMMA RequestStepTyped ==
    ASSUME TypeOK, SessionsAreSigned,
           UNCHANGED <<users, nextId, sessions, tokens, loggedOut, overtaken>>,
           req' \in [Reqs -> Request], faults' \in 0..MaxFaults, created' \subseteq created
    PROVE  TypeOK' /\ SessionsAreSigned'
BY DEF TypeOK, TablesAreKeyed, SessionsAreSigned

LEMMA CountFaultTyped ==
    ASSUME TypeOK, CountFault
    PROVE  faults' \in 0..MaxFaults
BY BoundsAssumption DEF TypeOK, CountFault

\* A row added under a name nobody has.
LEMMA NewRowTyped ==
    ASSUME TypeOK, NEW name \in Names, NEW role \in Roles, NEW pass \in Passwords,
           nextId <= MaxId, ~Taken(name),
           users' = users \cup {NewUser(name, role, pass)}, nextId' = nextId + 1
    PROVE  /\ users' \subseteq User
           /\ nextId' \in 2..MaxId+1
           /\ \A u, v \in users' : u.id = v.id \/ u.name = v.name => u = v
           /\ \A u \in users' : u.id < nextId'
<1> DEFINE n == NewUser(name, role, pass)
<1>1. n \in User /\ n.id = nextId /\ n.name = name
  BY BoundsAssumption DEF NewUser, User, TypeOK, Ids
<1>2. nextId' \in 2..MaxId+1
  BY BoundsAssumption DEF TypeOK
<1>3. \A u \in users : u.id \in Int /\ u.id < nextId /\ u.name # name
  BY BoundsAssumption DEF TypeOK, TablesAreKeyed, User, Ids, Taken
<1> HIDE DEF n
<1>4. users' = users \cup {n}
  BY DEF n
<1>5. \A u, v \in users' : u.id = v.id \/ u.name = v.name => u = v
  BY <1>1, <1>3, <1>4 DEF TypeOK, TablesAreKeyed
<1>6. \A u \in users' : u.id < nextId'
  BY <1>1, <1>3, <1>4, BoundsAssumption DEF TypeOK
<1> QED BY <1>1, <1>2, <1>4, <1>5, <1>6 DEF TypeOK

LEMMA TypesInit == Init => TypeOK /\ SessionsAreSigned
<1> SUFFICES ASSUME Init PROVE TypeOK /\ SessionsAreSigned
  OBVIOUS
<1>1. users \subseteq User /\ nextId \in 2..MaxId+1
  BY ValuesTyped, NamesAssumption, BoundsAssumption DEF Init, User, Ids, Roles
<1>2. tokens \in [Tokens -> Token] /\ req \in [Reqs -> Request]
  BY ValuesTyped DEF Init, Token
<1>3. TablesAreKeyed
  BY DEF Init, TablesAreKeyed
<1>4. overtaken = FALSE /\ faults = 0
  BY DEF Init
<1>5. sessions = {} /\ loggedOut = {} /\ created = {}
  BY DEF Init
<1>6. overtaken \in BOOLEAN /\ faults \in 0..MaxFaults
  <2>1. overtaken \in BOOLEAN
    BY <1>4, Zenon
  <2> QED BY <1>4, <2>1, BoundsAssumption
<1> QED BY <1>1, <1>2, <1>3, <1>5, <1>6 DEF TypeOK, SessionsAreSigned

LEMMA CreateSessionTyped ==
    ASSUME TypeOK, SessionsAreSigned, NEW p \in Reqs, CreateSession(p)
    PROVE  TypeOK' /\ SessionsAreSigned'
<1> DEFINE c == req[p].claims
           j == NewJTI
<1>1. c \in Claims /\ c.user \in Ids \cup {0}
  BY DEF TypeOK, Request, Claims
<1>2. j \in Tokens /\ tokens[j].state = "none"
  BY NewJTIIsUnused DEF CreateSession
<1>3. req' \in [Reqs -> Request]
  BY DoneTyped DEF CreateSession
<1>4. CASE ~ForeignKey(c.user)
  BY <1>3, <1>4, RequestStepTyped DEF CreateSession, TypeOK
<1>5. CASE ForeignKey(c.user)
  <2>1. PICK state \in {"held", "lost"} :
            tokens' = [tokens EXCEPT ![j] = [claims |-> c, state |-> state]]
    BY <1>5 DEF CreateSession
  <2>2. sessions' = sessions \cup {[jti |-> j, user |-> c.user]}
    BY <1>5 DEF CreateSession
  <2>3. faults' \in 0..MaxFaults
    BY <1>5, CountFaultTyped DEF CreateSession, TypeOK
  <2>4. UNCHANGED <<users, nextId, loggedOut, created, overtaken>>
    BY DEF CreateSession
  <2> HIDE DEF j, c
  <2>5. \A s \in sessions : s.jti \in Tokens /\ s.jti # j
    BY <1>2 DEF SessionsAreSigned, TypeOK
  <2>6. \E u \in users : u.id = c.user
    BY <1>5 DEF ForeignKey, HasId
  <2>7. c.user \in Ids
    BY <2>6 DEF TypeOK, User
  <2>8. [claims |-> c, state |-> state] \in Token
    BY <1>1 DEF Token
  <2>9. tokens' \in [Tokens -> Token]
    BY <1>2, <2>1, <2>8 DEF TypeOK
  <2>10. sessions' \subseteq [jti : Tokens, user : Ids]
    BY <1>2, <2>2, <2>7 DEF TypeOK
  <2>11. TablesAreKeyed'
    BY <2>2, <2>4, <2>5, <2>6 DEF TypeOK, TablesAreKeyed
  <2>12. SessionsAreSigned'
    BY <1>2, <2>1, <2>2, <2>5 DEF SessionsAreSigned, TypeOK
  <2> QED BY <1>3, <2>3, <2>4, <2>9, <2>10, <2>11, <2>12 DEF TypeOK
<1> QED BY <1>4, <1>5

LEMMA LogoutTyped ==
    ASSUME TypeOK, SessionsAreSigned, NEW t \in Tokens, Logout(t)
    PROVE  TypeOK' /\ SessionsAreSigned'
<1>1. /\ sessions' \subseteq sessions /\ loggedOut' \subseteq Tokens
      /\ faults' \in 0..MaxFaults
      /\ UNCHANGED <<users, nextId, tokens, req, created, overtaken>>
  BY CountFaultTyped DEF Logout, TypeOK
<1> QED BY <1>1 DEF TypeOK, TablesAreKeyed, SessionsAreSigned

LEMMA UpdatePasswordTyped ==
    ASSUME TypeOK, SessionsAreSigned, NEW p \in Reqs, UpdatePassword(p)
    PROVE  TypeOK' /\ SessionsAreSigned'
<1> DEFINE pass == OwnPass(req[p].claims)
           i == req[p].target
<1>1. pass \in Passwords
  BY DEF TypeOK, Request, Claims, OwnPass, Password, Passwords
<1>2. users' = {u \in users : u.id # i}
                  \cup {[u EXCEPT !.pass = pass] : u \in {v \in users : v.id = i}}
  BY DEF UpdatePassword, RowToUpdate
<1>3. req' \in [Reqs -> Request]
  BY DoneTyped DEF UpdatePassword
<1>4. UNCHANGED <<nextId, sessions, tokens, faults, loggedOut, created, overtaken>>
  BY DEF UpdatePassword
<1> HIDE DEF pass, i
<1>5. \A v \in users' : \E u \in users : v.id = u.id /\ v.name = u.name
  BY <1>2 DEF TypeOK, User
<1>6. \A v \in users' : v \in users \/ v.id = i
  BY <1>2 DEF TypeOK, User
<1>7. users' \subseteq User
  BY <1>1, <1>2 DEF TypeOK, User
<1>8. \A u \in users : \E v \in users' : v.id = u.id
  <2> SUFFICES ASSUME NEW u \in users, u.id = i
               PROVE  \E v \in users' : v.id = u.id
    BY <1>2
  <2>1. [u EXCEPT !.pass = pass] \in users' /\ [u EXCEPT !.pass = pass].id = u.id
    BY <1>2 DEF TypeOK, User
  <2> QED BY <2>1
<1>9. \A u, v \in users' : u.id = v.id \/ u.name = v.name => u = v
  BY <1>2 DEF TypeOK, TablesAreKeyed, User
<1>10. TablesAreKeyed'
  BY <1>4, <1>5, <1>8, <1>9 DEF TypeOK, TablesAreKeyed
<1> QED BY <1>3, <1>4, <1>7, <1>10 DEF TypeOK, SessionsAreSigned
LEMMA InsertUserTyped ==
    ASSUME TypeOK, SessionsAreSigned, NEW p \in Reqs, InsertUser(p)
    PROVE  TypeOK' /\ SessionsAreSigned'
<1> DEFINE name == req[p].name
<1>1. req' \in [Reqs -> Request]
  BY DoneTyped DEF InsertUser
<1>2. CASE Taken(name) \/ nextId > MaxId
  <2>1. UNCHANGED <<users, nextId, created>>
    BY <1>2 DEF InsertUser, NewUser
  <2> QED BY <1>1, <2>1, RequestStepTyped DEF InsertUser, TypeOK
<1>3. CASE ~(Taken(name) \/ nextId > MaxId)
  <2>1. /\ users' = users \cup {NewUser(name, "user", Password(nextId, 0))}
        /\ nextId' = nextId + 1
        /\ created' = created \cup {[id |-> nextId, name |-> name]}
        /\ UNCHANGED <<sessions, tokens, faults, loggedOut, overtaken>>
    BY <1>3 DEF InsertUser, NewUser
  <2>2. name \in Names /\ nextId \in Ids /\ nextId <= MaxId
    BY <1>3, BoundsAssumption DEF TypeOK, Request, Ids
  <2>3. Password(nextId, 0) \in Passwords /\ "user" \in Roles
    BY <2>2, ValuesTyped DEF Roles
  <2>4. /\ users' \subseteq User
        /\ nextId' \in 2..MaxId+1
        /\ \A u, v \in users' : u.id = v.id \/ u.name = v.name => u = v
        /\ \A u \in users' : u.id < nextId'
    BY <1>3, <2>1, <2>2, <2>3, NewRowTyped
  <2>5. TablesAreKeyed'
    BY <2>1, <2>4 DEF TypeOK, TablesAreKeyed
  <2>6. created' \subseteq [id : Ids, name : Names]
    BY <2>1, <2>2 DEF TypeOK
  <2> QED BY <1>1, <2>1, <2>4, <2>5, <2>6 DEF TypeOK, SessionsAreSigned
<1> QED BY <1>2, <1>3

LEMMA DeleteUserRowTyped ==
    ASSUME TypeOK, SessionsAreSigned, NEW p \in Reqs, DeleteUserRow(p)
    PROVE  TypeOK' /\ SessionsAreSigned'
<1>1. req' \in [Reqs -> Request]
  BY DoneTyped DEF DeleteUserRow
<1>2. overtaken' \in BOOLEAN
  BY DEF DeleteUserRow, TypeOK
<1>3. /\ users' = {u \in users : u.id # req[p].target}
      /\ sessions' = {s \in sessions : s.user # req[p].target}
      /\ UNCHANGED <<nextId, tokens, faults, loggedOut, created>>
  BY DEF DeleteUserRow
<1>4. TablesAreKeyed'
  BY <1>3 DEF TypeOK, TablesAreKeyed
<1> QED BY <1>1, <1>2, <1>3, <1>4 DEF TypeOK, SessionsAreSigned

LEMMA ExpireTyped ==
    ASSUME TypeOK, SessionsAreSigned, NEW t \in Tokens, Expire(t)
    PROVE  TypeOK' /\ SessionsAreSigned'
<1>1. /\ tokens' = [tokens EXCEPT ![t] = [tokens[t] EXCEPT !.state = "expired"]]
      /\ UNCHANGED <<users, nextId, sessions, req, faults, loggedOut, created, overtaken>>
  BY DEF Expire
<1>2. [tokens[t] EXCEPT !.state = "expired"] \in Token
  BY DEF TypeOK, Token
<1>3. tokens' \in [Tokens -> Token]
  BY <1>1, <1>2 DEF TypeOK
<1>4. \A k \in Tokens : /\ tokens'[k].claims = tokens[k].claims
                        /\ tokens[k].state # "none" => tokens'[k].state # "none"
  BY <1>1 DEF TypeOK, Token
<1>5. SessionsAreSigned'
  BY <1>1, <1>4 DEF TypeOK, SessionsAreSigned
<1>6. TablesAreKeyed'
  BY <1>1 DEF TypeOK, TablesAreKeyed
<1> QED BY <1>1, <1>3, <1>5, <1>6 DEF TypeOK

LEMMA RestartTyped ==
    ASSUME TypeOK, SessionsAreSigned, Restart
    PROVE  TypeOK' /\ SessionsAreSigned'
<1>1. req' \in [Reqs -> Request] /\ faults' \in 0..MaxFaults
  BY ValuesTyped, CountFaultTyped DEF Restart
<1>2. CASE Taken(AdminName)
  BY <1>1, <1>2, RequestStepTyped DEF Restart
<1>3. CASE ~Taken(AdminName)
  <2>1. /\ nextId <= MaxId
        /\ users' = users \cup {NewUser(AdminName, "admin", DefaultPass)}
        /\ nextId' = nextId + 1
        /\ UNCHANGED <<sessions, tokens, loggedOut, created, overtaken>>
    BY <1>3 DEF Restart
  <2>2. /\ users' \subseteq User
        /\ nextId' \in 2..MaxId+1
        /\ \A u, v \in users' : u.id = v.id \/ u.name = v.name => u = v
        /\ \A u \in users' : u.id < nextId'
    BY <1>3, <2>1, ValuesTyped, NamesAssumption, NewRowTyped DEF Roles
  <2>3. TablesAreKeyed'
    BY <2>1, <2>2 DEF TypeOK, TablesAreKeyed
  <2> QED BY <1>1, <2>1, <2>2, <2>3 DEF TypeOK, SessionsAreSigned
<1> QED BY <1>2, <1>3

LEMMA TypesNext ==
    ASSUME TypeOK, SessionsAreSigned, [Next]_vars
    PROVE  TypeOK' /\ SessionsAreSigned'
<1>1. ASSUME NEW p \in Reqs, NEW u \in users, Login(p, u)
      PROVE  TypeOK' /\ SessionsAreSigned'
  BY <1>1, LoginStep, RequestStepTyped DEF Login, TypeOK
<1>2. ASSUME NEW p \in Reqs, NEW t \in Tokens, Enters(p, t)
      PROVE  TypeOK' /\ SessionsAreSigned'
  <2>1. ASSUME NEW old \in Passwords, EnterPassword(p, t, old)
        PROVE  TypeOK' /\ SessionsAreSigned'
    <3>1. [Admitted(t, "verify") EXCEPT !.old = old] \in Request
      BY AdmittedTyped DEF Request, ReqPcs
    <3> QED BY <2>1, <3>1, BeginTyped, RequestStepTyped DEF EnterPassword, TypeOK
  <2>2. ASSUME NEW name \in Names, EnterCreateUser(p, t, name)
        PROVE  TypeOK' /\ SessionsAreSigned'
    <3>1. [Admitted(t, "check") EXCEPT !.name = name] \in Request
      BY AdmittedTyped DEF Request, ReqPcs
    <3> QED BY <2>2, <3>1, BeginTyped, RequestStepTyped DEF EnterCreateUser, TypeOK
  <2>3. ASSUME NEW i \in Ids, EnterDeleteUser(p, t, i)
        PROVE  TypeOK' /\ SessionsAreSigned'
    <3>1. [Admitted(t, "find") EXCEPT !.target = i] \in Request
      BY AdmittedTyped DEF Request, ReqPcs
    <3> QED BY <2>3, <3>1, BeginTyped, RequestStepTyped DEF EnterDeleteUser, TypeOK
  <2> QED BY <1>2, <2>1, <2>2, <2>3 DEF Enters
<1>3. ASSUME NEW p \in Reqs, Continues(p)
      PROVE  TypeOK' /\ SessionsAreSigned'
  <2>1. CASE VerifyOld(p)
    <3>1. \A u \in users : [req[p] EXCEPT !.pc = "update", !.target = u.id] \in Request
      BY DEF TypeOK, Request, ReqPcs, User
    <3>2. req' \in [Reqs -> Request]
      BY <2>1, <3>1, DoneTyped DEF VerifyOld, TypeOK
    <3> QED BY <2>1, <3>2, RequestStepTyped DEF VerifyOld, TypeOK
  <2>2. CASE CheckName(p)
    <3>1. req' \in [Reqs -> Request]
      BY <2>2, DoneTyped, AtTyped DEF CheckName, ReqPcs
    <3> QED BY <2>2, <3>1, RequestStepTyped DEF CheckName, TypeOK
  <2>3. CASE FindUser(p)
    <3>1. req' \in [Reqs -> Request] /\ created' \subseteq created
      BY <2>3, DoneTyped, AtTyped DEF FindUser, ReqPcs
    <3> QED BY <2>3, <3>1, RequestStepTyped DEF FindUser, TypeOK
  <2> QED BY <1>3, <2>1, <2>2, <2>3, CreateSessionTyped, UpdatePasswordTyped, InsertUserTyped,
             DeleteUserRowTyped DEF Continues
<1>4. ASSUME NEW p \in Reqs, Abandon(p)
      PROVE  TypeOK' /\ SessionsAreSigned'
  BY <1>4, DoneTyped, CountFaultTyped, RequestStepTyped DEF Abandon
<1>5. CASE UNCHANGED vars
  BY <1>5 DEF vars, TypeOK, TablesAreKeyed, SessionsAreSigned
<1> QED BY <1>1, <1>2, <1>3, <1>4, <1>5, LogoutTyped, ExpireTyped, RestartTyped DEF Next

\* Every table, token and request of Accounts keeps its type, the tables their keys
\* and the sessions their accounts: the primary keys, UNIQUE(username) and the
\* cascade of the sessions hold after every step of every handler.
THEOREM AccountsTypes == Spec => []TypeOK
<1>1. Spec => [](TypeOK /\ SessionsAreSigned)
  BY TypesInit, TypesNext, PTL DEF Spec
<1> QED BY <1>1, PTL

----------------------------------------------------------------------------
(* What a step does to the requests, the tokens and the rows *)

\* Every step either leaves a request alone, ends it, admits it or moves it on.
LEMMA RequestStep ==
    ASSUME TypeOK, [Next]_vars, NEW p \in Reqs
    PROVE  \/ req'[p] = req[p]
           \/ req'[p] = IdleRequest
           \/ /\ req[p].pc = "idle"
              /\ \E u \in users : Login(p, u)
           \/ /\ req[p].pc = "idle"
              /\ \E t \in Tokens : Enters(p, t)
           \/ VerifyOld(p) \/ CheckName(p) \/ FindUser(p)
<1>1. ASSUME NEW q \in Reqs, NEW u \in users, Login(q, u)
      PROVE  IF q = p THEN req[p].pc = "idle" ELSE req'[p] = req[p]
  BY <1>1 DEF Login, Begin, TypeOK
<1>2. ASSUME NEW q \in Reqs, NEW t \in Tokens, Enters(q, t)
      PROVE  IF q = p THEN req[p].pc = "idle" ELSE req'[p] = req[p]
  BY <1>2 DEF Enters, EnterPassword, EnterCreateUser, EnterDeleteUser, Begin, TypeOK
<1>3. ASSUME NEW q \in Reqs, q # p, VerifyOld(q) \/ CheckName(q) \/ FindUser(q)
      PROVE  req'[p] = req[p]
  BY <1>3 DEF VerifyOld, CheckName, FindUser, Done, At, TypeOK
<1>4. ASSUME NEW q \in Reqs, CreateSession(q) \/ UpdatePassword(q) \/ InsertUser(q)
                             \/ DeleteUserRow(q) \/ Abandon(q)
      PROVE  req'[p] = IF q = p THEN IdleRequest ELSE req[p]
  <2>1. req' = Done(q)
    BY <1>4 DEF CreateSession, UpdatePassword, InsertUser, DeleteUserRow, Abandon
  <2> QED BY <2>1, DoneTyped
<1>5. ASSUME NEW t \in Tokens, Logout(t) \/ Expire(t)
      PROVE  req'[p] = req[p]
  BY <1>5 DEF Logout, Expire
<1>6. ASSUME Restart
      PROVE  req'[p] = IdleRequest
  BY <1>6 DEF Restart
<1>7. ASSUME UNCHANGED vars
      PROVE  req'[p] = req[p]
  BY <1>7 DEF vars
<1> QED BY <1>1, <1>2, <1>3, <1>4, <1>5, <1>6, <1>7 DEF Next, Continues

\* The access that follows, if there is one.
LEMMA NextAccess ==
    ASSUME TypeOK, NEW p \in Reqs
    PROVE  /\ VerifyOld(p) => req'[p].pc \in {"idle", "update"}
           /\ CheckName(p) => req'[p].pc \in {"idle", "insert"}
           /\ FindUser(p) => req'[p].pc \in {"idle", "deleteRow"}
<1>1. CASE req' = Done(p)
  BY <1>1, DoneTyped, ValuesTyped
<1>2. ASSUME NEW pc \in ReqPcs, req' = At(p, pc)
      PROVE  req'[p].pc = pc
  <2>1. req'[p] = [req[p] EXCEPT !.pc = pc]
    BY <1>2, AtTyped
  <2>2. req[p] \in Request
    BY DEF TypeOK
  <2> QED BY <2>1, <2>2 DEF Request
<1>3. ASSUME NEW i, req' = [req EXCEPT ![p].pc = "update", ![p].target = i]
      PROVE  req'[p].pc = "update"
  BY <1>3 DEF TypeOK, Request
<1>4. VerifyOld(p) => req'[p].pc \in {"idle", "update"}
  BY <1>1, <1>3 DEF VerifyOld
<1>5. CheckName(p) => req'[p].pc \in {"idle", "insert"}
  BY <1>1, <1>2 DEF CheckName, ReqPcs
<1>6. FindUser(p) => req'[p].pc \in {"idle", "deleteRow"}
  BY <1>1, <1>2 DEF FindUser, ReqPcs
<1> QED BY <1>4, <1>5, <1>6

\* Admission, by the token alone.
LEMMA EnterStep ==
    ASSUME TypeOK, NEW p \in Reqs, NEW t \in Tokens, Enters(p, t)
    PROVE  /\ Valid(t) /\ req[p].pc = "idle"
           /\ req'[p].token = t /\ req'[p].claims = tokens[t].claims
           /\ \/ /\ req'[p].pc = "verify"
                 /\ req'[p].old \in {FirstPass(tokens[t].claims), OwnPass(tokens[t].claims)}
              \/ req'[p].pc \in {"check", "find"} /\ tokens[t].claims.role = "admin"
<1> DEFINE r == req'[p]
<1>1. ASSUME NEW pc \in ReqPcs
      PROVE  /\ Admitted(t, pc) \in Request
             /\ Admitted(t, pc).pc = pc
             /\ Admitted(t, pc).token = t
             /\ Admitted(t, pc).claims = tokens[t].claims
  <2>1. Admitted(t, pc) = [IdleRequest EXCEPT !.pc = pc, !.token = t, !.claims = tokens[t].claims]
    BY DEF Admitted
  <2> QED BY <2>1, AdmittedTyped, ValuesTyped DEF Request
<1>2. ASSUME NEW old \in Passwords, EnterPassword(p, t, old)
      PROVE  /\ Valid(t) /\ req[p].pc = "idle" /\ r.token = t /\ r.claims = tokens[t].claims
             /\ r.pc = "verify" /\ r.old = old
             /\ old \in {FirstPass(tokens[t].claims), OwnPass(tokens[t].claims)}
  <2>1. r = [Admitted(t, "verify") EXCEPT !.old = old] /\ req[p].pc = "idle"
    BY <1>2 DEF EnterPassword, Begin, TypeOK
  <2> QED BY <1>1, <1>2, <2>1 DEF EnterPassword, ReqPcs, Request
<1>3. ASSUME NEW name \in Names, EnterCreateUser(p, t, name)
      PROVE  /\ Valid(t) /\ req[p].pc = "idle" /\ r.token = t /\ r.claims = tokens[t].claims
             /\ r.pc = "check" /\ tokens[t].claims.role = "admin"
  <2>1. r = [Admitted(t, "check") EXCEPT !.name = name] /\ req[p].pc = "idle"
    BY <1>3 DEF EnterCreateUser, Begin, TypeOK
  <2> QED BY <1>1, <1>3, <2>1 DEF EnterCreateUser, MayAdministrate, ReqPcs, Request
<1>4. ASSUME NEW i \in Ids, EnterDeleteUser(p, t, i)
      PROVE  /\ Valid(t) /\ req[p].pc = "idle" /\ r.token = t /\ r.claims = tokens[t].claims
             /\ r.pc = "find" /\ tokens[t].claims.role = "admin"
  <2>1. r = [Admitted(t, "find") EXCEPT !.target = i] /\ req[p].pc = "idle"
    BY <1>4 DEF EnterDeleteUser, Begin, TypeOK
  <2> QED BY <1>1, <1>4, <2>1 DEF EnterDeleteUser, MayAdministrate, ReqPcs, Request
<1> QED BY <1>2, <1>3, <1>4 DEF Enters

\* A request has the claims it was admitted with, from a row or from a token.
LEMMA ClaimsStep ==
    ASSUME TypeOK, [Next]_vars, NEW p \in Reqs, req'[p].pc # "idle"
    PROVE  \/ /\ req[p].pc # "idle"
              /\ req'[p].claims = req[p].claims /\ req'[p].token = req[p].token
           \/ /\ req[p].pc = "idle" /\ req'[p].pc = "session" /\ req'[p].token = 0
              /\ \E u \in users : req'[p].claims = ClaimsOf(u)
           \/ /\ req[p].pc = "idle"
              /\ \E t \in Tokens : Valid(t) /\ req'[p].token = t
                                   /\ req'[p].claims = tokens[t].claims
<1>1. CASE req'[p] = req[p] \/ req'[p] = IdleRequest
  BY <1>1, ValuesTyped
<1>2. ASSUME NEW u \in users, Login(p, u)
      PROVE  req'[p].pc = "session" /\ req'[p].token = 0 /\ req'[p].claims = ClaimsOf(u)
  BY <1>2, LoginStep
<1>3. ASSUME NEW t \in Tokens, Enters(p, t)
      PROVE  Valid(t) /\ req'[p].token = t /\ req'[p].claims = tokens[t].claims
  BY <1>3, EnterStep
<1>4. ASSUME VerifyOld(p) \/ CheckName(p) \/ FindUser(p), req'[p] # IdleRequest
      PROVE  /\ req[p].pc # "idle"
             /\ req'[p].claims = req[p].claims /\ req'[p].token = req[p].token
  BY <1>4 DEF VerifyOld, CheckName, FindUser, Done, At, TypeOK, Request
<1> QED BY <1>1, <1>2, <1>3, <1>4, RequestStep

\* A token is signed once, by CreateSession, and its claims stay.
LEMMA TokenStep ==
    ASSUME TypeOK, [Next]_vars, NEW t \in Tokens
    PROVE  \/ tokens'[t] = tokens[t]
           \/ tokens[t].state = "held" /\ Expire(t)
              /\ tokens'[t] = [tokens[t] EXCEPT !.state = "expired"]
           \/ /\ tokens[t].state = "none" /\ t = NewJTI
              /\ \E p \in Reqs : /\ CreateSession(p) /\ ForeignKey(req[p].claims.user)
                                 /\ \E state \in {"held", "lost"} :
                                       tokens'[t] = [claims |-> req[p].claims, state |-> state]
<1>1. ASSUME NEW p \in Reqs, CreateSession(p), tokens'[t] # tokens[t]
      PROVE  /\ tokens[t].state = "none" /\ t = NewJTI
             /\ ForeignKey(req[p].claims.user)
             /\ \E state \in {"held", "lost"} :
                   tokens'[t] = [claims |-> req[p].claims, state |-> state]
  <2>1. ForeignKey(req[p].claims.user)
    BY <1>1 DEF CreateSession
  <2>2. PICK state \in {"held", "lost"} :
          tokens' = [tokens EXCEPT ![NewJTI] = [claims |-> req[p].claims, state |-> state]]
    BY <1>1, <2>1 DEF CreateSession
  <2>3. t = NewJTI
    BY <1>1, <2>2, NewJTIIsUnused DEF CreateSession, TypeOK
  <2> QED BY <1>1, <2>1, <2>2, <2>3, NewJTIIsUnused DEF CreateSession, TypeOK
<1>2. ASSUME NEW k \in Tokens, Expire(k), tokens'[t] # tokens[t]
      PROVE  k = t /\ tokens[t].state = "held"
             /\ tokens'[t] = [tokens[t] EXCEPT !.state = "expired"]
  BY <1>2 DEF Expire, TypeOK
<1>3. ASSUME NEW p \in Reqs, NEW u \in users, Login(p, u)
      PROVE  tokens' = tokens
  BY <1>3 DEF Login
<1>4. ASSUME NEW p \in Reqs, NEW k \in Tokens, Enters(p, k)
      PROVE  tokens' = tokens
  BY <1>4 DEF Enters, EnterPassword, EnterCreateUser, EnterDeleteUser
<1>5. ASSUME NEW p \in Reqs, \/ VerifyOld(p) \/ UpdatePassword(p) \/ CheckName(p)
                             \/ InsertUser(p) \/ FindUser(p) \/ DeleteUserRow(p) \/ Abandon(p)
      PROVE  tokens' = tokens
  BY <1>5 DEF VerifyOld, UpdatePassword, CheckName, InsertUser, FindUser, DeleteUserRow, Abandon
<1>6. ASSUME NEW k \in Tokens, Logout(k)
      PROVE  tokens' = tokens
  BY <1>6 DEF Logout
<1>7. ASSUME Restart \/ UNCHANGED vars
      PROVE  tokens' = tokens
  BY <1>7 DEF Restart, vars
<1> QED BY <1>1, <1>2, <1>3, <1>4, <1>5, <1>6, <1>7 DEF Next, Continues

\* A row keeps its id, name and role; a new one has the next id, and is an admin's
\* only under the admin's name.
SameAccount(u, v) == u.id = v.id /\ u.name = v.name /\ u.role = v.role

LEMMA RowsStep ==
    ASSUME TypeOK, [Next]_vars
    PROVE  /\ nextId' \in {nextId, nextId + 1}
           /\ \A v \in users' : \/ \E u \in users : SameAccount(u, v)
                                \/ /\ v.id = nextId /\ nextId' = nextId + 1
                                   /\ v.role = "admin" => v.name = AdminName /\ Restart
           /\ \A u \in users : \/ \E v \in users' : SameAccount(u, v)
                               \/ \E p \in Reqs : DeleteUserRow(p) /\ req[p].target = u.id
<1> DEFINE Goal == /\ nextId' \in {nextId, nextId + 1}
                   /\ \A v \in users' : \/ \E u \in users : SameAccount(u, v)
                                        \/ /\ v.id = nextId /\ nextId' = nextId + 1
                                           /\ v.role = "admin" => v.name = AdminName /\ Restart
                   /\ \A u \in users :
                         \/ \E v \in users' : SameAccount(u, v)
                         \/ \E p \in Reqs : DeleteUserRow(p) /\ req[p].target = u.id
<1>1. ASSUME UNCHANGED <<users, nextId>>
      PROVE  Goal
  BY <1>1 DEF SameAccount
<1>2. ASSUME NEW p \in Reqs, NEW u \in users, Login(p, u)
      PROVE  Goal
  BY <1>1, <1>2 DEF Login
<1>3. ASSUME NEW p \in Reqs, NEW t \in Tokens, Enters(p, t)
      PROVE  Goal
  BY <1>1, <1>3 DEF Enters, EnterPassword, EnterCreateUser, EnterDeleteUser
<1>4. ASSUME NEW p \in Reqs, \/ CreateSession(p) \/ VerifyOld(p) \/ CheckName(p)
                             \/ FindUser(p) \/ Abandon(p)
      PROVE  Goal
  BY <1>1, <1>4 DEF CreateSession, VerifyOld, CheckName, FindUser, Abandon
<1>5. ASSUME NEW p \in Reqs, UpdatePassword(p)
      PROVE  Goal
  <2> DEFINE pass == OwnPass(req[p].claims)
             i == req[p].target
  <2>1. users' = {u \in users : u.id # i}
                    \cup {[u EXCEPT !.pass = pass] : u \in {v \in users : v.id = i}}
    BY <1>5 DEF UpdatePassword, RowToUpdate
  <2>2. nextId' = nextId
    BY <1>5 DEF UpdatePassword
  <2> HIDE DEF pass, i
  <2>3. ASSUME NEW u \in users
        PROVE  SameAccount(u, u) /\ SameAccount(u, [u EXCEPT !.pass = pass])
    BY DEF SameAccount, TypeOK, User
  <2>4. ASSUME NEW u \in users
        PROVE  \E v \in users' : SameAccount(u, v)
    BY <2>1, <2>3
  <2>5. ASSUME NEW v \in users'
        PROVE  \E u \in users : SameAccount(u, v)
    BY <2>1, <2>3
  <2> QED BY <2>2, <2>4, <2>5
<1>6. ASSUME NEW p \in Reqs, InsertUser(p)
      PROVE  Goal
  <2>1. CASE UNCHANGED <<users, nextId>>
    BY <1>1, <2>1
  <2>2. CASE /\ users' = users \cup {NewUser(req[p].name, "user", Password(nextId, 0))}
             /\ nextId' = nextId + 1
    BY <2>2 DEF NewUser, SameAccount
  <2> QED BY <1>6, <2>1, <2>2 DEF InsertUser, NewUser
<1>7. ASSUME NEW p \in Reqs, DeleteUserRow(p)
      PROVE  Goal
  BY <1>7 DEF DeleteUserRow, SameAccount
<1>8. ASSUME NEW t \in Tokens, Logout(t) \/ Expire(t)
      PROVE  Goal
  BY <1>1, <1>8 DEF Logout, Expire
<1>9. ASSUME Restart
      PROVE  Goal
  <2>1. CASE UNCHANGED <<users, nextId>>
    BY <1>1, <2>1
  <2>2. CASE /\ users' = users \cup {NewUser(AdminName, "admin", DefaultPass)}
             /\ nextId' = nextId + 1
    BY <1>9, <2>2 DEF NewUser, SameAccount
  <2> QED BY <1>9, <2>1, <2>2 DEF Restart
<1>10. CASE UNCHANGED vars
  BY <1>1, <1>10 DEF vars
<1> QED BY <1>2, <1>3, <1>4, <1>5, <1>6, <1>7, <1>8, <1>9, <1>10 DEF Next, Continues

----------------------------------------------------------------------------
(* Admission *)

SessionInv == SessionsAreSigned /\ IdleNamesNoToken /\ LoggedOutHaveNone

LEMMA SessionInit == Init => SessionInv
BY ValuesTyped DEF Init, SessionInv, SessionsAreSigned, IdleNamesNoToken, LoggedOutHaveNone

\* The rows of sessions come from CreateSession and go with their token's logout or
\* their account.
LEMMA SessionsStep ==
    ASSUME TypeOK, [Next]_vars
    PROVE  /\ \A s \in sessions' : \/ s \in sessions
                                   \/ tokens[s.jti].state = "none"
           /\ loggedOut' = loggedOut
              \/ \E t \in Tokens : /\ tokens[t].state = "held"
                                   /\ loggedOut' = loggedOut \cup {t}
                                   /\ sessions' = sessions \ SessionsOf(t)
<1> DEFINE Goal == /\ \A s \in sessions' : s \in sessions \/ tokens[s.jti].state = "none"
                   /\ loggedOut' = loggedOut
                      \/ \E t \in Tokens : /\ tokens[t].state = "held"
                                           /\ loggedOut' = loggedOut \cup {t}
                                           /\ sessions' = sessions \ SessionsOf(t)
<1>1. ASSUME sessions' \subseteq sessions, UNCHANGED loggedOut
      PROVE  Goal
  BY <1>1
<1>2. ASSUME NEW p \in Reqs, NEW u \in users, Login(p, u)
      PROVE  Goal
  BY <1>1, <1>2 DEF Login
<1>3. ASSUME NEW p \in Reqs, NEW t \in Tokens, Enters(p, t)
      PROVE  Goal
  BY <1>1, <1>3 DEF Enters, EnterPassword, EnterCreateUser, EnterDeleteUser
<1>4. ASSUME NEW p \in Reqs, CreateSession(p)
      PROVE  Goal
  <2>1. loggedOut' = loggedOut
    BY <1>4 DEF CreateSession
  <2>2. \A s \in sessions' : s \in sessions \/ s.jti = NewJTI
    BY <1>4 DEF CreateSession
  <2> QED BY <1>4, <2>1, <2>2, NewJTIIsUnused DEF CreateSession
<1>5. ASSUME NEW p \in Reqs, \/ VerifyOld(p) \/ UpdatePassword(p) \/ CheckName(p)
                             \/ InsertUser(p) \/ FindUser(p) \/ DeleteUserRow(p) \/ Abandon(p)
      PROVE  Goal
  BY <1>1, <1>5 DEF VerifyOld, UpdatePassword, CheckName, InsertUser, FindUser, DeleteUserRow,
                    Abandon
<1>6. ASSUME NEW t \in Tokens, Logout(t)
      PROVE  Goal
  BY <1>6 DEF Logout
<1>7. ASSUME NEW t \in Tokens, Expire(t)
      PROVE  Goal
  BY <1>1, <1>7 DEF Expire
<1>8. ASSUME Restart \/ UNCHANGED vars
      PROVE  Goal
  BY <1>1, <1>8 DEF Restart, vars
<1> QED BY <1>2, <1>3, <1>4, <1>5, <1>6, <1>7, <1>8 DEF Next, Continues

LEMMA SessionNext ==
    ASSUME TypeOK, SessionInv, [Next]_vars
    PROVE  SessionInv'
<1>1. SessionsAreSigned'
  BY TypesNext DEF SessionInv
<1>2. IdleNamesNoToken'
  <2> SUFFICES ASSUME NEW p \in Reqs, req'[p].pc = "idle"
               PROVE  req'[p].token = 0
    BY DEF IdleNamesNoToken
  <2>1. ASSUME NEW u \in users, Login(p, u)
        PROVE  req'[p].pc = "session"
    BY <2>1, LoginStep
  <2>2. ASSUME NEW t \in Tokens, Enters(p, t)
        PROVE  req'[p].pc # "idle"
    BY <2>2, EnterStep
  <2>3. ASSUME VerifyOld(p) \/ CheckName(p) \/ FindUser(p)
        PROVE  req'[p] = IdleRequest
    BY <2>3 DEF VerifyOld, CheckName, FindUser, Done, At, TypeOK, Request
  <2> QED BY <2>1, <2>2, <2>3, RequestStep, ValuesTyped DEF SessionInv, IdleNamesNoToken
<1>3. LoggedOutHaveNone'
  <2>1. \A t \in Tokens : tokens[t].state # "none" => tokens'[t].state # "none"
    BY TokenStep DEF TypeOK, Token
  <2>2. \A t \in Tokens : tokens[t].state # "none" /\ ~HasSession(t) => ~HasSession(t)'
    BY SessionsStep DEF HasSession
  <2>3. ASSUME NEW t \in Tokens, sessions' = sessions \ SessionsOf(t)
        PROVE  ~HasSession(t)'
    BY <2>3 DEF SessionsOf, HasSession
  <2>4. ASSUME NEW t \in loggedOut'
        PROVE  tokens'[t].state # "none" /\ ~HasSession(t)'
    <3>1. CASE t \in loggedOut
      BY <2>1, <2>2, <3>1 DEF SessionInv, LoggedOutHaveNone, TypeOK
    <3>2. CASE t \notin loggedOut
      BY <2>1, <2>3, <3>2, SessionsStep
    <3> QED BY <3>1, <3>2
  <2> QED BY <2>4 DEF LoggedOutHaveNone
<1> QED BY <1>1, <1>2, <1>3 DEF SessionInv

LEMMA SessionHolds == Spec => []SessionInv
BY SessionInit, SessionNext, AccountsTypes, PTL DEF Spec

LEMMA AdmissionStep ==
    ASSUME TypeOK, SessionInv, [Next]_vars
    PROVE  \A p \in Reqs : req[p].pc = "idle" /\ req'[p].token # 0 => ~Over(req'[p].token)
<1> SUFFICES ASSUME NEW p \in Reqs, req[p].pc = "idle", req'[p].token # 0
             PROVE  ~Over(req'[p].token)
  OBVIOUS
<1>1. req[p].token = 0
  BY DEF SessionInv, IdleNamesNoToken
<1>2. ASSUME NEW u \in users, Login(p, u)
      PROVE  req'[p].token = 0
  BY <1>2, LoginStep
<1>3. PICK t \in Tokens : Enters(p, t)
  BY <1>1, <1>2, RequestStep, ValuesTyped DEF VerifyOld, CheckName, FindUser
<1>4. req'[p].token = t /\ Valid(t)
  BY <1>3, EnterStep
<1>5. PICK s \in sessions : s.jti = t
  BY <1>4 DEF Valid, HasSession
<1>6. HasId(tokens[t].claims.user)
  BY <1>5 DEF SessionInv, SessionsAreSigned, TypeOK, TablesAreKeyed, HasId
<1>7. t \notin loggedOut
  BY <1>5 DEF SessionInv, LoggedOutHaveNone, HasSession
<1> QED BY <1>4, <1>6, <1>7 DEF Over

\* No handler starts for a token that was logged out or whose account is deleted.
THEOREM NothingStartsWhenOverHolds == Spec => NothingStartsWhenOver
<1>1. TypeOK /\ SessionInv /\ [Next]_vars
      => [\A p \in Reqs : req[p].pc = "idle" /\ req'[p].token # 0 => ~Over(req'[p].token)]_vars
  BY AdmissionStep
<1> QED BY <1>1, AccountsTypes, SessionHolds, PTL DEF Spec, NothingStartsWhenOver

----------------------------------------------------------------------------
(* Claims *)

ClaimsInv == ClaimsAreGenuine /\ AdminsAreNamedAdmin

LEMMA ClaimsInit == Init => ClaimsInv
BY ValuesTyped DEF Init, ClaimsInv, ClaimsAreGenuine, AdminsAreNamedAdmin

\* An id is given once: genuine claims stay genuine.
LEMMA GenuineStays ==
    ASSUME TypeOK, [Next]_vars, NEW c \in Claims, Genuine(c)
    PROVE  Genuine(c)'
<1>1. c.user \in 1..nextId'-1 /\ c.user # nextId
  BY RowsStep DEF Genuine, TypeOK, Claims
<1>2. ASSUME NEW v \in users', v.id = c.user
      PROVE  v.name = c.name /\ v.role = c.role
  BY <1>1, <1>2, RowsStep DEF Genuine, SameAccount
<1> QED BY <1>1, <1>2 DEF Genuine

LEMMA ClaimsNext ==
    ASSUME TypeOK, ClaimsInv, [Next]_vars
    PROVE  ClaimsInv'
<1>1. ASSUME NEW u \in users
      PROVE  ClaimsOf(u) \in Claims /\ Genuine(ClaimsOf(u))
  <2>1. u \in User /\ \A v \in users : v.id = u.id => v = u
    BY DEF TypeOK, TablesAreKeyed
  <2>2. u.id \in 1..nextId-1
    BY BoundsAssumption DEF TypeOK, TablesAreKeyed, User, Ids
  <2>3. ClaimsOf(u) \in Claims
    BY <2>1, ClaimsOfTyped
  <2> QED BY <2>1, <2>2, <2>3 DEF Genuine, ClaimsOf, ClaimsInv, AdminsAreNamedAdmin
<1>2. ASSUME NEW p \in Reqs
      PROVE  req[p].claims \in Claims /\ (req[p].pc # "idle" => Genuine(req[p].claims))
  BY DEF TypeOK, Request, ClaimsInv, ClaimsAreGenuine
<1>3. ASSUME NEW t \in Tokens
      PROVE  tokens[t].claims \in Claims /\ (tokens[t].state # "none" => Genuine(tokens[t].claims))
  BY DEF TypeOK, Token, ClaimsInv, ClaimsAreGenuine
<1>4. ASSUME NEW p \in Reqs, req'[p].pc # "idle"
      PROVE  Genuine(req[p].claims)'
  <2>1. \E c \in Claims : req'[p].claims = c /\ Genuine(c)
    BY <1>1, <1>2, <1>3, <1>4, ClaimsStep DEF Valid
  <2> QED BY <2>1, GenuineStays DEF Genuine
<1>5. ASSUME NEW t \in Tokens, tokens'[t].state # "none"
      PROVE  Genuine(tokens[t].claims)'
  <2>1. \E c \in Claims : tokens'[t].claims = c /\ Genuine(c)
    <3>1. CASE tokens'[t] = tokens[t]
      BY <1>3, <1>5, <3>1
    <3>2. CASE tokens[t].state = "held" /\ tokens'[t] = [tokens[t] EXCEPT !.state = "expired"]
      BY <1>3, <3>2 DEF TypeOK, Token
    <3>3. ASSUME NEW p \in Reqs, CreateSession(p), NEW state,
                 tokens'[t] = [claims |-> req[p].claims, state |-> state]
          PROVE  <2>1
      BY <1>2, <3>3 DEF CreateSession
    <3> QED BY <3>1, <3>2, <3>3, TokenStep
  <2> QED BY <2>1, GenuineStays DEF Genuine
<1>6. AdminsAreNamedAdmin'
  BY RowsStep DEF ClaimsInv, AdminsAreNamedAdmin, SameAccount
<1> QED BY <1>4, <1>5, <1>6 DEF ClaimsInv, ClaimsAreGenuine

LEMMA ClaimsHold == Spec => []ClaimsInv
BY ClaimsInit, ClaimsNext, AccountsTypes, PTL DEF Spec

----------------------------------------------------------------------------
(* The sessions of held tokens *)

LEMMA HeldNext ==
    ASSUME TypeOK, SessionInv, ClaimsInv, HeldTokensWork, [Next]_vars
    PROVE  HeldTokensWork'
<1> SUFFICES ASSUME NEW t \in Tokens, tokens'[t].state = "held", ~Over(t)'
             PROVE  HasSession(t)'
  BY DEF HeldTokensWork
<1>1. CASE tokens[t].state = "held" /\ tokens'[t].claims = tokens[t].claims
  <2> DEFINE i == tokens[t].claims.user
  <2>1. i \in 1..nextId-1 /\ i \in 1..nextId'-1
    BY <1>1, RowsStep DEF ClaimsInv, ClaimsAreGenuine, Genuine, TypeOK
  <2>2. \E v \in users' : v.id = i
    BY <1>1, <2>1 DEF Over, HasId
  <2>3. \E u \in users : u.id = i
    BY <2>1, <2>2, RowsStep DEF SameAccount, TypeOK
  <2>4. t \notin loggedOut /\ t \notin loggedOut'
    BY SessionsStep DEF Over
  <2>5. PICK s \in sessions : s.jti = t
    BY <1>1, <2>3, <2>4 DEF HeldTokensWork, Over, HasId, HasSession
  <2>6. s.user = i
    BY <2>5 DEF SessionInv, SessionsAreSigned
  <2>7. s \in sessions'
    <3>1. ASSUME NEW p \in Reqs, NEW u \in users, Login(p, u)
          PROVE  sessions' = sessions
      BY <3>1 DEF Login
    <3>2. ASSUME NEW p \in Reqs, NEW k \in Tokens, Enters(p, k)
          PROVE  sessions' = sessions
      BY <3>2 DEF Enters, EnterPassword, EnterCreateUser, EnterDeleteUser
    <3>3. ASSUME NEW p \in Reqs, \/ CreateSession(p) \/ VerifyOld(p) \/ UpdatePassword(p)
                                 \/ CheckName(p) \/ InsertUser(p) \/ FindUser(p) \/ Abandon(p)
          PROVE  sessions \subseteq sessions'
      BY <3>3 DEF CreateSession, VerifyOld, UpdatePassword, CheckName, InsertUser, FindUser,
                  Abandon
    <3>4. ASSUME NEW p \in Reqs, DeleteUserRow(p)
          PROVE  s \in sessions'
      BY <2>2, <2>6, <3>4 DEF DeleteUserRow
    <3>5. ASSUME NEW k \in Tokens, Logout(k)
          PROVE  s \in sessions'
      BY <2>4, <2>5, <3>5 DEF Logout, SessionsOf
    <3>6. ASSUME NEW k \in Tokens, Expire(k)
          PROVE  sessions' = sessions
      BY <3>6 DEF Expire
    <3>7. ASSUME Restart \/ UNCHANGED vars
          PROVE  sessions' = sessions
      BY <3>7 DEF Restart, vars
    <3> QED BY <3>1, <3>2, <3>3, <3>4, <3>5, <3>6, <3>7 DEF Next, Continues
  <2> QED BY <2>5, <2>7 DEF HasSession
<1>2. ASSUME NEW p \in Reqs, CreateSession(p), ForeignKey(req[p].claims.user), t = NewJTI
      PROVE  HasSession(t)'
  <2>1. [jti |-> t, user |-> req[p].claims.user] \in sessions'
    BY <1>2 DEF CreateSession
  <2> QED BY <2>1 DEF HasSession
<1>3. tokens[t].state # "held" \/ tokens'[t].claims # tokens[t].claims
      => \E p \in Reqs : CreateSession(p) /\ ForeignKey(req[p].claims.user) /\ t = NewJTI
  BY TokenStep DEF TypeOK, Token
<1> QED BY <1>1, <1>2, <1>3

\* A token its client holds works until its own logout, its date or the end of its
\* account.
THEOREM HeldTokensWorkHolds == Spec => []HeldTokensWork
<1>1. Init => HeldTokensWork
  BY DEF Init, HeldTokensWork
<1> QED BY <1>1, HeldNext, AccountsTypes, SessionHolds, ClaimsHold, PTL DEF Spec

----------------------------------------------------------------------------
(* Passwords *)

PasswordInv ==
    /\ PasswordsAreOwn
    /\ \A p \in Reqs : VerifiesItself(req[p]) /\ UpdatesItself(req[p])

LEMMA PasswordInit == Init => PasswordInv
BY ValuesTyped DEF Init, PasswordInv, PasswordsAreOwn, VerifiesItself, UpdatesItself, IdleRequest

\* There is one admin at most.
LEMMA OneAdmin ==
    ASSUME TypeOK, ClaimsInv, NEW u \in users, NEW v \in users, u.role = "admin", v.role = "admin"
    PROVE  u = v
BY DEF TypeOK, TablesAreKeyed, ClaimsInv, AdminsAreNamedAdmin

LEMMA PasswordRows ==
    ASSUME TypeOK, ClaimsInv, PasswordInv, [Next]_vars
    PROVE  PasswordsAreOwn'
<1>1. ASSUME users' \subseteq users
      PROVE  PasswordsAreOwn'
  BY <1>1 DEF PasswordInv, PasswordsAreOwn
<1>2. ASSUME NEW p \in Reqs, NEW u \in users, Login(p, u)
      PROVE  PasswordsAreOwn'
  BY <1>1, <1>2 DEF Login
<1>3. ASSUME NEW p \in Reqs, NEW t \in Tokens, Enters(p, t)
      PROVE  PasswordsAreOwn'
  BY <1>1, <1>3 DEF Enters, EnterPassword, EnterCreateUser, EnterDeleteUser
<1>4. ASSUME NEW p \in Reqs, \/ CreateSession(p) \/ VerifyOld(p) \/ CheckName(p)
                             \/ FindUser(p) \/ DeleteUserRow(p) \/ Abandon(p)
      PROVE  PasswordsAreOwn'
  BY <1>1, <1>4 DEF CreateSession, VerifyOld, CheckName, FindUser, DeleteUserRow, Abandon
<1>5. ASSUME NEW p \in Reqs, UpdatePassword(p)
      PROVE  PasswordsAreOwn'
  <2> DEFINE pass == OwnPass(req[p].claims)
             i == req[p].target
  <2>1. users' = {u \in users : u.id # i}
                    \cup {[u EXCEPT !.pass = pass] : u \in {v \in users : v.id = i}}
    BY <1>5 DEF UpdatePassword, RowToUpdate
  <2>2. pass.of = i
    BY <1>5 DEF PasswordInv, UpdatesItself, UpdatePassword, OwnPass, Password
  <2> HIDE DEF pass, i
  <2>3. \A u \in users : LET w == [u EXCEPT !.pass = pass] IN w.id = u.id /\ w.pass = pass
    BY DEF TypeOK, User
  <2>4. ASSUME NEW v \in users'
        PROVE  v \in users \/ (v.id = i /\ v.pass = pass)
    <3>1. CASE \E u \in users : u.id = i /\ v = [u EXCEPT !.pass = pass]
      BY <2>3, <3>1
    <3> QED BY <2>1, <2>4, <3>1
  <2> QED BY <2>2, <2>4 DEF PasswordInv, PasswordsAreOwn
<1>6. ASSUME NEW p \in Reqs, InsertUser(p)
      PROVE  PasswordsAreOwn'
  <2>1. CASE users' = users \cup {NewUser(req[p].name, "user", Password(nextId, 0))}
    BY <2>1 DEF NewUser, Password, PasswordInv, PasswordsAreOwn
  <2> QED BY <1>1, <1>6, <2>1 DEF InsertUser, NewUser
<1>7. ASSUME NEW t \in Tokens, Logout(t) \/ Expire(t)
      PROVE  PasswordsAreOwn'
  BY <1>1, <1>7 DEF Logout, Expire
<1>8. ASSUME Restart
      PROVE  PasswordsAreOwn'
  <2>1. CASE users' = users \cup {NewUser(AdminName, "admin", DefaultPass)}
    BY <2>1 DEF NewUser, PasswordInv, PasswordsAreOwn
  <2> QED BY <1>1, <1>8, <2>1 DEF Restart
<1>9. CASE UNCHANGED vars
  BY <1>1, <1>9 DEF vars
<1> QED BY <1>2, <1>3, <1>4, <1>5, <1>6, <1>7, <1>8, <1>9 DEF Next, Continues

\* What verifyUser finds is the account of the claims.
LEMMA VerifyFindsItself ==
    ASSUME TypeOK, ClaimsInv, PasswordInv, NEW p \in Reqs, req[p].pc = "verify",
           NEW u \in users, u.pass = req[p].old
    PROVE  u.id = req[p].claims.user
<1> DEFINE c == req[p].claims
<1>1. c.user \in Ids /\ c \in Claims
  BY BoundsAssumption DEF ClaimsInv, ClaimsAreGenuine, Genuine, TypeOK, Request, Claims, Ids
<1>2. u.id \in Ids /\ (u.pass.of = u.id \/ (u.role = "admin" /\ u.pass = DefaultPass))
  BY DEF TypeOK, User, PasswordInv, PasswordsAreOwn
<1>3. req[p].old \in {FirstPass(c), OwnPass(c)}
  BY DEF PasswordInv, VerifiesItself
<1>4. CASE u.pass = DefaultPass /\ c.role = "admin"
  <2>1. u.role = "admin"
    BY <1>2, <1>4 DEF DefaultPass, Password, Ids
  <2> QED BY <1>4, <2>1 DEF PasswordInv, VerifiesItself
<1>5. CASE \E n \in {0, 1} : u.pass = Password(c.user, n)
  BY <1>1, <1>2, <1>5 DEF DefaultPass, Password, Ids
<1> QED BY <1>3, <1>4, <1>5 DEF FirstPass, OwnPass

LEMMA PasswordNext ==
    ASSUME TypeOK, SessionInv, ClaimsInv, PasswordInv, [Next]_vars
    PROVE  PasswordInv'
<1> SUFFICES ASSUME NEW p \in Reqs
             PROVE  (VerifiesItself(req[p]) /\ UpdatesItself(req[p]))'
  BY PasswordRows DEF PasswordInv
<1>1. CASE req'[p] = req[p]
  <2>1. ASSUME req[p].pc = "verify", req[p].claims.role = "admin", NEW v \in users',
               v.role = "admin"
        PROVE  v.id = req[p].claims.user
    <3>1. ~Restart
      BY <1>1, <2>1, ValuesTyped DEF Restart
    <3> QED BY <2>1, <3>1, RowsStep DEF PasswordInv, VerifiesItself, SameAccount
  <2> QED BY <1>1, <2>1 DEF PasswordInv, VerifiesItself, UpdatesItself
<1>2. CASE req'[p] = IdleRequest
  BY <1>2, ValuesTyped DEF VerifiesItself, UpdatesItself
<1>3. ASSUME NEW u \in users, Login(p, u)
      PROVE  req'[p].pc = "session"
  BY <1>3, LoginStep
<1>4. ASSUME NEW t \in Tokens, Enters(p, t)
      PROVE  (VerifiesItself(req[p]) /\ UpdatesItself(req[p]))'
  <2>1. Valid(t) /\ req'[p].claims = tokens[t].claims /\ req'[p].pc # "update"
        /\ (req'[p].pc = "verify" =>
               req'[p].old \in {FirstPass(tokens[t].claims), OwnPass(tokens[t].claims)})
    BY <1>4, EnterStep
  <2>2. PICK u \in users : u.id = tokens[t].claims.user
    BY <2>1 DEF Valid, HasSession, SessionInv, SessionsAreSigned, TypeOK, TablesAreKeyed
  <2>3. u.role = tokens[t].claims.role
    BY <2>1, <2>2 DEF ClaimsInv, ClaimsAreGenuine, Genuine, Valid
  <2>4. users' = users
    BY <1>4 DEF Enters, EnterPassword, EnterCreateUser, EnterDeleteUser
  <2> QED BY <2>1, <2>2, <2>3, <2>4, OneAdmin DEF VerifiesItself, UpdatesItself
<1>5. CASE VerifyOld(p)
  <2>1. CASE \E u \in users : /\ u.pass = req[p].old
                              /\ req' = [req EXCEPT ![p].pc = "update", ![p].target = u.id]
    <3>1. PICK u \in users : /\ u.pass = req[p].old
                             /\ req' = [req EXCEPT ![p].pc = "update", ![p].target = u.id]
      BY <2>1
    <3>2. /\ req'[p].pc = "update" /\ req'[p].target = u.id
          /\ req'[p].claims = req[p].claims
      BY <3>1 DEF TypeOK, Request
    <3> QED BY <1>5, <3>1, <3>2, VerifyFindsItself DEF VerifyOld, VerifiesItself, UpdatesItself
  <2> QED BY <1>2, <1>5, <2>1, DoneTyped DEF VerifyOld
<1>6. CASE CheckName(p) \/ FindUser(p)
  <2>1. req'[p].pc \in {"idle", "insert", "deleteRow"}
    BY <1>6, NextAccess
  <2> QED BY <2>1 DEF VerifiesItself, UpdatesItself
<1> QED BY <1>1, <1>2, <1>3, <1>4, <1>5, <1>6, RequestStep DEF VerifiesItself, UpdatesItself

\* An account's password is its own user's or the one it came with, although a
\* change verifies by name, writes by id and takes two steps.
THEOREM PasswordsAreOwnHolds == Spec => []PasswordsAreOwn
<1>1. PasswordInv => PasswordsAreOwn
  BY DEF PasswordInv
<1> QED BY <1>1, PasswordInit, PasswordNext, AccountsTypes, SessionHolds, ClaimsHold, PTL DEF Spec

----------------------------------------------------------------------------
(* Created accounts *)

CreatedInv ==
    /\ CreatedStands
    /\ \A p \in Reqs : DeletesWhatWasAsked(req[p])

\* What is promised: a new account only, and no more than before but for that.
LEMMA CreatedStep ==
    ASSUME TypeOK, [Next]_vars
    PROVE  \A c \in created' :
              \/ c \in created
              \/ /\ c.id = nextId /\ nextId' = nextId + 1
                 /\ \E u \in users' : u.id = c.id /\ u.name = c.name
<1> DEFINE Goal == \A c \in created' :
              \/ c \in created
              \/ /\ c.id = nextId /\ nextId' = nextId + 1
                 /\ \E u \in users' : u.id = c.id /\ u.name = c.name
<1>1. ASSUME created' \subseteq created
      PROVE  Goal
  BY <1>1
<1>2. ASSUME NEW p \in Reqs, NEW u \in users, Login(p, u)
      PROVE  Goal
  BY <1>1, <1>2 DEF Login
<1>3. ASSUME NEW p \in Reqs, NEW t \in Tokens, Enters(p, t)
      PROVE  Goal
  BY <1>1, <1>3 DEF Enters, EnterPassword, EnterCreateUser, EnterDeleteUser
<1>4. ASSUME NEW p \in Reqs, \/ CreateSession(p) \/ VerifyOld(p) \/ UpdatePassword(p)
                             \/ CheckName(p) \/ FindUser(p) \/ DeleteUserRow(p) \/ Abandon(p)
      PROVE  Goal
  BY <1>1, <1>4 DEF CreateSession, VerifyOld, UpdatePassword, CheckName, FindUser, DeleteUserRow,
                    Abandon
<1>5. ASSUME NEW p \in Reqs, InsertUser(p)
      PROVE  Goal
  <2> DEFINE n == NewUser(req[p].name, "user", Password(nextId, 0))
  <2>1. CASE /\ users' = users \cup {n} /\ nextId' = nextId + 1
             /\ created' = created \cup {[id |-> n.id, name |-> n.name]}
    <3>1. n.id = nextId
      BY DEF NewUser
    <3> HIDE DEF n
    <3> QED BY <2>1, <3>1
  <2> QED BY <1>1, <1>5, <2>1 DEF InsertUser
<1>6. ASSUME NEW t \in Tokens, Logout(t) \/ Expire(t)
      PROVE  Goal
  BY <1>1, <1>6 DEF Logout, Expire
<1>7. ASSUME Restart \/ UNCHANGED vars
      PROVE  Goal
  BY <1>1, <1>7 DEF Restart, vars
<1> QED BY <1>2, <1>3, <1>4, <1>5, <1>6, <1>7 DEF Next, Continues

LEMMA CreatedNext ==
    ASSUME TypeOK, CreatedInv, [Next]_vars
    PROVE  CreatedInv'
<1>1. CreatedStands'
  <2> SUFFICES ASSUME NEW c \in created, c \in created'
               PROVE  \E v \in users' : v.id = c.id /\ v.name = c.name
    BY CreatedStep DEF CreatedStands
  <2>1. PICK u \in users : u.id = c.id /\ u.name = c.name
    BY DEF CreatedInv, CreatedStands
  <2>2. ASSUME NEW p \in Reqs, DeleteUserRow(p), req[p].target = u.id
        PROVE  FALSE
    BY <2>1, <2>2 DEF DeleteUserRow, CreatedInv, DeletesWhatWasAsked
  <2> QED BY <2>1, <2>2, RowsStep DEF SameAccount
<1>2. ASSUME NEW p \in Reqs
      PROVE  DeletesWhatWasAsked(req[p])'
  <2>1. CASE req'[p] = req[p]
    <3>1. SUFFICES ASSUME req[p].pc = "deleteRow"
                   PROVE  req[p].target < nextId' /\ \A c \in created' : c.id # req[p].target
      BY <2>1 DEF DeletesWhatWasAsked
    <3>2. req[p].target < nextId /\ req[p].target \in Int /\ \A c \in created : c.id # req[p].target
      BY <3>1 DEF CreatedInv, DeletesWhatWasAsked, TypeOK, Request, Ids
    <3> QED BY <3>2, CreatedStep, RowsStep DEF TypeOK
  <2>2. CASE req'[p] = IdleRequest
    BY <2>2, ValuesTyped DEF DeletesWhatWasAsked
  <2>3. ASSUME NEW u \in users, Login(p, u)
        PROVE  req'[p].pc = "session"
    BY <2>3, LoginStep
  <2>4. ASSUME NEW t \in Tokens, Enters(p, t)
        PROVE  req'[p].pc # "deleteRow"
    BY <2>4, EnterStep
  <2>5. CASE VerifyOld(p) \/ CheckName(p)
    <3>1. req'[p].pc \in {"idle", "update", "insert"}
      BY <2>5, NextAccess
    <3> QED BY <3>1 DEF DeletesWhatWasAsked
  <2>6. CASE FindUser(p) /\ HasId(req[p].target)
    <3>1. /\ req' = At(p, "deleteRow") /\ nextId' = nextId
          /\ created' = {c \in created : c.id # req[p].target}
      BY <2>6 DEF FindUser
    <3>2. req'[p].target = req[p].target
      BY <3>1 DEF At, TypeOK, Request
    <3>3. req[p].target < nextId
      BY <2>6 DEF HasId, TypeOK, TablesAreKeyed
    <3> QED BY <3>1, <3>2, <3>3 DEF DeletesWhatWasAsked
  <2>7. CASE FindUser(p) /\ ~HasId(req[p].target)
    BY <2>2, <2>7, DoneTyped DEF FindUser
  <2> QED BY <2>1, <2>2, <2>3, <2>4, <2>5, <2>6, <2>7, RequestStep DEF DeletesWhatWasAsked
<1> QED BY <1>1, <1>2 DEF CreatedInv

\* An account answered 201 exists under its name until somebody asks to delete it.
THEOREM CreatedStandsHolds == Spec => []CreatedStands
<1>1. Init => CreatedInv
  BY ValuesTyped DEF Init, CreatedInv, CreatedStands, DeletesWhatWasAsked
<1>2. CreatedInv => CreatedStands
  BY DEF CreatedInv
<1> QED BY <1>1, <1>2, CreatedNext, AccountsTypes, PTL DEF Spec

----------------------------------------------------------------------------
(* The admin's name *)

AdminInv ==
    /\ AdminNameIsAdmins
    /\ \A p \in Reqs : CreatedByAdmin(req[p])

\* overtaken is set for good, and is set by the deletion of an admin under his own
\* createUser.
LEMMA OvertakenStep ==
    ASSUME TypeOK, [Next]_vars
    PROVE  \/ overtaken' = overtaken
           \/ \E p \in Reqs : /\ DeleteUserRow(p)
                              /\ overtaken' = (overtaken \/ \E q \in Reqs :
                                    req[q].pc \in {"check", "insert"}
                                    /\ req[q].claims.user = req[p].target)
<1>1. ASSUME NEW p \in Reqs, NEW u \in users, Login(p, u)
      PROVE  overtaken' = overtaken
  BY <1>1 DEF Login
<1>2. ASSUME NEW p \in Reqs, NEW t \in Tokens, Enters(p, t)
      PROVE  overtaken' = overtaken
  BY <1>2 DEF Enters, EnterPassword, EnterCreateUser, EnterDeleteUser
<1>3. ASSUME NEW p \in Reqs, \/ CreateSession(p) \/ VerifyOld(p) \/ UpdatePassword(p)
                             \/ CheckName(p) \/ InsertUser(p) \/ FindUser(p) \/ Abandon(p)
      PROVE  overtaken' = overtaken
  BY <1>3 DEF CreateSession, VerifyOld, UpdatePassword, CheckName, InsertUser, FindUser, Abandon
<1>4. ASSUME NEW p \in Reqs, DeleteUserRow(p)
      PROVE  overtaken' = (overtaken \/ \E q \in Reqs : req[q].pc \in {"check", "insert"}
                                                        /\ req[q].claims.user = req[p].target)
  BY <1>4 DEF DeleteUserRow
<1>5. ASSUME NEW t \in Tokens, Logout(t) \/ Expire(t)
      PROVE  overtaken' = overtaken
  BY <1>5 DEF Logout, Expire
<1>6. ASSUME Restart \/ UNCHANGED vars
      PROVE  overtaken' = overtaken
  BY <1>6 DEF Restart, vars
<1> QED BY <1>1, <1>2, <1>3, <1>4, <1>5, <1>6 DEF Next, Continues

LEMMA AdminNext ==
    ASSUME TypeOK, SessionInv, ClaimsInv, AdminInv, [Next]_vars
    PROVE  AdminInv'
<1>1. overtaken => overtaken'
  BY OvertakenStep
<1>2. ASSUME NEW p \in Reqs, req[p].pc \in {"check", "insert"}, ~overtaken'
      PROVE  \E v \in users' : v.id = req[p].claims.user /\ v.role = "admin"
  <2>1. PICK u \in users : u.id = req[p].claims.user /\ u.role = "admin"
    BY <1>1, <1>2 DEF AdminInv, CreatedByAdmin
  <2>2. ASSUME NEW q \in Reqs, DeleteUserRow(q), req[q].target = u.id
        PROVE  FALSE
    BY <1>2, <2>1, <2>2 DEF DeleteUserRow
  <2> QED BY <2>1, <2>2, RowsStep DEF SameAccount
<1>3. ASSUME NEW p \in Reqs, NEW t \in Tokens, Enters(p, t), req'[p].pc \in {"check", "insert"}
      PROVE  \E v \in users' : v.id = req'[p].claims.user /\ v.role = "admin"
  <2>1. Valid(t) /\ req'[p].claims = tokens[t].claims /\ tokens[t].claims.role = "admin"
    BY <1>3, EnterStep
  <2>2. PICK u \in users : u.id = tokens[t].claims.user
    BY <2>1 DEF Valid, HasSession, SessionInv, SessionsAreSigned, TypeOK, TablesAreKeyed
  <2>3. u.role = "admin"
    BY <2>1, <2>2 DEF ClaimsInv, ClaimsAreGenuine, Genuine, Valid
  <2>4. users' = users
    BY <1>3 DEF Enters, EnterPassword, EnterCreateUser, EnterDeleteUser
  <2> QED BY <2>1, <2>2, <2>3, <2>4
<1>4. ASSUME NEW p \in Reqs
      PROVE  CreatedByAdmin(req[p])'
  <2> SUFFICES ASSUME req'[p].pc \in {"check", "insert"}, ~overtaken'
               PROVE  \E v \in users' : v.id = req'[p].claims.user /\ v.role = "admin"
    BY DEF CreatedByAdmin
  <2>1. CASE req'[p] = req[p]
    BY <1>2, <2>1
  <2>2. CASE req'[p] = IdleRequest
    BY <2>2, ValuesTyped
  <2>3. ASSUME NEW u \in users, Login(p, u)
        PROVE  FALSE
    BY <2>3, LoginStep
  <2>4. CASE CheckName(p)
    <3>1. req[p].pc = "check" /\ req'[p].claims = req[p].claims
      BY <2>4, ClaimsStep DEF CheckName
    <3> QED BY <1>2, <3>1
  <2>5. CASE VerifyOld(p) \/ FindUser(p)
    BY <2>5, NextAccess
  <2> QED BY <1>3, <2>1, <2>2, <2>3, <2>4, <2>5, RequestStep
<1>5. AdminNameIsAdmins'
  <2> SUFFICES ASSUME NEW v \in users', v.name = AdminName, ~overtaken', v.role # "admin"
               PROVE  FALSE
    BY DEF AdminNameIsAdmins
  <2>1. \A u \in users : ~SameAccount(u, v)
    BY <1>1 DEF AdminInv, AdminNameIsAdmins, SameAccount
  <2>2. ~(users' \subseteq users)
    BY <2>1 DEF SameAccount
  <2>3. ASSUME NEW p \in Reqs, InsertUser(p)
        PROVE  FALSE
    <3>1. /\ req[p].pc = "insert" /\ ~Taken(req[p].name) /\ overtaken' = overtaken
          /\ users' = users \cup {NewUser(req[p].name, "user", Password(nextId, 0))}
      BY <2>2, <2>3 DEF InsertUser, NewUser
    <3>2. req[p].name = AdminName
      BY <2>1, <3>1 DEF NewUser, SameAccount
    <3>3. \E u \in users : u.role = "admin"
      BY <3>1 DEF AdminInv, CreatedByAdmin
    <3> QED BY <3>1, <3>2, <3>3 DEF ClaimsInv, AdminsAreNamedAdmin, Taken
  <2>4. ASSUME NEW p \in Reqs, UpdatePassword(p)
        PROVE  FALSE
    <3>1. nextId' = nextId
      BY <2>4 DEF UpdatePassword
    <3> QED BY <2>1, <3>1, RowsStep DEF TypeOK
  <2>5. CASE Restart
    <3>1. users' = users \cup {NewUser(AdminName, "admin", DefaultPass)}
      BY <2>2, <2>5 DEF Restart
    <3> QED BY <2>1, <3>1 DEF NewUser, SameAccount
  <2>6. ASSUME NEW p \in Reqs, NEW u \in users, Login(p, u)
        PROVE  FALSE
    BY <2>2, <2>6 DEF Login
  <2>7. ASSUME NEW p \in Reqs, NEW t \in Tokens, Enters(p, t)
        PROVE  FALSE
    BY <2>2, <2>7 DEF Enters, EnterPassword, EnterCreateUser, EnterDeleteUser
  <2>8. ASSUME NEW p \in Reqs, \/ CreateSession(p) \/ VerifyOld(p) \/ CheckName(p)
                               \/ FindUser(p) \/ DeleteUserRow(p) \/ Abandon(p)
        PROVE  FALSE
    BY <2>2, <2>8 DEF CreateSession, VerifyOld, CheckName, FindUser, DeleteUserRow, Abandon
  <2>9. ASSUME NEW t \in Tokens, Logout(t) \/ Expire(t)
        PROVE  FALSE
    BY <2>2, <2>9 DEF Logout, Expire
  <2>10. ~UNCHANGED vars
    BY <2>2 DEF vars
  <2> QED BY <2>3, <2>4, <2>5, <2>6, <2>7, <2>8, <2>9, <2>10 DEF Next, Continues
<1> QED BY <1>4, <1>5 DEF AdminInv

\* The name EnsureDefaultAdmin looks for is an admin's, unless an admin was deleted
\* under a createUser of his own.
THEOREM AdminNameIsAdminsHolds == Spec => []AdminNameIsAdmins
<1>1. Init => AdminInv
  BY ValuesTyped DEF Init, AdminInv, AdminNameIsAdmins, CreatedByAdmin
<1>2. AdminInv => AdminNameIsAdmins
  BY DEF AdminInv
<1> QED BY <1>1, <1>2, AdminNext, AccountsTypes, SessionHolds, ClaimsHold, PTL DEF Spec
=============================================================================
