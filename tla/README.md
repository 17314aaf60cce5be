# multi-awg: a verification project in TLA+

multi-awg is a panel that sells AmneziaWG access: a **backend** (`cmd/server`, `internal/`)
keeps users and their configs in SQLite and talks over HTTP to a **worker** (`cmd/worker`)
that edits the VPN container's `awg0.conf`, keeps its own list of peers in `peers.json` and
has the container apply the changes. A peer therefore exists in four places, the `peers`
table, `awg0.conf`, `peers.json` and the kernel's interface, and no transaction spans two of
them. What this project checks and proves is how far the four agree, and what happens to
the agreement when handlers interleave, calls fail, callers give up, processes die and
counters restart.

## 1. Inventory

| Component (source) | State | Operations | Hard behaviour |
|---|---|---|---|
| config handlers (`internal/handler/user.go`) | none of their own; locals between two accesses | createConfig, deleteConfig; listConfigs, getConfig, userInfo read | five accesses of two stores without a lock; a rollback that may itself fail |
| admin handlers (`internal/handler/admin.go`) | as above | createUser, deleteUser, patchUser, syncWorker; listUsers, getUser read | act on a list of configs read earlier |
| service: cleanup (`internal/service`) | the snapshot of users of a pass | freezes the configs of the expired and flags the user | the snapshot ages while the worker is called; a skipped user must come back |
| service: traffic (`internal/service`, `internal/repo/peerrepo.go`) | totals and last counters in `peers` | GetStats, ListAll, one UPDATE per row | counters that restart, rows that go, passes cut short |
| tables (`internal/db`, `internal/repo`) | users, peers, sessions | single statements; PeerRepo.CreatePeer is a transaction | UNIQUE keys and ON DELETE CASCADE do work the handlers rely on |
| worker client (`internal/worker`) | none | one HTTP request per call, no timeout | the caller may leave while the worker still has the call |
| worker API (`cmd/worker/server.go`) | `Server.mu` | create, delete, freeze, unfreeze, sync under Lock; lists and statistics under RLock | a handler waiting for the mutex does not notice that its caller has gone |
| worker files (`cmd/worker/wg.go`) | `awg0.conf`, `peers.json` | append, remove and freeze a block; load and save the list; next free address | two files written one after the other and in place |
| readers of the worker (`cmd/worker/server.go`) | the read lock; what a handler has read so far | getStats, getPeerStats, getPeerConfig, getPeersSub, listPeers | wait for a docker exec, or for a request body, with the mutex in hand |
| container (`scripts/up.sh`, `syncAWG`) | the interface's peers and counters | syncconf, started and not waited for | two of them at once; the exit code is not read |
| sessions and accounts (`internal/handler/auth.go`, `middleware.go`, `internal/repo/sessionrepo.go`, `internal/auth`) | sessions, password hashes | login, logout, createUser, password | a session outlives what it was checked against |
| subscriptions (`internal/handler/sub.go`, `cmd/worker/mihomo.go`) | none | subConfig, subMihomo ask the worker once, subConf twice | read-only; the rest is layout of YAML |
| web interface (`web/src`) | what it last fetched | a client of the API | none modelled |

What makes each correct:

- *handlers*: an answered deletion is final; an answered creation is undone by nobody else's
  failure; MAX_CONFIGS is kept; without failures table and worker agree.
- *cleanup*: whoever is expired gets flagged in the end, whoever pays does not stay frozen,
  and the flag means what its comment says.
- *traffic*: nobody is charged for more than was moved, no total goes down, every byte of a
  config whose counter was not reset is counted in the end.
- *worker*: handlers exclude each other, no address is given to two peers, the interface
  becomes what `awg0.conf` says with the next sync that runs alone, and each call looks atomic
  to the backend; every call is answered, and what a reader takes from the two files is of one moment.
- *text of `awg0.conf`*: what others wrote there stays, the blocks and `peers.json` name the
  same peers, and a new peer gets the least host that is nobody's.
- *accounts*: nothing begins for a token that is over, other tokens stay good, a password
  change reaches its own account only, and there is a way back to an admin.

## 2. Modules

| Module | Models | Uses |
|---|---|---|
| `WorkerApi` | the contract of the worker's four mutating calls: store and reply with and without a failure | |
| `Panel` | handlers, cleanup, both tables, calls in flight, crashes | `WorkerApi` |
| `PanelHistory` | `Panel` with a history variable: have two of its processes met yet | `Panel` |
| `PanelProofs` | types, the limit, deletions: three theorems about `Panel` | `Panel`, TLAPS |
| `PanelRowProofs` | table and worker: two more theorems about `Panel` | `PanelProofs` |
| `PanelHistoryProofs` | one process after the other: a theorem about `PanelHistory` | `PanelHistory`, `PanelProofs` |
| `WorkerStore` | abstract specification: a store that serves one call at a time as `WorkerApi` says | `WorkerApi` |
| `Worker` | the worker write by write: mutex, files, syncconf processes, torn writes, crashes | `WorkerApi`, `WorkerStore` |
| `WorkerProofs` | types, addresses, the contract, the interface: four theorems about `Worker` | `Worker`, `WorkerStore`, TLAPS |
| `Traffic` | the collector, the traffic columns, the interface's counters | |
| `TrafficProofs` | three theorems about `Traffic` | `Traffic`, TLAPS |
| `WgConf` | the text of `awg0.conf` line by line: parsing, appending, removing, freezing, the next address, edits by hand | `WorkerApi`, `WorkerStore` |
| `WgConfProofs` | types, the lines of others, the two files, the contract, the next address: five theorems about `WgConf` | `WgConf`, `WorkerStore`, TLAPS |
| `WorkerCalls` | who waits for whom: the RWMutex, request bodies, docker execs, the backend's requests and its service | |
| `WorkerCallsProofs` | two theorems about `WorkerCalls` | `WorkerCalls`, TLAPS |
| `Accounts` | users, sessions and tokens: login, logout, createUser, deleteUser, password, the middlewares, restarts | |
| `AccountsProofs` | six theorems about `Accounts` | `Accounts`, TLAPS |
| `MCPanel`, `MCPanelHistory`, `MCWorker`, `MCWgConf`, `MCWorkerCalls`, `MCAccounts`, `MCTraffic` | small sets for TLC | |

### Panel: the backend

State: `users` (expiry as none, live, expired or gone, and the frozen flag), `rows` and `nextId`
(the peers table), `store` (both worker files), `req` (one record per request slot: the next
access and the locals), `svc` (the cleanup pass), `orphans` (calls whose caller has gone and
that the worker has not executed yet), `fate` (history: what the API promised of a peer).

One action is one database access or one worker call together with the code up to the next
one; the guard on `pc` is the place in the handler:

- createConfig: `CreateConfig`, `CheckLimit`, `InsertRow`, `CreateAnswered`, `RollBack`
- deleteConfig: `DeleteConfig`, `DeleteAnswered`, `DeleteRow`
- deleteUser: `DeleteUser`, `ListAll`, `DeleteAllAnswered`, `DeleteUserRow`
- patchUser: `PatchUser`, `SetExpiry`, `ListFrozen`, `UnfreezeAnswered`, `ClearFlag`
- cleanup: `StartCleanup`, `ListPeers`, `FreezeAnswered`, `SetFlag`
- environment: `Expire`, `OrphanRuns`, `Abandon` (client gone, or the database refuses),
  `SkipUser` (the database refuses the pass a listing or a flag, and it goes on with the next
  user), `Crash` (backend killed and restarted)

Abstractions. The read that opens a handler (GetByID, GetByUserAndName) is the action that
starts it: between its guard and itself nothing is decided. A worker call is one step, at a
point between request and reply: `Server.mu` is held from the first to the last line of the
handler. A call that fails leaves, as `WorkerApi` has it, a prefix of its writes, the last of
which may have emptied its file: os.WriteFile truncates first (`ConfLost`, `JsonLost`). The store
remembers such a file in `torn`; everything in it is gone, and creations are refused, as they find
no Address or no list. That the real worker, write by write, is such a store is what
`worker_contract` checks and `ContractHolds` proves, if no name is asked for twice. The panel sees
to that, as a peer's name carries the row's AUTOINCREMENT id: the invariant `Once` of
`PanelProofs`. `AckedKept` excepts what was in a file that is torn, and nothing else: the other
file, and the row, must still have the config.

### Worker: one API call from the inside

State: `conf` and `json` with a flag `whole` (os.WriteFile truncates first; a write that
failed midway leaves a file nothing can be parsed from), `kernel`, `mu`, `job` (each handler's
next write and its locals), `syncs` (syncconf processes: started, has read the file), `nextKey`
(key pairs are never generated twice), and histories: `asked`, `before`, `last` for the refinement,
and `undisturbed`, that the last syncconf was started while no other ran and no failure came after it.

`CreatePeer`, `DeletePeers`, `FreezePeers` are the handlers up to their first write, including
the early replies (`Refuse`); `AppendBlock`, `RemoveBlock`, `ToggleBlocks`, `SavePeers` are the
writes (a freeze that changes no line writes nothing, and then no file can be torn: `Writing`);
`SyncAndReply` starts a syncconf, answers and unlocks, and waits for no other syncconf: `Syncs` only
bounds how many run at once. `ReadConf` and `ApplyConf` are the
two halves of `awg syncconf awg0 <(awg-quick strip awg0)`, which run beside everything
else; `HandlerFails`, `Crash` and `SyncFails` may strike at every write and every exec.

`WorkerStore` is what the backend may believe. The mapping takes `store` to be the two files
while the mutex is free and what they were when it was taken (`before`) while it is held, so a
whole call is the one step that unlocks.

### WgConf: the same file as text

`Worker` takes `awg0.conf` for a set of blocks. `WgConf` shows that the line edits deserve it:
`file` is a sequence of lines of the kinds the parser tells apart, handlers are one step each,
and both modules implement `WorkerStore`. `BlockAt` is a block as `extractPeerBlocks` and
`removePeerFromConfig` see it, up to the next header; `CurPub` is the other notion of a block,
that of `setPeersFrozen`, in which a commented-out key begins a new owner and only `[Peer]`
resets it. An administrator writes the file before the first start and appends to it
(`EditByHand`): peers of his own, their two lines in either order, commented-out peers, with
or without a newline at the end. Addresses are two octets of two bits, so that the walk of
`nextAvailableIP` meets the end of an octet in a subnet of eight.

Comments that follow one of the worker's blocks belong to it and go with it; `OthersKept`
speaks of lines in force. `Kept(f, keep)` is what a file is after lines have been cut out of it:
its k-th line is the one at the k-th of the places that stay.

What is assumed of an administrator, in `TextsAssumption` and `EditsAssumption`: no key the
worker generated; the file he starts with may be any text, what he appends later is made of
whole sections, as `awg` itself demands of the lines in force, and an AllowedIPs line he
appends, commented out or not, has a `[Peer]` or a key of its own section above it. Without the last an
appended `#AllowedIPs` with nothing above it would be the worker's as soon as the file ends in
one of its blocks, and unfreezing that peer would let it in. Nothing is assumed of the order of
lines in a section. The server has the first host, as in the file delivered: `First` is kept for
it whatever Address says.

### WorkerCalls: waiting

State: what each caller still has to ask (`todo`), and for each call the worker's `handler`:
its operation, how it stands with `Server.mu`, and what it does next. The mutex is Go's RWMutex:
a writer queues, announces itself (from then on `RLock` blocks), and writes once the readers
have left; its unlock lets in all readers it kept waiting. Handlers differ in what they do with the
mutex in hand: `createPeer`, `freezePeersAction` and `getPeersSub` decode their bodies, the
statistics wait for a docker exec, `deletePeers` decodes first. A caller that gives up
(`Leave`) leaves its handler behind, lock and all. The service asks for one freeze per user it
cuts off (`Pass`, up to `MaxFreezes`), then for the statistics. `stale` is a history: a file was
written after the handler had begun to read. It is about files: the syncconf a mutation starts
runs on when the lock is free and may change the interface before or during the exec of a later
`getStats`. It takes no lock and nobody waits for it, so that it is in `Worker` and not here.

### Accounts

State: `users`, `sessions`, `tokens` (claims, and whether a client holds them), `req` (the next
access of each request) and histories. A token is admitted once, by its date and its
session row (`Valid`) and by the role in its claims (`MayAdministrate`), never by the users
table; every access after that is a step of its own: `CheckName` and `InsertUser`, `VerifyOld`
and `UpdatePassword`, `FindUser` and `DeleteUserRow`, `Login` and `CreateSession`. Passwords
are told apart by whose they are. `Restart` runs `EnsureDefaultAdmin`. The configs and worker
calls of `deleteUser` are Panel's.

### Traffic

State: the columns `total` and `lastRead`, the worker's list `known`, the interface's `counter`, the
collector's locals `found`, `reading`, `snap`, `todo`, and the histories `used` and `wiped`.
`GetStats`, `ListAll` and `UpdateTraffic` are the accesses of a pass; rows and peers come and go
between them; `Reset` sets any set of counters to 0 at any time (the interface built
anew, or a peer dropped and put back by two syncs); `UpdateFails` and `GivesUp` are the errors
and a restart. Received and sent are computed alike and written by one statement, so there is
one counter. The loop visits the rows in any order, the code by id: a superset.

## 3. Runs

All runs of one module share its constants; the bounds are named in the modules.

| Run | Question | Instance |
|---|---|---|
| `panel_race` | is an answered deletion final (`DeletedStaysGone`), an answered creation safe from others (`AckedKept`); how far can MAX_CONFIGS be overshot (`LimitSlack`); do table and worker agree while nothing failed (`TablesAgree`)? | 1 user, 3 names, two at work of two request slots and the cleanup; 3 rows ever and no failure, or 2 rows and 1 failure (`TwoRowsIfFailed`) |
| `panel_life` | as long as no two processes met and nothing failed, does everything tell one story (`SerialConsistent`); is whoever expired flagged in the end (`ExpiredIsFlagged`)? | a user and an admin, 1 name, 2 rows ever, limit 1, a request beside the cleanup, 1 failure, `HFairSpec` |
| `panel_frozen_status`, `panel_renewed_race`, `panel_deleted_user` | what comments and texts of the repository say, refuted | the smallest instance that shows it |
| `worker_files` | mutual exclusion (in `TypeOK`); no address twice (`UniqueIP`); does a syncconf that runs alone repair the interface, whatever failed or overlapped before (`KernelCurrent`)? | 2 names used again and again, 2 handlers, 2 syncconfs that may overlap, 2 keys, 2 addresses, 1 failure or crash, which may tear a file |
| `worker_contract` | is the worker the store the panel believes in (`ImplementsContract`)? | 2 names used once, 2 handlers, 1 failure or crash, which may tear its file; 1 syncconf, as it touches no file |
| `worker_overlap` | does a sync apply the file while nothing failed (`SyncApplies`)? Refuted | 2 names, 2 handlers, 2 syncconfs, no failure |
| `wg_conf` | on the text: are the lines of others kept (`OthersKept`), do the files agree (`FilesAgree`), is the least free host handed out (`LeastFreeHost`), is it the store (`ImplementsContract`)? | 2 names, 3 keys, subnets of 4, 8 and 16, 3 files, 2 edits by hand |
| `worker_calls` | is every call answered (`Answered`); is what is read of the two files of one moment (`ReadsOneState`)? | 2 requests and the service, 2 freezes in a pass, 1 caller gives up, `FairSpec` |
| `accounts` | does anything begin for a token that is over (`NothingStartsWhenOver`); do the others work (`HeldTokensWork`); `PasswordsAreOwn`, `CreatedStands`, `AdminNameIsAdmins` | "admin" and another name, 3 accounts and 2 tokens ever, 2 requests at once, 1 failure or restart |
| `traffic` | is anyone charged too much (`Charged`), does a total go down (`NeverTakenBack`), is everything counted in the end (`EverythingCounted`)? | 2 configs, 2 bytes each, 2 resets, 1 failure, `FairSpec` |

Why the bounds are enough. Races in the backend are between two requests, or a request and
the cleanup; a third adds only more of the overshoot `LimitSlack` counts, and the proof
of it is for any number. `MaxId = 3` lets the overshoot show, and a name be deleted and made
again beside another config; with a failure there are two rows, one to fail and one that must not
be touched, or one name twice; `MaxConfigs = 1` makes the limit bite at the second. One failure
suffices for each hazard listed: none needs two, since every handler gives up at its first. In
`Worker` a frozen peer, or a block whose entry a failure has lost, and a newcomer that must not get
its address need two addresses and two keys; the proof of `UniqueIP` is for any number. In
`Traffic` two bytes are the fewest with which a counter, reset after the first, comes back to its last reading with the second, and two resets let one
fall before and one inside a pass. `TablesAgree` is asked only while nothing failed: nothing in
the code repairs a disagreement a failure has left. `KernelCurrent` is asked after failures too,
once a later syncconf has run alone; two of them at once are the fewest that overlap. In `WgConf` the
subnet of four has one address to give, so that creations are refused; three keys let a
name be removed and made again beside another. In `WorkerCalls` a reader, a writer and
one more are enough for every way of waiting: behind a reader, behind an announced writer,
for the queue. In `Accounts` a third account lets a deleted name return while two requests
that knew the first owner are under way.

`CHECK_DEADLOCK FALSE` is in the configurations of Panel, Accounts and WgConf: when all users
are deleted, all ids or tokens given out, or every peer and key gone, nothing is left to
serve, which is no error. Worker, WorkerCalls and Traffic are checked for deadlock.

Fairness. `Panel!Fairness`: each handler that was started goes on (the Go scheduler; the worker
serves one handler after the other and answers or fails), and the ticker starts the next
cleanup pass. Nothing is assumed of new requests, crashes or failures. `Traffic!FairSpec`: the
collector's pass goes on and the next one starts. `WorkerCalls!Fairness`: a handler that can go on does (Go's
scheduler), a body that was announced comes or breaks off, and a docker exec ends; a
writer that queues is let in in the end (SF of `Announce`: sync.Mutex hands itself over to
whoever has waited a millisecond). All assume that a docker exec ends; the
worker puts no deadline on reading its output (hazard at `cmd/worker/server.go:580`), and
with one that hangs nothing behind its reader is ever answered.

### What disagrees with the repository's own words

- *A freeze the worker refused counts as done* (`panel_frozen_status`; `service.go:136`): the status
  is dropped and the client returns no error for it.
- *A subscription renewed during a pass is frozen by it* (`panel_renewed_race`; `service.go:144`).
- *A config created during deleteUser keeps a working peer* (`panel_deleted_user`; `admin.go:183`).
- *Two syncconfs at once may leave the interface behind the file* (`worker_overlap`; `server.go:545`).

Each is a run TLC refutes and a finding that quotes the line. Two more of the kind are listed as
hazards. MAX_CONFIGS is counted before it is used up (`user.go:195`), which `LimitSlack` bounds by
the number of requests beside the first. A config created while its owner is being frozen stays
active (`user.go:184`): the expiry is checked first, the worker asked last, and no pass looks at a
flagged user again. That is a second way to violate `FlagMeansFrozen`, without any failure: TLC finds
it in the instance of `panel_frozen_status` with `MaxFaults = 0` and `MaxActive = 2`.

## 4. Proofs

Proved for every value of the constants, from the assumptions the modules name (finite sets
of users and slots, bounds in Nat, a positive limit, no handler called "no one"), and from
the hypotheses `ContractHolds` and `LeastFreeHostHolds` name.

| Theorem | Says | Argument |
|---|---|---|
| `PanelProofs!TypeCorrect` | types, primary key, UNIQUE and foreign key | `TypeInv`: `TypeOK` and what a handler's locals mean at each `pc` |
| `PanelProofs!LimitHolds` | `LimitSlack` | `LimitInv`: rows of a user plus requests past the check are at most the limit plus slots minus one. `LimitSlack` alone is not inductive: it forgets those who have passed the check |
| `PanelProofs!DeletedHolds` | `DeletedStaysGone` | `GoneInv`: a create is sent at most once per id (`Once`), ids not given out are nowhere (`Fresh`), and a deleted one has no create left (`Gone`). A late create is the only thing that could bring a peer back |
| `PanelRowProofs!AckedKeptHolds` | `AckedKept`, torn files included: what a config loses was in a file some failed write has emptied | `RowInv`: the row of an id belongs to the user of whoever works on it, only the request that inserted a row creates or undoes it and it has not been answered 201 yet (`OneCreator`), and whatever is on its way to delete a peer, abandoned calls included, was noted before (`Holds`, `OrphansNoted`) |
| `PanelRowProofs!TablesAgreeHolds` | `TablesAgree` | `AgreeInv`: while nothing failed no call is abandoned and no creation undone, the row of a peer still to be created waits for it, and each row is in flight or on the worker |
| `PanelHistoryProofs!SerialConsistentHolds` | `SerialConsistent` | `SerialInv`: what holds in the middle of each process, seen by the one at work (`Consistent`): what it has read is still so (`Fetched`, `Snapshot`), and each peer is where its row says, but for what it is about to write (`Away`, `Shut`). The walk of the cleanup needs a least id in every set of ids, from the library's theorem that < is well-founded on Nat |
| `WorkerProofs!WorkerTypes` | types and mutual exclusion | inductive as it stands |
| `WorkerProofs!UniqueIPHolds` | `UniqueIP`, torn writes, crashes and reused names included | `FilesInv`: every frozen block, whose address `nextAvailableIP` does not see, is *backed* by an entry of `peers.json`, whose address it does see; blocks and entries of one key *agree*; what a handler has still to write fits what the files hold |
| `WorkerProofs!ContractHolds` | `ImplementsContract`, torn writes included, if no name is asked for twice | `ContractInv`: a file that is torn is empty, a name has one block and one entry at most, and every name in the files was asked for (`FilesSound`); and what a handler has still to write, seen from the files it found when it took the mutex, leads to its answer or, cut short, with or without the file it was writing, to a failure `WorkerApi` allows (`JobSound`). Every step but the one that answers, fails or crashes is a stutter; that one is a step of `WorkerStore` |
| `WorkerProofs!KernelCurrentHolds` | `KernelCurrent`, for any number of syncconfs and no hypothesis | `KernelInv`: while `undisturbed`, no two syncconfs are at work, and whenever the mutex is free the interface is what the file says if none is, and one that has read has read the file as it is now. A syncconf sets `undisturbed` if it begins alone and clears it if not; a failure clears it |
| `WgConfProofs!WgConfTypes` | types; no key pair twice | `IInv`, as the next three: what `createPeer` appends depends on the whole file |
| `WgConfProofs!OthersKeptHolds` | `OthersKept`, line by line and in order | `IInv` is `TypeOK` with `BlocksInv` and `HistoryInv`. `BlocksShaped`: a key of the worker stands between its header and the address `peers.json` has for it, and nothing else in its block is in force. `AllSheltered`: an address, commented out or not, that is not the worker's has a key or a `[Peer]` of its own section above it, or no key of the worker, so the key `setPeersFrozen` remembers is never that of the wrong peer. `HistoryInv`: the lines in force that are neither a header, a key nor an address of the worker are `byHand` |
| `WgConfProofs!FilesAgreeHolds` | `FilesAgree` | `IInv`, with `OneBlockEach`: keys of the file and of `peers.json` correspond one to one, which makes a bijection of blocks and entries |
| `WgConfProofs!ConfContractHolds` | `ImplementsContract` | `IInv`: what the backend sees of a name is decided by the line below its key (`StateAt`), which a creation adds, a deletion takes with the block and a freeze turns over; every call is a step of `WorkerStore`, an edit by hand a stutter |
| `WgConfProofs!LeastFreeHostHolds` | `LeastFreeHost`, an action property, for subnets of four addresses and more and texts with one AllowedIPs to a `[Peer]` | what an administrator has in force keeps that shape (`OneIPEach`), so `parsePeerBlock` finds each of his addresses and `Used` and `Taken` have the same hosts (`UsedIsTaken`); the walk of `nextAvailableIP` is, after k steps, at the k-th host with all below it used, or has stopped (`WalkFinds`) |
| `TrafficProofs!TrafficTypes` | types; the worker knows no peer that had no row | inductive as it stands |
| `TrafficProofs!ChargedHolds` | `Charged` | `Ledger`: total plus what a reading now would add is covered by what was moved, and so is total plus the reading a pass holds plus what has been added since |
| `TrafficProofs!NeverTakenBackHolds` | `NeverTakenBack` | the same invariant: the rows a pass works on are still what it listed |
| `AccountsProofs!AccountsTypes` | types, keys, the cascade of the sessions | inductive with the types of a request's locals |
| `AccountsProofs!NothingStartsWhenOverHolds` | `NothingStartsWhenOver`, an action property | `SessionInv`: a session row is of a signed token and of the account in its claims, an idle request names no token, and a token that was logged out has no row and gets none |
| `AccountsProofs!HeldTokensWorkHolds` | `HeldTokensWork` | `ClaimsInv`, with `SessionInv`: the claims of a token are genuine (an id that was given, and the name and role of its row as long as there is one), and only `EnsureDefaultAdmin` makes admins |
| `AccountsProofs!PasswordsAreOwnHolds` | `PasswordsAreOwn` | `PasswordInv`: who verifies a password can find no account but that of the claims, and who goes on to write has its id |
| `AccountsProofs!CreatedStandsHolds` | `CreatedStands` | `CreatedInv`: the account a deletion has found is promised to nobody any more |
| `AccountsProofs!AdminNameIsAdminsHolds` | `AdminNameIsAdmins` | `AdminInv`: an admin stands behind every `createUser` in progress, unless it was overtaken by the deletion of that admin |
| `WorkerCallsProofs!CallsTypes` | types; the mutex excludes | `HandlersGood`: where a handler stands with the mutex determines what it may do |
| `WorkerCallsProofs!ReadsOneStateHolds` | `ReadsOneState`, about the two files | the same invariant: a reader in the middle keeps every writer from filling a file |

The hypothesis of `ContractHolds` is that of `worker_contract`: names are not asked for twice,
because the panel names a peer after the row's AUTOINCREMENT id; a name that was given out
again could find a block its first owner's half-failed deletion left. `UniqueIPHolds` does
without it. `KernelCurrentHolds` says when the interface can be trusted, and `worker_overlap` that
answered syncs alone are not enough: of two that overlap, the older reading may be applied last.

The hypotheses of `LeastFreeHostHolds` hold in `wg_conf`. The walk of a smaller subnet begins
at or behind its end (hazard at `wg.go:194`), and of several AllowedIPs lines in a block
`parsePeerBlock` takes the last; `awg` takes them all.

The proofs about `WgConf` use no induction over lines, which the provers could not
instantiate. Where a line moves when others are cut out is said by an increasing enumeration of
the places that stay (`Enumerates`); that there is one, that it is what `Place` counts, and that the
recursive function of `Walk` has its values follow from the least number for which
it would not be so.

Every inductive invariant was run through TLC as an invariant of a small instance before it
was proved: `RowInv` and `AgreeInv` also with two users, `SerialInv` with two slots, two names
and three ids.

Only model-checked: liveness (`ExpiredIsFlagged`, `EverythingCounted`, `Answered`), which is out
of the prover's reach. Every invariant and every action property of the passing runs, and both
refinements, is a theorem.

## 5. Not modelled

- reads of one statement that change nothing (listUsers, listConfigs, userInfo, listPeers), and
  the text that is only laid out: client configs, the YAML of subscriptions (`mihomo.go`);
- subnets without a second host (/31, /32), IPv6, a server that does not have the first host,
  AllowedIPs with several addresses: see the hazards at `wg.go:194` to `wg.go:214`;
- an edit of `awg0.conf` that rewrites or deletes lines, or appends half a section;
- an edit of `awg0.conf` by hand while a handler is between reading and writing it;
- signatures, bcrypt and random numbers, which are taken at their word; the int64 overflow of a
  number of days (hazard at `admin.go:225`);
- of a write that failed, a file cut off in the middle: a torn file is an empty one here, while a
  disk that fills up may leave the first part, with the peers in it;
- a detached syncconf beside the readers: what the statistics of a peer are worth while the
  interface is behind the file (hazard at `server.go:97`);
- the web interface, routing beyond which middleware guards what, environment variables,
  sockets, `up.sh` beyond its reset of counters.

## 6. Plan

Done, in the order of importance: `WorkerApi`, `Panel`, `PanelProofs`; `WorkerStore`, `Worker`,
`WorkerProofs`; `Traffic`, `TrafficProofs`; `PanelHistory`, `Accounts`, `WorkerCalls`, `WgConf`;
`AccountsProofs`, `WorkerCallsProofs`, `PanelRowProofs`, `PanelHistoryProofs`; `WgConfProofs`.

Left: a walk that leaves a /31 or /32, once the code says what it should do there; the reads of
`subConf`, which asks the worker twice; edits by hand that change lines already there.
