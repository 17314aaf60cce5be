---------------------------- MODULE WorkerCalls ----------------------------
(***************************************************************************)
(* Who waits for whom between the backend and the worker.  Every handler   *)
(* of the worker, the reading ones included, runs under Server.mu, a       *)
(* sync.RWMutex (cmd/worker/server.go); some hold it while they wait for   *)
(* the rest of a request or for the output of a docker exec.  Its callers  *)
(* are the backend's handlers, one goroutine per request, and the service, *)
(* whose single goroutine freezes and collects in turn                     *)
(* (internal/service/service.go); none of them sets a timeout.             *)
(* What the calls do to the files is Worker's business.                    *)
(***************************************************************************)
EXTENDS Integers, FiniteSets, Sequences

CONSTANTS
    Requests,       \* requests the backend serves at the same time
    Service,        \* the goroutine of Service.Start
    MaxFreezes,     \* bound: users a cleanup pass has to freeze
    MaxFaults       \* bound: callers that give up on a call

Callers == Requests \cup {Service}

ASSUME CallersAssumption == IsFiniteSet(Requests) /\ Service \notin Requests
ASSUME BoundsAssumption == /\ MaxFaults \in Nat /\ MaxFreezes \in Nat
                           /\ Callers \cap Nat = {}

VARIABLES
    todo,           \* what each caller still has to ask the worker, call after call
    handler,        \* what the worker's handler of each call is doing
    faults          \* callers that gave up so far

vars == <<todo, handler, faults>>

\* A handler goes by its caller's name, or by a number once the caller is gone.
Handlers == Callers \cup 1..MaxFaults

----------------------------------------------------------------------------
(* State *)

\* The routes the backend calls: getPeerConfig, getPeersSub, getStats (and, locked
\* alike, getPeerStats and listPeers); createPeer, freezePeers and unfreezePeers, one
\* like the other as far as waiting goes; deletePeers, handleSync.
ReadOps == {"config", "sub", "stats"}
WriteOps == {"change", "delete", "sync"}
Ops == ReadOps \cup WriteOps

\* What a request asks the worker, call after call: subConf asks twice, subConfig
\* and subMihomo stop after the first.
RequestScripts == {<<op>> : op \in Ops \ {"sub"}} \cup {<<"sub", "config">>}

\* A pass of the service: cleanup, one freezePeers for each user it has to freeze,
\* then collectTraffic.
Pass(freezes) == [i \in 1..freezes+1 |-> IF i <= freezes THEN "change" ELSE "stats"]

ServiceScripts == {Pass(k) : k \in 0..MaxFreezes}

Scripts(c) == IF c = Service THEN ServiceScripts ELSE RequestScripts

\* Where a handler stands with Server.mu: a reader is "blocked" or "reading"; a
\* writer is "queued" for the inner mutex, "pending" once it has announced itself
\* to the readers, "writing" when the last of them has left.
LockStates == {"none", "blocked", "reading", "queued", "pending", "writing"}

\* What a handler does next; "filling": it has truncated the first of its files and
\* has not filled the last one.
Stages == {"idle", "body", "json", "conf", "exec",
           "edit", "filling", "sync", "reply"}

\* stale: a file has changed since the handler, a reader, read the first one.
HandlerState == [op : Ops, lock : LockStates, at : Stages, stale : BOOLEAN]

IdleHandler == [op |-> "config", lock |-> "none", at |-> "idle", stale |-> FALSE]

Idle(h) == handler[h].at = "idle"

\* The caller's call is with the worker.
Waits(c) == ~Idle(c)

\* A sync.RWMutex has one writer or readers; files are written by the writer.
Exclusion ==
    \A h, g \in Handlers :
        /\ handler[h].at = "filling" => handler[h].lock = "writing"
        /\ handler[h].lock = "writing" /\ g # h =>
                handler[g].lock \notin {"reading", "pending", "writing"}

TypeOK ==
    /\ \A c \in Callers :
        todo[c] \in {<<>>} \cup Scripts(c) \cup {Tail(s) : s \in Scripts(c)}
    /\ handler \in [Handlers -> HandlerState]
    /\ \A c \in Callers : Waits(c) => todo[c] # <<>> /\ handler[c].op = Head(todo[c])
    /\ faults \in 0..MaxFaults
    /\ \A i \in 1..MaxFaults : i > faults => Idle(i)
    /\ Exclusion

Init ==
    /\ todo = [c \in Callers |-> <<>>]
    /\ handler = [h \in Handlers |-> IdleHandler]
    /\ faults = 0

----------------------------------------------------------------------------
(* Server.mu *)

\* A writer has announced itself: RLock blocks.
Announced == \E h \in Handlers : handler[h].lock \in {"pending", "writing"}

\* RWMutex.RLock, as it leaves the caller.
RLock == IF Announced THEN "blocked" ELSE "reading"

\* Neither waiting for the mutex nor idle.
Runs(h) == ~Idle(h) /\ handler[h].lock \notin {"blocked", "queued", "pending"}

Step(h, new) == /\ handler' = [handler EXCEPT ![h] = new]
                /\ UNCHANGED <<todo, faults>>

\* RWMutex.Lock, first half: the inner mutex, and the announcement.
Announce(h) ==
    /\ handler[h].lock = "queued"
    /\ ~Announced
    /\ Step(h, [handler[h] EXCEPT !.lock = "pending"])

\* RWMutex.Lock, second half: the readers that were there have left.
Acquire(h) ==
    /\ handler[h].lock = "pending"
    /\ \A g \in Handlers : handler[g].lock # "reading"
    /\ Step(h, [handler[h] EXCEPT !.lock = "writing"])

\* The deferred RUnlock or Unlock: the latter lets in the readers it kept waiting.
Unlocked(h) ==
    [g \in Handlers |->
        IF g = h THEN IdleHandler
        ELSE IF handler[h].lock = "writing" /\ handler[g].lock = "blocked"
          THEN [handler[g] EXCEPT !.lock = "reading"]
          ELSE handler[g]]

\* (A mutant: the subscription is put together without RLock.)
StartUnlocked(op) ==
    CASE op = "sub"                    -> [lock |-> "none", at |-> "body"]
      [] op \in {"config", "stats"}    -> [lock |-> RLock, at |-> "json"]
      [] op = "delete"                 -> [lock |-> "none", at |-> "body"]
      [] op = "change"                 -> [lock |-> "queued", at |-> "body"]
      [] op = "sync"                   -> [lock |-> "queued", at |-> "sync"]

\* A call arrives.  The mutex is asked for first, but in deletePeers, which decodes
\* its body before.
Start(op) ==
    CASE op = "sub"                    -> [lock |-> RLock, at |-> "body"]
      [] op \in {"config", "stats"}    -> [lock |-> RLock, at |-> "json"]
      [] op = "delete"                 -> [lock |-> "none", at |-> "body"]
      [] op = "change"                 -> [lock |-> "queued", at |-> "body"]
      [] op = "sync"                   -> [lock |-> "queued", at |-> "sync"]

----------------------------------------------------------------------------
(* Callers *)

\* The first call of a script goes out and gets a goroutine at the worker.
Send(c, script) ==
    /\ todo' = [todo EXCEPT ![c] = script]
    /\ LET op == Head(script) IN
       handler' = [handler EXCEPT ![c] = [IdleHandler EXCEPT !.op = op,
                                            !.lock = Start(op).lock, !.at = Start(op).at]]
    /\ UNCHANGED faults

\* A request comes in at the backend, or the ticker fires.
Begin(c) ==
    /\ todo[c] = <<>>
    /\ \E script \in Scripts(c) : Send(c, script)

\* The next call of one that makes several.
GoOn(c) ==
    /\ todo[c] # <<>> /\ ~Waits(c)
    /\ Send(c, todo[c])

\* What is left to ask after an answer: an error ends a request, and so may the first
\* answer to a subscription, while the service logs it and goes on.
Rest(c) == {Tail(todo[c])} \cup (IF c = Service THEN {} ELSE {<<>>})

\* The caller gives up: its client is gone, or the backend stops and starts.  The
\* worker's handler does not notice.
Leave(c) ==
    /\ Waits(c)
    /\ faults < MaxFaults
    /\ faults' = faults + 1
    /\ todo' = [todo EXCEPT ![c] = <<>>]
    /\ handler' = [handler EXCEPT ![faults + 1] = handler[c], ![c] = IdleHandler]

----------------------------------------------------------------------------
(* Handlers *)

\* (A mutant: deletePeers decodes its body and forgets the mutex.)
DecodeBodyOnly(h) ==
    LET x == handler[h] IN
    /\ x.at = "body" /\ Runs(h)
    /\ \/ Step(h, [x EXCEPT !.at = "reply"])
       \/ x.op = "sub" /\ Step(h, [x EXCEPT !.at = "json"])
       \/ x.op \in {"delete", "change"} /\ Step(h, [x EXCEPT !.at = "edit"])

\* The body has come and is decoded; a broken one is answered 400.
DecodeBody(h) ==
    LET x == handler[h] IN
    /\ x.at = "body" /\ Runs(h)
    /\ \/ Step(h, [x EXCEPT !.at = "reply"])
       \/ x.op = "sub" /\ Step(h, [x EXCEPT !.at = "json"])
       \/ x.op = "delete" /\ Step(h, [x EXCEPT !.lock = "queued", !.at = "edit"])
       \/ x.op = "change" /\ Step(h, [x EXCEPT !.at = "edit"])

\* loadPeers; an unknown peer or a file that does not parse ends the call.
ReadJson(h) ==
    LET x == handler[h] IN
    /\ x.at = "json" /\ Runs(h)
    /\ \/ Step(h, [x EXCEPT !.at = "reply"])
       \/ x.op \in {"config", "sub"} /\ Step(h, [x EXCEPT !.at = "conf"])
       \/ x.op = "stats" /\ Step(h, [x EXCEPT !.at = "exec"])

\* parseWGConfig, extractServerPublicKey, extractAmneziaParams.
ReadConf(h) ==
    /\ handler[h].at = "conf" /\ Runs(h)
    /\ Step(h, [handler[h] EXCEPT !.at = "reply"])

\* (A mutant: an exec that failed is tried again.)
ExecTriedAgain(h) ==
    /\ handler[h].at = "exec"
    /\ \E next \in {"json", "reply"} : Step(h, [handler[h] EXCEPT !.at = next])

\* fetchStats: "awg show all dump" has ended, one way or the other.  The deadline
\* of execOutput does not end the read of its output.
ExecEnds(h) ==
    /\ handler[h].at = "exec"
    /\ Step(h, [handler[h] EXCEPT !.at = "reply"])

\* os.WriteFile truncates first, unless what was read refuses the call, or a freeze
\* finds nothing to change.
Edit(h) ==
    /\ handler[h].at = "edit" /\ Runs(h)
    /\ \/ Step(h, [handler[h] EXCEPT !.at = "reply"])
       \/ handler[h].op = "change" /\ Step(h, [handler[h] EXCEPT !.at = "sync"])
       \/ /\ handler' = [g \in Handlers |->
                IF g = h THEN [handler[h] EXCEPT !.at = "filling"]
                ELSE [handler[g] EXCEPT
                        !.stale = @ \/ handler[g].at \in {"conf", "exec"}]]
          /\ UNCHANGED <<todo, faults>>

\* The files are written, awg0.conf and peers.json or only the former; or a write
\* fails and so does the call.
Fill(h) ==
    /\ handler[h].at = "filling"
    /\ \E next \in {"sync", "reply"} : Step(h, [handler[h] EXCEPT !.at = next])

\* syncAWG: two calls to docker, under one deadline of 30 s.  The syncconf they start
\* runs on after the reply; it takes no lock and nobody waits for it (see Worker).
SyncAWG(h) ==
    /\ handler[h].at = "sync" /\ Runs(h)
    /\ Step(h, [handler[h] EXCEPT !.at = "reply"])

\* writeJSON and the deferred unlock; whoever still waits learns the answer.
Reply(h) ==
    /\ handler[h].at = "reply"
    /\ handler' = Unlocked(h)
    /\ IF h \in Callers THEN \E rest \in Rest(h) : todo' = [todo EXCEPT ![h] = rest]
                        ELSE UNCHANGED todo
    /\ UNCHANGED faults

----------------------------------------------------------------------------
(* Specification *)

Works(h) ==
    \/ DecodeBody(h) \/ ReadJson(h) \/ ReadConf(h) \/ ExecEnds(h)
    \/ Edit(h) \/ Fill(h) \/ SyncAWG(h) \/ Acquire(h) \/ Reply(h)

Next ==
    \/ \E c \in Callers : Begin(c) \/ GoOn(c) \/ Leave(c)
    \/ \E h \in Handlers : Works(h) \/ Announce(h)

Spec == Init /\ [][Next]_vars

\* The scheduler runs every goroutine that can go on; a body that was announced
\* comes or breaks off; docker execs end.  sync.Mutex hands itself over to whoever
\* has waited a millisecond, so that no writer queues for ever.  Nobody has to call.
Fairness ==
    /\ \A h \in Handlers : WF_vars(Works(h))
    /\ \A c \in Callers : SF_vars(Announce(c))

FairSpec == Spec /\ Fairness

----------------------------------------------------------------------------
(* Properties *)

Reads(h) == handler[h].op \in ReadOps /\ handler[h].at \in {"json", "conf"} /\ Runs(h)

\* A reading handler never meets a file that is being written, and what it takes from
\* peers.json and awg0.conf is of one time between two mutations; no file has changed
\* when its exec ends either.  This is about the two files: the interface an exec of
\* getStats dumps may be behind them, a detached syncconf changes it under no lock.
ReadsOneState ==
    \A h \in Handlers :
        /\ Reads(h) => \A g \in Handlers : handler[g].at # "filling"
        /\ ~handler[h].stale

\* Every call is answered unless its caller gives up, whatever the others do: no
\* reader waits for a writer that waits for it, nobody is passed over for ever, and
\* the collection of the traffic does not hold up the cleanup that follows it.
Answered ==
    \A c \in Callers : Waits(c) ~> ~Waits(c)
=============================================================================
