-------------------------------- MODULE Worker --------------------------------
(***************************************************************************)
(* The worker (cmd/worker): handlers that change awg0.conf and peers.json  *)
(* one after the other under Server.mu, write by write, and the syncconf   *)
(* processes they start in the container and do not wait for.              *)
(***************************************************************************)
EXTENDS Integers, FiniteSets

CONSTANTS
    Names,          \* names of peers
    Handlers,       \* goroutines serving mutating requests
    Syncs,          \* bound: syncconf processes that run at the same time
    NumIPs,         \* addresses of the subnet beside the gateway's
    MaxKeys,        \* bound: key pairs ever generated
    MaxFaults,      \* bound: failures in a behaviour
    NamesReused     \* whether a name may be asked for again

ASSUME WorkerAssumption == /\ NumIPs \in Nat /\ MaxKeys \in Nat /\ MaxFaults \in Nat
                           /\ NamesReused \in BOOLEAN

NoOne == "no one"

ASSUME HandlersAssumption == NoOne \notin Handlers

VARIABLES
    conf,           \* awg0.conf
    json,           \* peers.json
    kernel,         \* the [Peer]s of the interface awg0
    nextKey,        \* generateKeyPair never returns the same pair twice
    mu,             \* Server.mu, the handler that holds it
    job,            \* where each handler is, and its locals
    syncs,          \* syncconf processes in the container
    faults,         \* failures so far
    undisturbed,    \* history: the last syncconf started ran alone, no failure since
    asked,          \* history: names a creation was asked for
    before,         \* history: the store when mu was taken
    last            \* history: the last reply

vars == <<conf, json, kernel, nextKey, mu, job, syncs, faults, undisturbed,
          asked, before, last>>

INSTANCE WorkerApi WITH PeerNames <- Names

----------------------------------------------------------------------------
(* State *)

\* A public key, labelled with the peer it was generated for.
Keys == [name : Names, serial : 1..MaxKeys]
IPs == 1..NumIPs

Block == [key : Keys, ip : IPs, frozen : BOOLEAN]   \* a [Peer] of awg0.conf
Entry == [name : Names, key : Keys, ip : IPs]       \* a Peer of peers.json

\* os.WriteFile truncates first: a write that goes wrong may leave nothing,
\* no [Interface] and no JSON either.
Conf == [whole : BOOLEAN, blocks : SUBSET Block]
Json == [whole : BOOLEAN, peers : SUBSET Entry]
EmptyConf == [whole |-> FALSE, blocks |-> {}]
EmptyJson == [whole |-> FALSE, peers |-> {}]

NoCall == Call("none", {})

\* peers is what the handler will save, todo the keys whose blocks it changes.
Job == [pc : {"idle", "append", "remove", "toggle", "save", "sync"},
        call : Calls \cup {NoCall}, peers : SUBSET Entry,
        add : SUBSET Block, todo : SUBSET Keys]

IdleJob == [pc |-> "idle", call |-> NoCall, peers |-> {}, add |-> {}, todo |-> {}]

Sync == [pc : {"none", "started", "read"}, saw : SUBSET Block]
NoSync == [pc |-> "none", saw |-> {}]

TypeOK ==
    /\ conf \in Conf
    /\ json \in Json
    /\ kernel \subseteq Block
    /\ nextKey \in 1..MaxKeys+1
    /\ mu \in Handlers \cup {NoOne}
    /\ job \in [Handlers -> Job]
    /\ \A h \in Handlers : job[h].pc # "idle" <=> mu = h
    /\ syncs \in [Syncs -> Sync]
    /\ faults \in 0..MaxFaults
    /\ undisturbed \in BOOLEAN
    /\ asked \subseteq Names
    /\ before \in Store
    /\ last \in [call : Calls \cup {NoCall}, reply : Reply \cup {"none"}]

Init ==
    /\ conf = [whole |-> TRUE, blocks |-> {}]
    /\ json = [whole |-> TRUE, peers |-> {}]
    /\ kernel = {}
    /\ nextKey = 1
    /\ mu = NoOne
    /\ job = [h \in Handlers |-> IdleJob]
    /\ syncs = [s \in Syncs |-> NoSync]
    /\ faults = 0
    /\ undisturbed = TRUE
    /\ asked = {}
    /\ before = EmptyStore
    /\ last = [call |-> NoCall, reply |-> "none"]

\* The two files as the backend sees them.
StateOf(n) ==
    LET mine == {b \in conf.blocks : b.key.name = n} IN
    IF mine = {} THEN "absent"
    ELSE IF \E b \in mine : ~b.frozen THEN "active" ELSE "frozen"

StoreNow == [conf |-> [n \in Names |-> StateOf(n)],
             json |-> {e.name : e \in json.peers},
             torn |-> (IF conf.whole THEN {} ELSE {"conf"})
                        \cup (IF json.whole THEN {} ELSE {"json"})]

----------------------------------------------------------------------------
(* Handlers *)

\* (A mutant: the mutex is not waited for.)
ServeUnlocked(h, j) ==
    /\ job[h].pc = "idle"
    /\ mu' = h
    /\ job' = [job EXCEPT ![h] = j]
    /\ before' = StoreNow
    /\ UNCHANGED last

\* Lock, and what the handler found out before its first write.
Serve(h, j) ==
    /\ mu = NoOne
    /\ mu' = h
    /\ job' = [job EXCEPT ![h] = j]
    /\ before' = StoreNow
    /\ UNCHANGED last

\* A handler that returns before its first write.
Refuse(c) ==
    /\ mu = NoOne
    /\ last' = [call |-> c, reply |-> "status"]
    /\ UNCHANGED <<mu, job, before>>

\* The reply, and the deferred Unlock.
Replies(h, reply) ==
    /\ mu' = NoOne
    /\ job' = [job EXCEPT ![h] = IdleJob]
    /\ before' = EmptyStore
    /\ last' = [call |-> job[h].call, reply |-> reply]

\* The step from pc to next of a handler.
Proceeds(h, pc, next) ==
    /\ job[h].pc = pc
    /\ job' = [job EXCEPT ![h].pc = next]
    /\ UNCHANGED <<kernel, nextKey, mu, syncs, faults, undisturbed, asked, before, last>>

CountFault == faults < MaxFaults /\ faults' = faults + 1

----------------------------------------------------------------------------
(* createPeer *)

\* (A mutant: addresses are looked for in peers.json alone.)
UsedInJson == {e.ip : e \in json.peers}

\* nextAvailableIP: a commented AllowedIPs line is not seen.
Used == {e.ip : e \in json.peers} \cup {b.ip : b \in {x \in conf.blocks : ~x.frozen}}

NextAvailableIP(ip) == ip \in IPs \ Used /\ \A j \in IPs \ Used : ip <= j

CreatePeer(h, n) ==
    LET c == Call("create", {n})
        key == [name |-> n, serial |-> nextKey]
    IN
    /\ nextKey <= MaxKeys
    /\ NamesReused \/ n \notin asked
    /\ asked' = asked \cup {n}
    /\ \/ /\ ~json.whole \/ n \in {e.name : e \in json.peers} \/ ~conf.whole \/ IPs \subseteq Used
          /\ Refuse(c)
          /\ UNCHANGED nextKey
       \/ /\ json.whole /\ n \notin {e.name : e \in json.peers} /\ conf.whole
          /\ \E ip \in IPs :
               /\ NextAvailableIP(ip)
               /\ Serve(h, [pc |-> "append", call |-> c, todo |-> {},
                            peers |-> json.peers \cup {[name |-> n, key |-> key, ip |-> ip]},
                            add |-> {[key |-> key, ip |-> ip, frozen |-> FALSE]}])
          /\ nextKey' = nextKey + 1
    /\ UNCHANGED <<conf, json, kernel, syncs, faults, undisturbed>>

\* appendPeerToConfig.
AppendBlock(h) ==
    /\ Proceeds(h, "append", "save")
    /\ conf' = [conf EXCEPT !.blocks = @ \cup job[h].add]
    /\ UNCHANGED json

----------------------------------------------------------------------------
(* removePeers *)

Matching(ns) == {e \in json.peers : e.name \in ns}

DeletePeers(h, ns) ==
    LET c == Call("delete", ns)
        found == Matching(ns)
    IN
    /\ IF ~json.whole \/ found = {}
         THEN Refuse(c)
         ELSE Serve(h, [pc |-> "remove", call |-> c, add |-> {},
                        peers |-> json.peers \ found, todo |-> {e.key : e \in found}])
    /\ UNCHANGED <<conf, json, kernel, nextKey, syncs, faults, undisturbed, asked>>

\* The key whose turn it is: the loop goes in the order of peers.json, oldest first.
IsNext(h, key) == key \in job[h].todo /\ \A k \in job[h].todo : key.serial <= k.serial

\* (A mutant: the loop ends with the first key.)
RemoveBlockOnce(h) ==
    /\ Proceeds(h, "remove", "save")
    /\ \E key \in job[h].todo :
          IsNext(h, key) /\ conf' = [conf EXCEPT !.blocks = {b \in @ : b.key # key}]
    /\ UNCHANGED json

\* removePeerFromConfig, once per key.
RemoveBlock(h) ==
    /\ job[h].pc = "remove"
    /\ \E key \in job[h].todo :
          /\ IsNext(h, key)
          /\ conf' = [conf EXCEPT !.blocks = {b \in @ : b.key # key}]
          /\ job' = [job EXCEPT ![h].todo = @ \ {key},
                                ![h].pc = IF job[h].todo = {key} THEN "save" ELSE "remove"]
    /\ UNCHANGED <<json, kernel, nextKey, mu, syncs, faults, undisturbed, asked, before, last>>

\* savePeers, of createPeer and removePeers.
SavePeers(h) ==
    /\ Proceeds(h, "save", "sync")
    /\ json' = [json EXCEPT !.peers = job[h].peers]
    /\ UNCHANGED conf

----------------------------------------------------------------------------
(* freezePeersAction *)

FreezePeers(h, op, ns) ==
    LET c == Call(op, ns)
        found == Matching(ns)
    IN
    /\ IF ~json.whole \/ found = {}
         THEN Refuse(c)
         ELSE Serve(h, [pc |-> "toggle", call |-> c, add |-> {}, peers |-> {},
                        todo |-> {e.key : e \in found}])
    /\ UNCHANGED <<conf, json, kernel, nextKey, syncs, faults, undisturbed, asked>>

Toggled(b, keys, frozen) == [b EXCEPT !.frozen = IF b.key \in keys THEN frozen ELSE @]

ToggledBlocks(h) ==
    {Toggled(b, job[h].todo, job[h].call.op = "freeze") : b \in conf.blocks}

\* setPeersFrozen: one write for all the blocks, none if none changes.
ToggleBlocks(h) ==
    /\ Proceeds(h, "toggle", "sync")
    /\ conf' = [conf EXCEPT !.blocks = ToggledBlocks(h)]
    /\ UNCHANGED json

\* Handler h is to write awg0.conf next.
Writing(h) == \/ job[h].pc \in {"append", "remove"}
              \/ job[h].pc = "toggle" /\ ToggledBlocks(h) # conf.blocks

----------------------------------------------------------------------------
(* syncAWG *)

\* A syncconf process begins, whatever others are running; beyond the bound Syncs
\* its start is put off.
StartsSync ==
    /\ \E s \in Syncs : /\ syncs[s].pc = "none"
                        /\ syncs' = [syncs EXCEPT ![s] = [pc |-> "started", saw |-> {}]]
    /\ undisturbed' = (\A s \in Syncs : syncs[s].pc = "none")

\* (A mutant: a deletion is not synced.)
SyncAndReplyUnlessDeleted(h) ==
    /\ job[h].pc = "sync"
    /\ IF job[h].call.op = "delete" THEN UNCHANGED <<syncs, undisturbed>> ELSE StartsSync
    /\ Replies(h, "ok")
    /\ UNCHANGED <<conf, json, kernel, nextKey, faults, asked>>

SyncAndReply(h) ==
    /\ job[h].pc = "sync"
    /\ StartsSync
    /\ Replies(h, "ok")
    /\ UNCHANGED <<conf, json, kernel, nextKey, faults, asked>>

\* POST /api/sync.
HandleSync ==
    /\ mu = NoOne
    /\ StartsSync
    /\ UNCHANGED <<conf, json, kernel, nextKey, mu, job, faults, asked, before, last>>

\* awg-quick strip reads the file, or finds it truncated by a write under way.
ReadConf(s) ==
    /\ syncs[s].pc = "started"
    /\ \E saw \in {conf.blocks} \cup
              (IF \E h \in Handlers : Writing(h) THEN {{}} ELSE {}) :
          syncs' = [syncs EXCEPT ![s] = [pc |-> "read", saw |-> saw]]
    /\ UNCHANGED <<conf, json, kernel, nextKey, mu, job, faults, undisturbed, asked, before, last>>

\* awg syncconf makes the interface what was read.
ApplyConf(s) ==
    /\ syncs[s].pc = "read"
    /\ kernel' = syncs[s].saw
    /\ syncs' = [syncs EXCEPT ![s] = NoSync]
    /\ UNCHANGED <<conf, json, nextKey, mu, job, faults, undisturbed, asked, before, last>>

----------------------------------------------------------------------------
(* Failures *)

\* What a write that did not succeed leaves of each file.
ConfAfterFailure(h) == IF Writing(h) THEN {conf, EmptyConf} ELSE {conf}
JsonAfterFailure(h) == IF job[h].pc = "save" THEN {json, EmptyJson} ELSE {json}

\* The handler failed before its syncconf was started, or, its exec, after.
SyncAfterFailure(h) == \/ undisturbed' = FALSE /\ UNCHANGED syncs
                       \/ job[h].pc = "sync" /\ StartsSync

\* A write or the exec fails and the handler answers 500; an exec that failed
\* for its 30 seconds may have started all the same.
HandlerFails(h) ==
    /\ mu = h
    /\ CountFault
    /\ conf' \in ConfAfterFailure(h)
    /\ json' \in JsonAfterFailure(h)
    /\ Replies(h, "status")
    /\ SyncAfterFailure(h)
    /\ UNCHANGED <<kernel, nextKey, asked>>

\* The worker is killed and started again; the container goes on.
Crash ==
    /\ mu # NoOne
    /\ CountFault
    /\ conf' \in ConfAfterFailure(mu)
    /\ json' \in JsonAfterFailure(mu)
    /\ Replies(mu, "error")
    /\ SyncAfterFailure(mu)
    /\ UNCHANGED <<kernel, nextKey, asked>>

\* The process dies or fails; its exit code is never read.
SyncFails(s) ==
    /\ syncs[s].pc # "none"
    /\ CountFault
    /\ syncs' = [syncs EXCEPT ![s] = NoSync]
    /\ undisturbed' = FALSE
    /\ UNCHANGED <<conf, json, kernel, nextKey, mu, job, asked, before, last>>

----------------------------------------------------------------------------
(* Specification *)

Begins(h) ==
    \/ \E n \in Names : CreatePeer(h, n)
    \/ \E ns \in SUBSET Names \ {{}} :
          DeletePeers(h, ns) \/ FreezePeers(h, "freeze", ns) \/ FreezePeers(h, "unfreeze", ns)

Works(h) == AppendBlock(h) \/ RemoveBlock(h) \/ SavePeers(h) \/ ToggleBlocks(h) \/ SyncAndReply(h)

Next ==
    \/ \E h \in Handlers : Begins(h) \/ Works(h) \/ HandlerFails(h)
    \/ HandleSync
    \/ \E s \in Syncs : ReadConf(s) \/ ApplyConf(s) \/ SyncFails(s)
    \/ Crash

Spec == Init /\ [][Next]_vars

----------------------------------------------------------------------------
(* Properties *)

Addresses(blocks) == {b \in blocks : ~b.frozen}

\* No address belongs to two peers: neither among the live blocks of awg0.conf and
\* the entries of peers.json, whatever either was left without, nor in the kernel.
UniqueIP ==
    /\ \A x, y \in Addresses(conf.blocks) \cup json.peers : x.ip = y.ip => x.key = y.key
    /\ \A x, y \in Addresses(kernel) : x.ip = y.ip => x.key = y.key

Quiet == mu = NoOne /\ \A s \in Syncs : syncs[s].pc = "none"

\* A syncconf that runs with no other beside it repairs the interface: once every
\* handler has answered and every syncconf has ended, the interface is what awg0.conf
\* says, whatever failed or overlapped before the last syncconf that ran alone, if
\* neither a failure nor an overlap came after it.  syncAWG waits for no syncconf.
KernelCurrent == Quiet /\ undisturbed => kernel = conf.blocks

\* cmd/worker/README.md:163, a sync applies the config: every handler has answered,
\* every syncconf has ended, and none failed.
SyncApplies == Quiet /\ faults = 0 => kernel = conf.blocks

\* Seen when the mutex is free, each call took the store from one state to
\* another as WorkerApi says it may, with the reply it says: what the panel's
\* model takes for granted, as long as no name is used twice.
Contract == INSTANCE WorkerStore
    WITH PeerNames <- Names, store <- IF mu = NoOne THEN StoreNow ELSE before

ImplementsContract == Contract!Spec
=============================================================================
