----------------------------- MODULE WorkerProofs -----------------------------
(***************************************************************************)
(* Proofs about Worker, for any number of peers, handlers, addresses,      *)
(* syncconf processes and failures: its types, that no address is given    *)
(* twice, that a syncconf that runs alone makes the interface what         *)
(* awg0.conf says, and that it implements its contract.  Torn writes and   *)
(* overlapping syncconf processes are part of all four; only the contract  *)
(* takes something for granted, that no name is asked for twice.           *)
(***************************************************************************)
EXTENDS Worker, TLAPS

----------------------------------------------------------------------------
(* Types *)

LEMMA NoOneIsNone ==
    ASSUME TypeOK, NEW h \in Handlers, job[h].pc # "idle"
    PROVE  mu = h
BY DEF TypeOK

LEMMA StoreNowTyped ==
    ASSUME TypeOK
    PROVE  StoreNow \in Store
<1>1. \A n \in Names : StateOf(n) \in BlockState
  BY DEF StateOf, BlockState
<1>2. {e.name : e \in json.peers} \in SUBSET Names
  BY DEF TypeOK, Json, Entry
<1> QED BY <1>1, <1>2 DEF StoreNow, Store

LEMMA EmptyStoreTyped == EmptyStore \in Store
BY DEF EmptyStore, Store, BlockState

\* A handler that takes the mutex, one that returns without it, one that is done.
LEMMA ServeTyped ==
    ASSUME TypeOK, NEW h \in Handlers, NEW j \in Job, j.pc # "idle", Serve(h, j)
    PROVE  /\ mu' \in Handlers \cup {NoOne}
           /\ job' \in [Handlers -> Job]
           /\ \A i \in Handlers : job'[i].pc # "idle" <=> mu' = i
           /\ before' \in Store
           /\ last' \in [call : Calls \cup {NoCall}, reply : Reply \cup {"none"}]
<1>1. mu = NoOne /\ mu' = h /\ job' = [job EXCEPT ![h] = j] /\ before' = StoreNow /\ last' = last
  BY DEF Serve
<1>2. \A i \in Handlers : i # h => job[i].pc = "idle"
  BY <1>1, HandlersAssumption DEF TypeOK
<1> QED BY <1>1, <1>2, StoreNowTyped DEF TypeOK

LEMMA RefuseTyped ==
    ASSUME TypeOK, NEW c \in Calls, Refuse(c)
    PROVE  last' \in [call : Calls \cup {NoCall}, reply : Reply \cup {"none"}]
BY DEF Refuse, Reply

LEMMA RepliesTyped ==
    ASSUME TypeOK, NEW h \in Handlers, mu = h, NEW r \in Reply, Replies(h, r)
    PROVE  /\ mu' \in Handlers \cup {NoOne}
           /\ job' \in [Handlers -> Job]
           /\ \A i \in Handlers : job'[i].pc # "idle" <=> mu' = i
           /\ before' \in Store
           /\ last' \in [call : Calls \cup {NoCall}, reply : Reply \cup {"none"}]
<1>1. /\ mu' = NoOne /\ job' = [job EXCEPT ![h] = IdleJob] /\ before' = EmptyStore
      /\ last' = [call |-> job[h].call, reply |-> r]
  BY DEF Replies
<1>2. IdleJob \in Job /\ IdleJob.pc = "idle"
  BY DEF IdleJob, Job, NoCall
<1>3. job[h].call \in Calls \cup {NoCall}
  BY DEF TypeOK, Job
<1>4. \A i \in Handlers : i # h => job[i].pc = "idle"
  BY DEF TypeOK
<1>5. \A i \in Handlers : job'[i].pc = "idle"
  BY <1>1, <1>2, <1>4 DEF TypeOK
<1>6. \A i \in Handlers : mu' # i
  BY <1>1, HandlersAssumption
<1> QED BY <1>1, <1>2, <1>3, <1>5, <1>6, EmptyStoreTyped DEF TypeOK

LEMMA ProceedsTyped ==
    ASSUME TypeOK, NEW h \in Handlers, NEW pc, pc # "idle", NEW next, next # "idle",
           next \in {"append", "remove", "toggle", "save", "sync"}, Proceeds(h, pc, next)
    PROVE  job' \in [Handlers -> Job] /\ \A i \in Handlers : job'[i].pc # "idle" <=> mu' = i
<1>1. [job[h] EXCEPT !.pc = next] \in Job
  BY DEF TypeOK, Job
<1>2. job' = [job EXCEPT ![h] = [job[h] EXCEPT !.pc = next]] /\ mu' = mu /\ job[h].pc = pc
  BY DEF Proceeds
<1>3. [job[h] EXCEPT !.pc = next].pc = next
  BY DEF TypeOK, Job
<1> QED BY <1>1, <1>2, <1>3 DEF TypeOK

LEMMA CallTyped ==
    ASSUME NEW op \in {"create", "delete", "freeze", "unfreeze"}, NEW ns \in SUBSET Names
    PROVE  Call(op, ns) \in Calls
BY DEF Call, Calls

\* A syncconf that starts is undisturbed if no other runs.
LEMMA Starting ==
    ASSUME StartsSync
    PROVE  /\ \E s \in Syncs : /\ syncs[s].pc = "none"
                              /\ syncs' = [syncs EXCEPT ![s] = [pc |-> "started", saw |-> {}]]
           /\ undisturbed' \in BOOLEAN
           /\ undisturbed' => \A t \in Syncs : syncs[t].pc = "none"
BY Zenon DEF StartsSync

LEMMA SyncStarts ==
    ASSUME TypeOK, StartsSync
    PROVE  syncs' \in [Syncs -> Sync] /\ undisturbed' \in BOOLEAN
BY Starting DEF TypeOK, Sync

LEMMA SyncAfter ==
    ASSUME TypeOK, NEW h, SyncAfterFailure(h)
    PROVE  /\ syncs' \in [Syncs -> Sync] /\ undisturbed' \in BOOLEAN
           /\ UNCHANGED syncs \/ StartsSync
BY SyncStarts DEF TypeOK, SyncAfterFailure

LEMMA MatchingTyped ==
    ASSUME TypeOK, NEW ns
    PROVE  Matching(ns) \in SUBSET Entry /\ {e.key : e \in Matching(ns)} \in SUBSET Keys
BY DEF TypeOK, Matching, Json, Entry

LEMMA AfterFailureTyped ==
    ASSUME TypeOK, NEW h
    PROVE  ConfAfterFailure(h) \subseteq Conf /\ JsonAfterFailure(h) \subseteq Json
<1>1. EmptyConf \in Conf /\ EmptyJson \in Json
  BY DEF EmptyConf, EmptyJson, Conf, Json
<1> QED BY <1>1 DEF TypeOK, ConfAfterFailure, JsonAfterFailure

LEMMA ToggledIs ==
    ASSUME NEW b \in Block, NEW keys, NEW frozen \in BOOLEAN
    PROVE  /\ Toggled(b, keys, frozen) \in Block
           /\ Toggled(b, keys, frozen).key = b.key
           /\ Toggled(b, keys, frozen).ip = b.ip
           /\ Toggled(b, keys, frozen).frozen = IF b.key \in keys THEN frozen ELSE b.frozen
BY DEF Toggled, Block

\* RemoveBlock, field by field.
RemovesKey(h, key) ==
    /\ conf' = [whole |-> conf.whole, blocks |-> {b \in conf.blocks : b.key # key}]
    /\ job' = [i \in Handlers |-> job'[i]]
    /\ \A i \in Handlers : i # h => job'[i] = job[i]
    /\ job'[h] = [pc |-> IF job[h].todo = {key} THEN "save" ELSE "remove",
                  call |-> job[h].call, peers |-> job[h].peers, add |-> job[h].add,
                  todo |-> job[h].todo \ {key}]

LEMMA RemoveStep ==
    ASSUME TypeOK, NEW h \in Handlers, RemoveBlock(h)
    PROVE  \E key \in job[h].todo : RemovesKey(h, key)
<1>1. PICK key \in job[h].todo :
         /\ conf' = [conf EXCEPT !.blocks = {b \in conf.blocks : b.key # key}]
         /\ job' = [job EXCEPT ![h] = [job[h] EXCEPT !.todo = job[h].todo \ {key},
                                 !.pc = IF job[h].todo = {key} THEN "save" ELSE "remove"]]
  BY DEF RemoveBlock, TypeOK, Job
<1>2. conf' = [whole |-> conf.whole, blocks |-> {b \in conf.blocks : b.key # key}]
  BY <1>1 DEF TypeOK, Conf
<1>3. /\ \A i \in Handlers : i # h => job'[i] = job[i]
      /\ job' = [i \in Handlers |-> job'[i]]
      /\ job'[h] = [job[h] EXCEPT !.todo = job[h].todo \ {key},
                                  !.pc = IF job[h].todo = {key} THEN "save" ELSE "remove"]
  BY <1>1 DEF TypeOK
<1>4. job[h] \in Job
  BY DEF TypeOK
<1>5. job'[h] = [pc |-> IF job[h].todo = {key} THEN "save" ELSE "remove",
                 call |-> job[h].call, peers |-> job[h].peers, add |-> job[h].add,
                 todo |-> job[h].todo \ {key}]
  BY <1>3, <1>4 DEF Job
<1> QED BY <1>2, <1>3, <1>5 DEF RemovesKey

LEMMA TypeInit == Init => TypeOK
BY WorkerAssumption, HandlersAssumption, EmptyStoreTyped
   DEF Init, TypeOK, Conf, Json, IdleJob, Job, NoCall, NoSync, Sync, Reply

LEMMA TypeNext == TypeOK /\ [Next]_vars => TypeOK'
<1> SUFFICES ASSUME TypeOK, [Next]_vars PROVE TypeOK'
  OBVIOUS
<1>1. ASSUME NEW h \in Handlers, NEW n \in Names, CreatePeer(h, n)
      PROVE  TypeOK'
  <2> DEFINE c == Call("create", {n})
             key == [name |-> n, serial |-> nextKey]
             j(ip) == [pc |-> "append", call |-> c, todo |-> {},
                       peers |-> json.peers \cup {[name |-> n, key |-> key, ip |-> ip]},
                       add |-> {[key |-> key, ip |-> ip, frozen |-> FALSE]}]
  <2>1. c \in Calls
    BY CallTyped
  <2>2. UNCHANGED <<conf, json, kernel, syncs, faults, undisturbed>> /\ asked' \subseteq Names
    BY <1>1 DEF CreatePeer, TypeOK
  <2>3. CASE Refuse(c) /\ UNCHANGED nextKey
    BY <2>1, <2>2, <2>3, RefuseTyped DEF Refuse, TypeOK
  <2>4. ASSUME NEW ip \in IPs, Serve(h, j(ip)), nextKey' = nextKey + 1
        PROVE  TypeOK'
    <3>1. key \in Keys /\ nextKey' \in 1..MaxKeys+1
      BY <1>1, <2>4, WorkerAssumption DEF CreatePeer, TypeOK, Keys
    <3>2. j(ip) \in Job /\ j(ip).pc # "idle"
      BY <2>1, <3>1 DEF Job, Entry, Block, TypeOK, Json
    <3> HIDE DEF j
    <3> QED BY <2>2, <2>4, <3>1, <3>2, ServeTyped DEF TypeOK
  <2> QED BY <1>1, <2>3, <2>4 DEF CreatePeer
<1>2. ASSUME NEW h \in Handlers, NEW ns \in SUBSET Names, DeletePeers(h, ns)
      PROVE  TypeOK'
  <2> DEFINE c == Call("delete", ns)
             j == [pc |-> "remove", call |-> c, add |-> {},
                   peers |-> json.peers \ Matching(ns), todo |-> {e.key : e \in Matching(ns)}]
  <2>1. c \in Calls
    BY CallTyped
  <2>2. /\ UNCHANGED <<conf, json, kernel, nextKey, syncs, faults, undisturbed, asked>>
        /\ Refuse(c) \/ Serve(h, j)
    BY <1>2 DEF DeletePeers
  <2>3. CASE Refuse(c)
    BY <2>1, <2>2, <2>3, RefuseTyped DEF Refuse, TypeOK
  <2>4. CASE Serve(h, j)
    <3>1. j \in Job /\ j.pc # "idle"
      BY <2>1, MatchingTyped DEF Job, TypeOK, Json
    <3> HIDE DEF j
    <3> QED BY <2>2, <2>4, <3>1, ServeTyped DEF TypeOK
  <2> QED BY <2>2, <2>3, <2>4
<1>3. ASSUME NEW h \in Handlers, NEW op \in {"freeze", "unfreeze"}, NEW ns \in SUBSET Names,
             FreezePeers(h, op, ns)
      PROVE  TypeOK'
  <2> DEFINE c == Call(op, ns)
             j == [pc |-> "toggle", call |-> c, add |-> {}, peers |-> {},
                   todo |-> {e.key : e \in Matching(ns)}]
  <2>1. c \in Calls
    BY CallTyped
  <2>2. /\ UNCHANGED <<conf, json, kernel, nextKey, syncs, faults, undisturbed, asked>>
        /\ Refuse(c) \/ Serve(h, j)
    BY <1>3 DEF FreezePeers
  <2>3. CASE Refuse(c)
    BY <2>1, <2>2, <2>3, RefuseTyped DEF Refuse, TypeOK
  <2>4. CASE Serve(h, j)
    <3>1. j \in Job /\ j.pc # "idle"
      BY <2>1, MatchingTyped DEF Job
    <3> HIDE DEF j
    <3> QED BY <2>2, <2>4, <3>1, ServeTyped DEF TypeOK
  <2> QED BY <2>2, <2>3, <2>4
<1>4. ASSUME NEW h \in Handlers, AppendBlock(h)
      PROVE  TypeOK'
  <2>1. conf' \in Conf
    BY <1>4 DEF AppendBlock, TypeOK, Conf, Job
  <2>2. job' \in [Handlers -> Job] /\ \A i \in Handlers : job'[i].pc # "idle" <=> mu' = i
    BY <1>4, ProceedsTyped DEF AppendBlock
  <2> QED BY <1>4, <2>1, <2>2 DEF AppendBlock, Proceeds, TypeOK
<1>5. ASSUME NEW h \in Handlers, RemoveBlock(h)
      PROVE  TypeOK'
  <2>1. PICK key \in job[h].todo : RemovesKey(h, key)
    BY <1>5, RemoveStep
  <2>2. conf' \in Conf
    BY <2>1 DEF RemovesKey, TypeOK, Conf
  <2>3. \A i \in Handlers : job'[i] \in Job /\ (job'[i].pc # "idle" <=> mu' = i)
    <3>1. mu' = mu /\ mu = h
      BY <1>5, NoOneIsNone DEF RemoveBlock
    <3>2. job'[h] \in Job /\ job'[h].pc # "idle"
      <4>1. job[h] \in Job
        BY DEF TypeOK
      <4> QED BY <2>1, <4>1 DEF RemovesKey, Job
    <3>3. \A i \in Handlers : i # h => job'[i] \in Job /\ job'[i].pc = "idle"
      BY <2>1, <3>1 DEF RemovesKey, TypeOK
    <3> QED BY <3>1, <3>2, <3>3
  <2>4. job' \in [Handlers -> Job]
    BY <2>1, <2>3 DEF RemovesKey
  <2> QED BY <1>5, <2>2, <2>3, <2>4 DEF RemoveBlock, TypeOK
<1>6. ASSUME NEW h \in Handlers, SavePeers(h)
      PROVE  TypeOK'
  <2>1. json' \in Json
    BY <1>6 DEF SavePeers, TypeOK, Json, Job
  <2>2. job' \in [Handlers -> Job] /\ \A i \in Handlers : job'[i].pc # "idle" <=> mu' = i
    BY <1>6, ProceedsTyped DEF SavePeers
  <2> QED BY <1>6, <2>1, <2>2 DEF SavePeers, Proceeds, TypeOK
<1>7. ASSUME NEW h \in Handlers, ToggleBlocks(h)
      PROVE  TypeOK'
  <2>1. conf' \in Conf
    <3> DEFINE new == {Toggled(b, job[h].todo, job[h].call.op = "freeze") : b \in conf.blocks}
    <3>1. new \subseteq Block
      <4> SUFFICES ASSUME NEW b \in conf.blocks
                   PROVE  Toggled(b, job[h].todo, job[h].call.op = "freeze") \in Block
        OBVIOUS
      <4>1. b \in Block /\ (job[h].call.op = "freeze") \in BOOLEAN
        BY DEF TypeOK, Conf
      <4> QED BY <4>1, ToggledIs
    <3>2. conf' = [conf EXCEPT !.blocks = new]
      BY <1>7 DEF ToggleBlocks, ToggledBlocks
    <3> HIDE DEF new
    <3> QED BY <3>1, <3>2 DEF TypeOK, Conf
  <2>2. job' \in [Handlers -> Job] /\ \A i \in Handlers : job'[i].pc # "idle" <=> mu' = i
    BY <1>7, ProceedsTyped DEF ToggleBlocks
  <2> QED BY <1>7, <2>1, <2>2 DEF ToggleBlocks, Proceeds, TypeOK
<1>8. ASSUME NEW h \in Handlers, SyncAndReply(h)
      PROVE  TypeOK'
  <2>1. mu = h
    BY <1>8, NoOneIsNone DEF SyncAndReply
  <2> QED BY <1>8, <2>1, SyncStarts, RepliesTyped DEF SyncAndReply, Reply, TypeOK
<1>9. ASSUME NEW h \in Handlers, HandlerFails(h)
      PROVE  TypeOK'
  <2>1. /\ conf' \in Conf /\ json' \in Json /\ syncs' \in [Syncs -> Sync]
        /\ faults' \in 0..MaxFaults /\ undisturbed' \in BOOLEAN
    BY <1>9, AfterFailureTyped, SyncAfter, WorkerAssumption DEF HandlerFails, CountFault, TypeOK
  <2> QED BY <1>9, <2>1, RepliesTyped DEF HandlerFails, Reply, TypeOK
<1>10. ASSUME Crash
       PROVE  TypeOK'
  <2>1. mu \in Handlers
    BY <1>10 DEF Crash, TypeOK
  <2>2. /\ conf' \in Conf /\ json' \in Json /\ syncs' \in [Syncs -> Sync]
        /\ faults' \in 0..MaxFaults /\ undisturbed' \in BOOLEAN
    BY <1>10, AfterFailureTyped, SyncAfter, WorkerAssumption DEF Crash, CountFault, TypeOK
  <2> QED BY <1>10, <2>1, <2>2, RepliesTyped DEF Crash, Reply, TypeOK
<1>11. ASSUME HandleSync
       PROVE  TypeOK'
  BY <1>11, SyncStarts DEF HandleSync, TypeOK
<1>12. ASSUME NEW s \in Syncs, ReadConf(s)
       PROVE  TypeOK'
  <2>1. syncs' \in [Syncs -> Sync]
    BY <1>12 DEF ReadConf, TypeOK, Conf, Sync
  <2> QED BY <1>12, <2>1 DEF ReadConf, TypeOK
<1>13. ASSUME NEW s \in Syncs, ApplyConf(s)
       PROVE  TypeOK'
  BY <1>13 DEF ApplyConf, TypeOK, Sync, NoSync
<1>14. ASSUME NEW s \in Syncs, SyncFails(s)
       PROVE  TypeOK'
  <2>1. faults' \in 0..MaxFaults
    BY <1>14, WorkerAssumption DEF SyncFails, CountFault, TypeOK
  <2>2. syncs' \in [Syncs -> Sync]
    BY <1>14 DEF SyncFails, TypeOK, Sync, NoSync
  <2> QED BY <1>14, <2>1, <2>2 DEF SyncFails, TypeOK
<1>15. CASE UNCHANGED vars
  BY <1>15 DEF vars, TypeOK
<1> QED BY <1>1, <1>2, <1>3, <1>4, <1>5, <1>6, <1>7, <1>8, <1>9, <1>10, <1>11, <1>12, <1>13,
           <1>14, <1>15
        DEF Next, Begins, Works

\* The worker's variables keep their types, and a handler is at work exactly
\* while it holds the mutex.
THEOREM WorkerTypes == Spec => []TypeOK
BY TypeInit, TypeNext, PTL DEF Spec

----------------------------------------------------------------------------
(* The files, taken together *)

\* Blocks and entries that give an address to no two keys.
Distinct(S) == \A x, y \in S : x.ip = y.ip => x.key = y.key

\* A block and an entry of one key have one address.
Agree(blocks, peers) == \A b \in blocks, e \in peers : b.key = e.key => b.ip = e.ip

\* A frozen block, whose address nextAvailableIP does not see, has an entry,
\* whose address it does see.
Backed(blocks, peers) ==
    \A b \in blocks : b.frozen => \E e \in peers : e.key = b.key /\ e.ip = b.ip

Good(blocks, peers) == /\ Distinct(Addresses(blocks) \cup peers)
                       /\ Agree(blocks, peers)
                       /\ Backed(blocks, peers)

\* Every key in use was generated.
Generated(S) == \A x \in S : x.key.serial < nextKey

\* What the handler has still to write fits what the files hold.
JobGood(j) ==
    /\ j.pc # "idle" => json.whole /\ Generated(j.add) /\ Generated(j.peers)
    /\ j.pc = "append" => /\ json.peers \subseteq j.peers
                          /\ \A b \in j.add : ~b.frozen
                          /\ Good(conf.blocks \cup j.add, j.peers)
    /\ j.pc = "remove" => /\ j.peers \subseteq json.peers
                          /\ Backed({b \in conf.blocks : b.key \notin j.todo}, j.peers)
    /\ j.pc = "toggle" => \A k \in j.todo : \E e \in json.peers : e.key = k
    /\ j.pc = "save" => Good(conf.blocks, j.peers)

FilesGood ==
    /\ Generated(conf.blocks) /\ Generated(json.peers)
    /\ Distinct(Addresses(conf.blocks) \cup json.peers)
    /\ json.whole => Good(conf.blocks, json.peers)

JobsGood == \A h \in Handlers : JobGood(job[h])

KernelGood == Distinct(Addresses(kernel)) /\ \A s \in Syncs : Distinct(Addresses(syncs[s].saw))

FilesInv == FilesGood /\ JobsGood /\ KernelGood

LEMMA FewerBlocks ==
    ASSUME NEW blocks, NEW peers, Good(blocks, peers), NEW fewer \in SUBSET blocks
    PROVE  Good(fewer, peers)
BY DEF Good, Distinct, Agree, Backed, Addresses

\* Fewer entries will do, if the frozen blocks keep theirs.
LEMMA FewerPeers ==
    ASSUME NEW blocks, NEW peers, Good(blocks, peers), NEW fewer \in SUBSET peers,
           Backed(blocks, fewer)
    PROVE  Good(blocks, fewer)
BY DEF Good, Distinct, Agree, Addresses

\* A handler that holds the mutex is the only one at work.
LEMMA OthersIdle ==
    ASSUME TypeOK', NEW h \in Handlers, mu' = h, JobGood(job[h])'
    PROVE  JobsGood'
<1>1. ASSUME NEW i \in Handlers, i # h
      PROVE  JobGood(job[i])'
  <2>1. job'[i].pc = "idle"
    BY <1>1 DEF TypeOK
  <2> QED BY <2>1 DEF JobGood
<1> QED BY <1>1 DEF JobsGood

LEMMA AllIdle ==
    ASSUME TypeOK', mu' = NoOne
    PROVE  JobsGood'
<1>1. \A i \in Handlers : job'[i].pc = "idle"
  BY HandlersAssumption DEF TypeOK
<1> QED BY <1>1 DEF JobsGood, JobGood

LEMMA KernelSame ==
    ASSUME TypeOK, KernelGood, kernel' = kernel, UNCHANGED syncs \/ StartsSync
    PROVE  KernelGood'
<1>1. ASSUME NEW t \in Syncs
      PROVE  Distinct(Addresses(syncs'[t].saw))
  <2>1. syncs'[t].saw \in {syncs[t].saw, {}}
    BY Starting DEF TypeOK
  <2> QED BY <2>1 DEF KernelGood, Distinct, Addresses
<1>2. Distinct(Addresses(kernel))'
  BY DEF KernelGood, Distinct, Addresses
<1>3. (\A t \in Syncs : Distinct(Addresses(syncs[t].saw)))'
  BY <1>1 DEF Distinct, Addresses
<1> QED BY <1>2, <1>3 DEF KernelGood

LEMMA FilesInit == Init => FilesInv
BY DEF Init, FilesInv, FilesGood, JobsGood, JobGood, KernelGood, IdleJob, NoSync,
       Distinct, Addresses, Generated, Good, Agree, Backed

\* A step that leaves the files and the handlers alone.
LEMMA FilesSame ==
    ASSUME FilesInv, UNCHANGED <<conf, json, nextKey, job>>
    PROVE  FilesGood' /\ JobsGood'
BY DEF FilesInv, FilesGood, JobsGood, JobGood, Generated

LEMMA CreateStep ==
    ASSUME TypeOK, TypeOK', FilesInv, NEW h \in Handlers, NEW n \in Names, CreatePeer(h, n)
    PROVE  FilesInv'
<1> DEFINE c == Call("create", {n})
           key == [name |-> n, serial |-> nextKey]
           entry(ip) == [name |-> n, key |-> key, ip |-> ip]
           block(ip) == [key |-> key, ip |-> ip, frozen |-> FALSE]
           j(ip) == [pc |-> "append", call |-> c, todo |-> {},
                     peers |-> json.peers \cup {entry(ip)}, add |-> {block(ip)}]
<1>1. UNCHANGED <<conf, json, kernel, syncs>>
  BY DEF CreatePeer
<1>2. KernelGood'
  BY <1>1, KernelSame DEF FilesInv
<1>3. CASE Refuse(c) /\ UNCHANGED nextKey
  BY <1>1, <1>2, <1>3, FilesSame DEF Refuse, FilesInv
<1>4. ASSUME NEW ip \in IPs, json.whole, NextAvailableIP(ip), Serve(h, j(ip)),
             nextKey' = nextKey + 1
      PROVE  FilesInv'
  <2>1. \A x \in conf.blocks \cup json.peers : x.key.serial \in Int /\ x.key.serial < nextKey
    BY DEF TypeOK, Conf, Json, Block, Entry, Keys, FilesInv, FilesGood, Generated
  <2>2. nextKey \in Int
    BY DEF TypeOK
  <2>3. FilesGood'
    BY <1>1, <1>4, <2>1, <2>2 DEF FilesInv, FilesGood, Generated
  <2>4. Good(conf.blocks, json.peers)
    BY <1>4 DEF FilesInv, FilesGood
  <2>5. \A x \in Addresses(conf.blocks) \cup json.peers : x.ip # ip
    BY <1>4 DEF NextAvailableIP, Used, Addresses
  <2>6. \A x \in conf.blocks \cup json.peers : x.key # key
    BY <2>1, <2>2
  <2>7. Good(conf.blocks \cup {block(ip)}, json.peers \cup {entry(ip)})
    <3>1. Addresses(conf.blocks \cup {block(ip)}) = Addresses(conf.blocks) \cup {block(ip)}
      BY DEF Addresses
    <3>2. Distinct(Addresses(conf.blocks \cup {block(ip)}) \cup (json.peers \cup {entry(ip)}))
      BY <2>4, <2>5, <3>1 DEF Good, Distinct
    <3>3. Agree(conf.blocks \cup {block(ip)}, json.peers \cup {entry(ip)})
      BY <2>4, <2>6 DEF Good, Agree
    <3>4. Backed(conf.blocks \cup {block(ip)}, json.peers \cup {entry(ip)})
      BY <2>4 DEF Good, Backed
    <3> QED BY <3>2, <3>3, <3>4 DEF Good
  <2>8. mu' = h /\ job'[h] = j(ip)
    BY <1>4 DEF Serve, TypeOK
  <2>9. JobGood(job[h])'
    <3>1. \A x \in {block(ip)} \cup (json.peers \cup {entry(ip)}) : x.key.serial < nextKey'
      BY <1>4, <2>1, <2>2
    <3> QED BY <1>1, <1>4, <2>7, <2>8, <3>1 DEF JobGood, Generated
  <2> QED BY <1>2, <2>3, <2>8, <2>9, OthersIdle DEF FilesInv
<1> QED BY <1>3, <1>4 DEF CreatePeer

LEMMA AppendStep ==
    ASSUME TypeOK, TypeOK', FilesInv, NEW h \in Handlers, AppendBlock(h)
    PROVE  FilesInv'
<1> DEFINE add == job[h].add
           peers == job[h].peers
<1>1. /\ mu' = h /\ UNCHANGED <<json, kernel, nextKey, syncs>> /\ job[h].pc = "append"
      /\ conf'.blocks = conf.blocks \cup add
  BY NoOneIsNone DEF AppendBlock, Proceeds, TypeOK, Conf
<1>2. job'[h].pc = "save" /\ job'[h].add = add /\ job'[h].peers = peers
  BY DEF AppendBlock, Proceeds, TypeOK, Job
<1>3. JobGood(job[h])
  BY DEF FilesInv, JobsGood
<1>4. /\ json.whole /\ Generated(add) /\ Generated(peers) /\ json.peers \subseteq peers
      /\ \A b \in add : ~b.frozen
      /\ Good(conf.blocks \cup add, peers)
  BY <1>1, <1>3 DEF JobGood
<1>5. Good(conf.blocks \cup add, json.peers)
  <2>1. Backed(conf.blocks \cup add, json.peers)
    BY <1>4 DEF FilesInv, FilesGood, Good, Backed
  <2> QED BY <1>4, <2>1, FewerPeers
<1>6. FilesGood'
  BY <1>1, <1>4, <1>5 DEF FilesInv, FilesGood, Generated, Good
<1>7. JobGood(job[h])'
  BY <1>1, <1>2, <1>4 DEF JobGood, Generated
<1> QED BY <1>1, <1>6, <1>7, OthersIdle, KernelSame DEF FilesInv

LEMMA RemoveBlockStep ==
    ASSUME TypeOK, TypeOK', FilesInv, NEW h \in Handlers, RemoveBlock(h)
    PROVE  FilesInv'
<1> DEFINE peers == job[h].peers
           todo == job[h].todo
<1>1. PICK key \in todo : RemovesKey(h, key)
  BY RemoveStep
<1>2. mu' = h /\ UNCHANGED <<json, kernel, nextKey, syncs>> /\ job[h].pc = "remove"
  BY NoOneIsNone DEF RemoveBlock
<1>3. /\ conf'.blocks = {b \in conf.blocks : b.key # key}
      /\ job'[h].pc = (IF todo = {key} THEN "save" ELSE "remove")
      /\ job'[h].add = job[h].add /\ job'[h].peers = peers /\ job'[h].todo = todo \ {key}
  BY <1>1 DEF RemovesKey
<1>4. JobGood(job[h])
  BY DEF FilesInv, JobsGood
<1>5. /\ json.whole /\ Generated(job[h].add) /\ Generated(peers) /\ peers \subseteq json.peers
      /\ Backed({b \in conf.blocks : b.key \notin todo}, peers)
  BY <1>2, <1>4 DEF JobGood
<1>6. Good(conf'.blocks, json.peers)
  BY <1>3, <1>5, FewerBlocks DEF FilesInv, FilesGood
<1>7. FilesGood'
  BY <1>2, <1>3, <1>6 DEF FilesInv, FilesGood, Generated, Good
<1>8. {b \in conf'.blocks : b.key \notin todo \ {key}} = {b \in conf.blocks : b.key \notin todo}
  BY <1>3
<1>9. todo = {key} => conf'.blocks = {b \in conf.blocks : b.key \notin todo}
  BY <1>3
<1>10. ASSUME todo = {key}
       PROVE  Good(conf'.blocks, peers)
  <2>1. Backed(conf'.blocks, peers)
    BY <1>5, <1>9, <1>10
  <2> QED BY <1>5, <1>6, <2>1, FewerPeers
<1>11. JobGood(job[h])'
  BY <1>2, <1>3, <1>5, <1>8, <1>10 DEF JobGood, Generated
<1> QED BY <1>2, <1>7, <1>11, OthersIdle, KernelSame DEF FilesInv

LEMMA SaveStep ==
    ASSUME TypeOK, TypeOK', FilesInv, NEW h \in Handlers, SavePeers(h)
    PROVE  FilesInv'
<1> DEFINE peers == job[h].peers
<1>1. /\ mu' = h /\ UNCHANGED <<conf, kernel, nextKey, syncs>> /\ job[h].pc = "save"
      /\ json'.peers = peers /\ json'.whole = json.whole
  BY NoOneIsNone DEF SavePeers, Proceeds, TypeOK, Json
<1>2. job'[h].pc = "sync" /\ job'[h].add = job[h].add /\ job'[h].peers = peers
  BY DEF SavePeers, Proceeds, TypeOK, Job
<1>3. JobGood(job[h])
  BY DEF FilesInv, JobsGood
<1>4. json.whole /\ Generated(job[h].add) /\ Generated(peers) /\ Good(conf.blocks, peers)
  BY <1>1, <1>3 DEF JobGood
<1>5. FilesGood'
  BY <1>1, <1>4 DEF FilesInv, FilesGood, Generated, Good
<1>6. JobGood(job[h])'
  BY <1>1, <1>2, <1>4 DEF JobGood, Generated
<1> QED BY <1>1, <1>5, <1>6, OthersIdle, KernelSame DEF FilesInv

LEMMA ToggleStep ==
    ASSUME TypeOK, TypeOK', FilesInv, NEW h \in Handlers, ToggleBlocks(h)
    PROVE  FilesInv'
<1> DEFINE todo == job[h].todo
           frozen == job[h].call.op = "freeze"
           new == {Toggled(b, todo, frozen) : b \in conf.blocks}
<1>1. /\ mu' = h /\ UNCHANGED <<json, kernel, nextKey, syncs>> /\ job[h].pc = "toggle"
  BY NoOneIsNone DEF ToggleBlocks, Proceeds
<1>2. conf' = [conf EXCEPT !.blocks = new]
  BY DEF ToggleBlocks, ToggledBlocks
<1>3. conf'.blocks = new
  <2> HIDE DEF new
  <2> QED BY <1>2 DEF TypeOK, Conf
<1>4. job'[h].pc = "sync" /\ job'[h].add = job[h].add /\ job'[h].peers = job[h].peers
  BY DEF ToggleBlocks, Proceeds, TypeOK, Job
<1>5. JobGood(job[h])
  BY DEF FilesInv, JobsGood
<1>6. /\ json.whole /\ Generated(job[h].add) /\ Generated(job[h].peers)
      /\ \A k \in todo : \E e \in json.peers : e.key = k
  BY <1>1, <1>5 DEF JobGood
<1>7. Good(conf.blocks, json.peers) /\ Generated(conf.blocks)
  BY <1>6 DEF FilesInv, FilesGood
\* Each new block was a block.
<1>8. \A x \in new : \E b \in conf.blocks :
         x.key = b.key /\ x.ip = b.ip /\ x.frozen = IF b.key \in todo THEN frozen ELSE b.frozen
  <2> SUFFICES ASSUME NEW b \in conf.blocks
               PROVE  \E d \in conf.blocks :
                        /\ Toggled(b, todo, frozen).key = d.key
                        /\ Toggled(b, todo, frozen).ip = d.ip
                        /\ Toggled(b, todo, frozen).frozen =
                              IF d.key \in todo THEN frozen ELSE d.frozen
    OBVIOUS
  <2>1. b \in Block /\ frozen \in BOOLEAN
    BY DEF TypeOK, Conf
  <2> HIDE DEF frozen
  <2> QED BY <2>1, ToggledIs
<1> HIDE DEF new, frozen
<1>9. Generated(new)
  BY <1>7, <1>8 DEF Generated
<1>10. Agree(new, json.peers)
  BY <1>7, <1>8 DEF Good, Agree
<1>11. Backed(new, json.peers)
  <2> SUFFICES ASSUME NEW x \in new, x.frozen
               PROVE  \E e \in json.peers : e.key = x.key /\ e.ip = x.ip
    BY DEF Backed
  <2>1. PICK b \in conf.blocks :
           x.key = b.key /\ x.ip = b.ip /\ x.frozen = IF b.key \in todo THEN frozen ELSE b.frozen
    BY <1>8
  <2>2. CASE b.key \in todo
    BY <1>6, <1>7, <2>1, <2>2 DEF Good, Agree
  <2>3. CASE b.key \notin todo
    BY <1>7, <2>1, <2>3 DEF Good, Backed
  <2> QED BY <2>2, <2>3
<1>12. Distinct(Addresses(new) \cup json.peers)
  <2>1. ASSUME NEW x \in Addresses(new) \cup json.peers
        PROVE  \E y \in Addresses(conf.blocks) \cup json.peers : y.key = x.key /\ y.ip = x.ip
    <3>1. CASE x \in json.peers
      BY <3>1
    <3>2. CASE x \in Addresses(new)
      <4>1. PICK b \in conf.blocks : x.key = b.key /\ x.ip = b.ip
        BY <1>8, <3>2 DEF Addresses
      <4>2. CASE ~b.frozen
        BY <4>1, <4>2 DEF Addresses
      <4>3. CASE b.frozen
        BY <1>7, <4>1, <4>3 DEF Good, Backed
      <4> QED BY <4>2, <4>3
    <3> QED BY <2>1, <3>1, <3>2
  <2> QED BY <1>7, <2>1 DEF Good, Distinct
<1>13. FilesGood'
  BY <1>1, <1>3, <1>9, <1>10, <1>11, <1>12 DEF FilesInv, FilesGood, Generated, Good
<1>14. JobGood(job[h])'
  BY <1>1, <1>4, <1>6 DEF JobGood, Generated
<1> QED BY <1>1, <1>13, <1>14, OthersIdle, KernelSame DEF FilesInv

\* A handler that gives up leaves each file as it is, or empty.
LEMMA FailureStep ==
    ASSUME TypeOK, TypeOK', FilesInv, NEW h \in Handlers,
           conf' \in ConfAfterFailure(h), json' \in JsonAfterFailure(h),
           mu' = NoOne, UNCHANGED <<kernel, nextKey>>, UNCHANGED syncs \/ StartsSync
    PROVE  FilesInv'
<1>1. /\ conf'.blocks \in {conf.blocks, {}}
      /\ json' = json \/ (json'.peers = {} /\ ~json'.whole)
  BY DEF ConfAfterFailure, JsonAfterFailure, EmptyConf, EmptyJson
<1>2. Generated(conf.blocks)' /\ Generated(json.peers)'
  BY <1>1 DEF FilesInv, FilesGood, Generated
<1>3. Distinct(Addresses(conf.blocks) \cup json.peers)'
  BY <1>1 DEF FilesInv, FilesGood, Distinct, Addresses
<1>4. json'.whole => Good(conf'.blocks, json'.peers)
  BY <1>1, FewerBlocks DEF FilesInv, FilesGood
<1>5. FilesGood'
  BY <1>2, <1>3, <1>4 DEF FilesGood
<1> QED BY <1>5, AllIdle, KernelSame DEF FilesInv

LEMMA FilesNext == TypeOK /\ TypeOK' /\ FilesInv /\ [Next]_vars => FilesInv'
<1> SUFFICES ASSUME TypeOK, TypeOK', FilesInv, [Next]_vars PROVE FilesInv'
  OBVIOUS
<1>1. ASSUME NEW h \in Handlers, NEW n \in Names, CreatePeer(h, n)
      PROVE  FilesInv'
  BY <1>1, CreateStep
<1>2. ASSUME NEW h \in Handlers, NEW ns \in SUBSET Names, DeletePeers(h, ns)
      PROVE  FilesInv'
  <2> DEFINE j == [pc |-> "remove", call |-> Call("delete", ns), add |-> {},
                   peers |-> json.peers \ Matching(ns), todo |-> {e.key : e \in Matching(ns)}]
  <2>1. UNCHANGED <<conf, json, kernel, nextKey, syncs>>
    BY <1>2 DEF DeletePeers
  <2>2. CASE Refuse(Call("delete", ns))
    BY <2>1, <2>2, FilesSame, KernelSame DEF Refuse, FilesInv
  <2>3. CASE json.whole /\ Serve(h, j)
    <3>1. Good(conf.blocks, json.peers)
      BY <2>3 DEF FilesInv, FilesGood
    \* A frozen block that stays keeps its entry.
    <3>2. Backed({b \in conf.blocks : b.key \notin j.todo}, j.peers)
      BY <3>1 DEF Good, Backed
    <3>3. mu' = h /\ job'[h] = j
      BY <2>3 DEF Serve, TypeOK
    <3>4. j.pc = "remove" /\ j.add = {} /\ j.peers \subseteq json.peers
      OBVIOUS
    <3> HIDE DEF j
    <3>5. JobGood(job[h])'
      BY <2>1, <2>3, <3>2, <3>3, <3>4 DEF JobGood, Generated, FilesInv, FilesGood
    <3>6. FilesGood'
      BY <2>1 DEF FilesInv, FilesGood, Generated
    <3> QED BY <2>1, <3>3, <3>5, <3>6, OthersIdle, KernelSame DEF FilesInv
  <2> QED BY <1>2, <2>2, <2>3 DEF DeletePeers
<1>3. ASSUME NEW h \in Handlers, NEW op \in {"freeze", "unfreeze"}, NEW ns \in SUBSET Names,
             FreezePeers(h, op, ns)
      PROVE  FilesInv'
  <2> DEFINE j == [pc |-> "toggle", call |-> Call(op, ns), add |-> {}, peers |-> {},
                   todo |-> {e.key : e \in Matching(ns)}]
  <2>1. UNCHANGED <<conf, json, kernel, nextKey, syncs>>
    BY <1>3 DEF FreezePeers
  <2>2. CASE Refuse(Call(op, ns))
    BY <2>1, <2>2, FilesSame, KernelSame DEF Refuse, FilesInv
  <2>3. CASE json.whole /\ Serve(h, j)
    <3>1. \A k \in j.todo : \E e \in json.peers : e.key = k
      BY DEF Matching
    <3>2. mu' = h /\ job'[h] = j
      BY <2>3 DEF Serve, TypeOK
    <3>3. j.pc = "toggle" /\ j.add = {} /\ j.peers = {}
      OBVIOUS
    <3> HIDE DEF j
    <3>4. JobGood(job[h])'
      BY <2>1, <2>3, <3>1, <3>2, <3>3 DEF JobGood, Generated
    <3>5. FilesGood'
      BY <2>1 DEF FilesInv, FilesGood, Generated
    <3> QED BY <2>1, <3>2, <3>4, <3>5, OthersIdle, KernelSame DEF FilesInv
  <2> QED BY <1>3, <2>2, <2>3 DEF FreezePeers
<1>4. ASSUME NEW h \in Handlers, AppendBlock(h) \/ RemoveBlock(h) \/ SavePeers(h) \/ ToggleBlocks(h)
      PROVE  FilesInv'
  BY <1>4, AppendStep, RemoveBlockStep, SaveStep, ToggleStep
<1>5. ASSUME NEW h \in Handlers, SyncAndReply(h)
      PROVE  FilesInv'
  <2>1. FilesGood'
    BY <1>5 DEF SyncAndReply, FilesInv, FilesGood, Generated
  <2> QED BY <1>5, <2>1, AllIdle, KernelSame DEF SyncAndReply, Replies, FilesInv
<1>6. ASSUME NEW h \in Handlers, HandlerFails(h)
      PROVE  FilesInv'
  BY <1>6, FailureStep, SyncAfter DEF HandlerFails, Replies
<1>7. ASSUME Crash
      PROVE  FilesInv'
  <2>1. mu \in Handlers
    BY <1>7 DEF Crash, TypeOK
  <2> QED BY <1>7, <2>1, FailureStep, SyncAfter DEF Crash, Replies
<1>8. ASSUME HandleSync
      PROVE  FilesInv'
  BY <1>8, FilesSame, KernelSame DEF HandleSync, FilesInv
<1>9. ASSUME NEW s \in Syncs, ReadConf(s)
      PROVE  FilesInv'
  <2>1. PICK saw \in {conf.blocks, {}} : syncs' = [syncs EXCEPT ![s] = [pc |-> "read", saw |-> saw]]
    BY <1>9 DEF ReadConf
  <2>2. Distinct(Addresses(saw))
    BY <2>1 DEF FilesInv, FilesGood, Distinct, Addresses
  <2>3. \A x \in Syncs : syncs'[x].saw = IF x = s THEN saw ELSE syncs[x].saw
    BY <2>1 DEF TypeOK
  <2>4. KernelGood'
    <3>1. kernel' = kernel
      BY <1>9 DEF ReadConf
    <3> QED BY <2>2, <2>3, <3>1 DEF FilesInv, KernelGood
  <2> QED BY <1>9, <2>4, FilesSame DEF ReadConf, FilesInv
<1>10. ASSUME NEW s \in Syncs, ApplyConf(s)
       PROVE  FilesInv'
  <2>1. KernelGood'
    BY <1>10 DEF ApplyConf, FilesInv, KernelGood, TypeOK, NoSync, Distinct, Addresses
  <2> QED BY <1>10, <2>1, FilesSame DEF ApplyConf, FilesInv
<1>11. ASSUME NEW s \in Syncs, SyncFails(s)
       PROVE  FilesInv'
  <2>1. KernelGood'
    BY <1>11 DEF SyncFails, FilesInv, KernelGood, TypeOK, NoSync, Distinct, Addresses
  <2> QED BY <1>11, <2>1, FilesSame DEF SyncFails, FilesInv
<1>12. CASE UNCHANGED vars
  BY <1>12, FilesSame, KernelSame DEF vars, FilesInv
<1> QED BY <1>1, <1>2, <1>3, <1>4, <1>5, <1>6, <1>7, <1>8, <1>9, <1>10, <1>11, <1>12
        DEF Next, Begins, Works

\* No address is ever given to two peers, in the files or in the kernel, although
\* a failure may leave awg0.conf and peers.json different, or either one empty.
THEOREM UniqueIPHolds == Spec => []UniqueIP
<1>1. FilesInv => UniqueIP
  BY DEF FilesInv, FilesGood, KernelGood, Distinct, UniqueIP
<1> QED BY FilesInit, FilesNext, WorkerTypes, <1>1, PTL DEF Spec

----------------------------------------------------------------------------
(* The contract and the interface: the inductive invariants *)

OneKeyPerName(S) == \A x, y \in S : x.key.name = y.key.name => x.key = y.key
OneBlockPerKey(blocks) == \A x, y \in blocks : x.key = y.key => x = y

\* What the files hold, torn or not, as long as no name is asked for twice.
FilesSound ==
    /\ OneKeyPerName(conf.blocks \cup json.peers)
    /\ OneBlockPerKey(conf.blocks)
    /\ \A x \in conf.blocks \cup json.peers : x.key.name \in asked
    /\ \A e \in json.peers : e.name = e.key.name

\* The call c may end in the store s, with an error.
FailsIn(s, c) == \A r \in {"status", "error"} : Result(s, r) \in BadAnswers(before, c)

\* It may end here; here, with awg0.conf torn; here, with peers.json torn.
MayFail(c) == FailsIn(StoreNow, c)
MayLoseConf(c) == FailsIn(ConfLost(StoreNow), c)
MayLoseJson(c) == FailsIn(JsonLost(StoreNow), c)

Appends(j) ==
    /\ StoreNow = before /\ before.torn = {}
    /\ \E n \in Names, key \in Keys, ip \in IPs :
         /\ j.call = Call("create", {n})
         /\ j.add = {[key |-> key, ip |-> ip, frozen |-> FALSE]}
         /\ j.peers = json.peers \cup {[name |-> n, key |-> key, ip |-> ip]}
         /\ key.name = n /\ n \in asked
         /\ \A x \in conf.blocks \cup json.peers : x.key.name # n

\* The blocks of the names are gone whose keys are no longer to do.
Removes(j) ==
    LET ns == j.call.peers IN
    /\ j.call.op = "delete"
    /\ j.peers = json.peers \ Matching(ns)
    /\ Matching(ns) # {}
    /\ j.todo \subseteq {e.key : e \in Matching(ns)}
    /\ before.json = StoreNow.json /\ before.torn = StoreNow.torn
    /\ \A n \in Names :
         StateOf(n) = IF n \in ns \cap before.json /\ \A k \in j.todo : k.name # n
                        THEN "absent" ELSE before.conf[n]

Toggles(j) ==
    /\ StoreNow = before
    /\ j.call.op \in {"freeze", "unfreeze"}
    /\ Matching(j.call.peers) # {}
    /\ j.todo = {e.key : e \in Matching(j.call.peers)}

\* Saving the peers completes the call.
Saves(j) ==
    /\ \A e \in j.peers : e.name = e.key.name /\ e.key.name \in asked
    /\ OneKeyPerName(conf.blocks \cup j.peers)
    /\ Result([conf |-> StoreNow.conf, json |-> {e.name : e \in j.peers},
               torn |-> StoreNow.torn], "ok") = Answer(before, j.call)
    /\ j.call.op \in {"create", "delete"}

JobSound(j) ==
    /\ j.pc # "idle" => j.call \in Calls /\ MayFail(j.call)
    /\ j.pc \in {"append", "remove"} => MayLoseConf(j.call)
    /\ j.pc = "append" => Appends(j)
    /\ j.pc = "remove" => Removes(j)
    /\ j.pc = "toggle" => Toggles(j)
    /\ j.pc = "save" => Saves(j) /\ MayLoseJson(j.call)
    /\ j.pc = "sync" => Result(StoreNow, "ok") = Answer(before, j.call)

ContractInv == FilesSound /\ \A h \in Handlers : JobSound(job[h])

\* While the last syncconf started is undisturbed no other runs, and once the mutex is
\* free awg0.conf stays as it will read, or has read, it.
KernelInv ==
    undisturbed =>
        /\ \A s, t \in Syncs : syncs[s].pc # "none" /\ syncs[t].pc # "none" => s = t
        /\ mu = NoOne =>
             /\ (\A s \in Syncs : syncs[s].pc = "none") => kernel = conf.blocks
             /\ \A s \in Syncs : syncs[s].pc = "read" => syncs[s].saw = conf.blocks

----------------------------------------------------------------------------
(* The interface *)

LEMMA KernelInit == Init => KernelInv
BY DEF Init, KernelInv, NoSync

\* A syncconf that has just started has read nothing, and is not done.
LEMMA StartKernel ==
    ASSUME TypeOK, StartsSync
    PROVE  KernelInv'
<1> SUFFICES ASSUME undisturbed'
             PROVE  /\ \A s, t \in Syncs : syncs'[s].pc # "none" /\ syncs'[t].pc # "none" => s = t
                    /\ \E s \in Syncs : syncs'[s].pc # "none"
                    /\ \A s \in Syncs : syncs'[s].pc # "read"
  BY DEF KernelInv
<1>1. PICK s \in Syncs : /\ syncs[s].pc = "none"
                         /\ syncs' = [syncs EXCEPT ![s] = [pc |-> "started", saw |-> {}]]
  BY Starting
<1>2. \A t \in Syncs : syncs[t].pc = "none"
  BY Starting
<1> QED BY <1>1, <1>2 DEF TypeOK

LEMMA FailedKernel ==
    ASSUME TypeOK, NEW h, SyncAfterFailure(h)
    PROVE  KernelInv'
BY StartKernel DEF SyncAfterFailure, KernelInv

LEMMA KernelNext ==
    ASSUME TypeOK, KernelInv, [Next]_vars
    PROVE  KernelInv'
<1>1. ASSUME UNCHANGED <<conf, kernel, syncs, undisturbed>>, mu' = mu \/ mu' # NoOne
      PROVE  KernelInv'
  BY <1>1 DEF KernelInv
<1>2. ASSUME NEW h \in Handlers, Begins(h)
      PROVE  KernelInv'
  <2>1. ASSUME NEW j, Serve(h, j)
        PROVE  mu' # NoOne
    BY <2>1, HandlersAssumption DEF Serve
  <2>2. ASSUME NEW c, Refuse(c)
        PROVE  mu' = mu
    BY <2>2 DEF Refuse
  <2>3. mu' = mu \/ mu' # NoOne
    BY <1>2, <2>1, <2>2 DEF Begins, CreatePeer, DeletePeers, FreezePeers
  <2>4. UNCHANGED <<conf, kernel, syncs, undisturbed>>
    BY <1>2 DEF Begins, CreatePeer, DeletePeers, FreezePeers
  <2> QED BY <1>1, <2>3, <2>4
\* A handler that writes holds the mutex.
<1>3. ASSUME NEW h \in Handlers, AppendBlock(h) \/ RemoveBlock(h) \/ SavePeers(h) \/ ToggleBlocks(h)
      PROVE  KernelInv'
  <2>1. job[h].pc # "idle" /\ UNCHANGED <<mu, syncs, undisturbed>>
    BY <1>3 DEF AppendBlock, RemoveBlock, SavePeers, ToggleBlocks, Proceeds
  <2>2. mu' # NoOne
    BY <2>1, NoOneIsNone, HandlersAssumption
  <2> QED BY <2>1, <2>2 DEF KernelInv
<1>4. ASSUME StartsSync
      PROVE  KernelInv'
  BY <1>4, StartKernel
<1>5. ASSUME NEW h, SyncAfterFailure(h)
      PROVE  KernelInv'
  BY <1>5, FailedKernel
\* With the mutex free nobody is writing.
<1>6. ASSUME NEW s \in Syncs, ReadConf(s)
      PROVE  KernelInv'
  <2>1. UNCHANGED <<conf, kernel, mu, undisturbed>> /\ syncs[s].pc = "started"
    BY <1>6 DEF ReadConf
  <2>2. PICK saw : syncs' = [syncs EXCEPT ![s] = [pc |-> "read", saw |-> saw]]
    BY <1>6 DEF ReadConf
  <2>3. /\ syncs'[s].pc = "read" /\ syncs'[s].saw = saw
        /\ \A t \in Syncs : t # s => syncs'[t] = syncs[t]
    BY <2>2 DEF TypeOK
  <2>4. ASSUME mu = NoOne
        PROVE  syncs'[s].saw = conf.blocks
    <3>1. \A h \in Handlers : ~Writing(h)
      BY <2>4, HandlersAssumption DEF TypeOK, Writing
    <3>2. syncs' = [syncs EXCEPT ![s] = [pc |-> "read", saw |-> conf.blocks]]
      BY <1>6, <3>1 DEF ReadConf
    <3> QED BY <3>2 DEF TypeOK
  <2> QED BY <2>1, <2>3, <2>4 DEF KernelInv
<1>7. ASSUME NEW s \in Syncs, ApplyConf(s)
      PROVE  KernelInv'
  <2>1. /\ UNCHANGED <<conf, mu, undisturbed>>
        /\ kernel' = syncs[s].saw /\ syncs[s].pc = "read"
    BY <1>7 DEF ApplyConf
  <2>2. syncs'[s].pc = "none" /\ \A t \in Syncs : t # s => syncs'[t] = syncs[t]
    BY <1>7 DEF ApplyConf, NoSync, TypeOK
  <2> QED BY <2>1, <2>2 DEF KernelInv
<1>8. ASSUME NEW s \in Syncs, SyncFails(s)
      PROVE  KernelInv'
  BY <1>8 DEF SyncFails, KernelInv
<1>9. CASE UNCHANGED vars
  BY <1>1, <1>9 DEF vars
<1> QED BY <1>2, <1>3, <1>4, <1>5, <1>6, <1>7, <1>8, <1>9
        DEF Next, Works, SyncAndReply, HandleSync, HandlerFails, Crash

\* For any number of syncconf processes at once: once every handler has answered and
\* every syncconf has ended, the interface is what awg0.conf says, if the last syncconf
\* started ran alone and nothing has failed since; whatever was written while it was
\* reading, and whatever overlapped or failed before it.  The run worker_overlap shows
\* what a syncconf that does not run alone may leave.
THEOREM KernelCurrentHolds == Spec => []KernelCurrent
<1>1. KernelInv => KernelCurrent
  BY DEF KernelInv, KernelCurrent, Quiet
<1>2. TypeOK /\ KernelInv /\ [Next]_vars => KernelInv'
  BY KernelNext
<1> QED BY KernelInit, WorkerTypes, <1>1, <1>2, PTL DEF Spec

----------------------------------------------------------------------------
(* The contract: lemmas *)

LEMMA StoreSame ==
    ASSUME UNCHANGED <<conf, json>>
    PROVE  StoreNow' = StoreNow
BY DEF StoreNow, StateOf

\* What blocks say of a name.
StateIn(blocks, n) ==
    LET mine == {b \in blocks : b.key.name = n} IN
    IF mine = {} THEN "absent"
    ELSE IF \E b \in mine : ~b.frozen THEN "active" ELSE "frozen"

LEMMA StateOfIn ==
    ASSUME NEW n
    PROVE  StateOf(n) = StateIn(conf.blocks, n) /\ StateOf(n)' = StateIn(conf'.blocks, n)
BY DEF StateOf, StateIn

LEMMA StateIs ==
    ASSUME NEW blocks \in SUBSET Block, NEW n
    PROVE  /\ StateIn(blocks, n) = "absent" <=> \A b \in blocks : b.key.name # n
           /\ StateIn(blocks, n) = "active" <=> \E b \in blocks : b.key.name = n /\ ~b.frozen
           /\ StateIn(blocks, n) = "frozen" <=> /\ \E b \in blocks : b.key.name = n
                                               /\ \A b \in blocks : b.key.name = n => b.frozen
           /\ StateIn(blocks, n) \in BlockState
BY DEF StateIn, BlockState

\* Only the blocks that are of the name matter.
LEMMA StateInSame ==
    ASSUME NEW old, NEW new, NEW n, {b \in old : b.key.name = n} = {b \in new : b.key.name = n}
    PROVE  StateIn(old, n) = StateIn(new, n)
BY DEF StateIn

LEMMA JsonNames ==
    /\ StoreNow.json = {e.name : e \in json.peers}
    /\ \A n \in Names : StoreNow.conf[n] = StateOf(n)
    /\ StoreNow = [conf |-> StoreNow.conf, json |-> StoreNow.json, torn |-> StoreNow.torn]
    /\ StoreNow.conf = [n \in Names |-> StateOf(n)]
BY DEF StoreNow

LEMMA JsonNamesNext ==
    /\ StoreNow'.json = {e.name : e \in json'.peers}
    /\ \A n \in Names : StoreNow'.conf[n] = StateIn(conf'.blocks, n)
    /\ StoreNow' = [conf |-> StoreNow'.conf, json |-> StoreNow'.json, torn |-> StoreNow'.torn]
    /\ StoreNow'.conf = [n \in Names |-> StateIn(conf'.blocks, n)]
BY StateOfIn DEF StoreNow

\* Nothing is torn while both files are whole, and what is torn stays as long as the
\* files stay whole or not.
LEMMA TornIs ==
    /\ StoreNow.torn = {} <=> conf.whole /\ json.whole
    /\ conf'.whole = conf.whole /\ json'.whole = json.whole => StoreNow'.torn = StoreNow.torn
BY DEF StoreNow

\* A call that ended as it should may have failed instead.
LEMMA DoneMayFail ==
    ASSUME NEW c \in Calls, NEW s, NEW b, Result(s, "ok") = Answer(b, c)
    PROVE  \A r \in {"status", "error"} : Result(s, r) \in BadAnswers(b, c)
<1>1. Result(s, "ok").store = s /\ Result(s, "ok").reply = "ok"
  BY DEF Result
<1>2. CASE c.op = "create"
  <2>1. Answer(b, c) = CreateResult(b, c.peers) /\ BadAnswers(b, c) = CreateFaults(b, c.peers)
    BY <1>2 DEF Answer, BadAnswers
  <2>2. ~CreateRefused(b, c.peers) /\ s = WithPeers(b, c.peers)
    BY <1>1, <2>1 DEF CreateResult, Result
  <2> QED BY <2>1, <2>2 DEF CreateFaults, Failed, Result
<1>3. CASE c.op = "delete"
  <2>1. Answer(b, c) = DeleteResult(b, c.peers) /\ BadAnswers(b, c) = DeleteFaults(b, c.peers)
    BY <1>3 DEF Answer, BadAnswers
  <2>2. c.peers \cap b.json # {} /\ s = WithoutPeers(b, c.peers \cap b.json)
    BY <1>1, <2>1 DEF DeleteResult, Result
  <2> QED BY <2>1, <2>2 DEF DeleteFaults, Failed, Result
<1>4. CASE c.op = "freeze"
  <2>1. Answer(b, c) = FreezeResult(b, c.peers) /\ BadAnswers(b, c) = FreezeFaults(b, c.peers)
    BY <1>4 DEF Answer, BadAnswers
  <2>2. s = Frozen(b, c.peers)
    BY <1>1, <2>1 DEF FreezeResult, Result
  <2> QED BY <2>1, <2>2 DEF FreezeFaults, WriteFaults, Failed, Result
<1>5. CASE c.op = "unfreeze"
  <2>1. Answer(b, c) = UnfreezeResult(b, c.peers) /\ BadAnswers(b, c) = UnfreezeFaults(b, c.peers)
    BY <1>5 DEF Answer, BadAnswers
  <2>2. s = Unfrozen(b, c.peers)
    BY <1>1, <2>1 DEF UnfreezeResult, Result
  <2> QED BY <2>1, <2>2 DEF UnfreezeFaults, WriteFaults, Failed, Result
<1> QED BY <1>2, <1>3, <1>4, <1>5 DEF Calls

\* A call may fail before it has changed anything.
LEMMA NothingMayFail ==
    ASSUME NEW c \in Calls, NEW s \in Store
    PROVE  \A r \in {"status", "error"} : Result(s, r) \in BadAnswers(s, c)
<1>1. CASE c.op = "create"
  <2>1. BadAnswers(s, c) = CreateFaults(s, c.peers)
    BY <1>1 DEF BadAnswers
  <2> QED BY <2>1 DEF CreateFaults, Failed, Result
<1>2. CASE c.op = "delete"
  <2>1. BadAnswers(s, c) = DeleteFaults(s, c.peers)
    BY <1>2 DEF BadAnswers
  <2>2. WithoutBlocks(s, {}) = s
    BY DEF WithoutBlocks, Store
  <2>3. {} \in SUBSET (c.peers \cap s.json)
    OBVIOUS
  <2>4. s \in {WithoutBlocks(s, part) : part \in SUBSET (c.peers \cap s.json)}
    BY <2>2, <2>3
  <2> QED BY <2>1, <2>4 DEF DeleteFaults, Failed, Result
<1>3. CASE c.op = "freeze"
  <2>1. BadAnswers(s, c) = FreezeFaults(s, c.peers)
    BY <1>3 DEF BadAnswers
  <2> QED BY <2>1 DEF FreezeFaults, WriteFaults, Failed, Result
<1>4. CASE c.op = "unfreeze"
  <2>1. BadAnswers(s, c) = UnfreezeFaults(s, c.peers)
    BY <1>4 DEF BadAnswers
  <2> QED BY <2>1 DEF UnfreezeFaults, WriteFaults, Failed, Result
<1> QED BY <1>1, <1>2, <1>3, <1>4 DEF Calls

LEMMA MatchingNames ==
    ASSUME NEW ns
    PROVE  /\ Matching(ns) = {} <=> ns \cap StoreNow.json = {}
           /\ \A n : n \in ns \cap StoreNow.json <=> \E e \in Matching(ns) : e.name = n
BY JsonNames DEF Matching

\* The handlers that do not hold the mutex have nothing to keep.
LEMMA OthersSound ==
    ASSUME TypeOK', NEW h \in Handlers, mu' = h, JobSound(job[h])'
    PROVE  (\A i \in Handlers : JobSound(job[i]))'
<1>1. \A i \in Handlers : i # h => job'[i].pc = "idle"
  BY DEF TypeOK
<1> QED BY <1>1 DEF JobSound

LEMMA AllSound ==
    ASSUME TypeOK', mu' = NoOne
    PROVE  (\A i \in Handlers : JobSound(job[i]))'
<1>1. \A i \in Handlers : job'[i].pc = "idle"
  BY HandlersAssumption DEF TypeOK
<1> QED BY <1>1 DEF JobSound

LEMMA SoundSame ==
    ASSUME FilesSound, UNCHANGED <<conf, json>>, asked \subseteq asked'
    PROVE  FilesSound'
BY DEF FilesSound, OneKeyPerName, OneBlockPerKey

----------------------------------------------------------------------------
(* The contract: the steps *)

LEMMA CreateSound ==
    ASSUME TypeOK, TypeOK', ContractInv, ~NamesReused,
           NEW h \in Handlers, NEW n \in Names, CreatePeer(h, n)
    PROVE  ContractInv'
<1> DEFINE c == Call("create", {n})
           key == [name |-> n, serial |-> nextKey]
           j(ip) == [pc |-> "append", call |-> c, todo |-> {},
                     peers |-> json.peers \cup {[name |-> n, key |-> key, ip |-> ip]},
                     add |-> {[key |-> key, ip |-> ip, frozen |-> FALSE]}]
<1>1. UNCHANGED <<conf, json>> /\ n \notin asked /\ asked' = asked \cup {n}
  BY DEF CreatePeer
<1>2. FilesSound'
  BY <1>1, SoundSame DEF ContractInv
<1>3. StoreNow' = StoreNow
  BY <1>1, StoreSame
<1>4. CASE Refuse(c)
  <2>1. mu' = NoOne
    BY <1>4 DEF Refuse
  <2> QED BY <1>2, <2>1, AllSound DEF ContractInv
<1>5. ASSUME NEW ip \in IPs, conf.whole, json.whole, Serve(h, j(ip))
      PROVE  ContractInv'
  <2>1. mu' = h /\ job'[h] = j(ip) /\ before' = StoreNow
    BY <1>5 DEF Serve, TypeOK
  <2>2. c \in Calls
    BY CallTyped
  <2>3. MayFail(c)'
    BY <1>3, <2>1, <2>2, NothingMayFail, StoreNowTyped DEF MayFail, FailsIn
  <2>4. key \in Keys
    BY DEF TypeOK, CreatePeer, Keys
  <2>5. /\ job'[h].pc = "append" /\ job'[h].call = c
        /\ job'[h].add = {[key |-> key, ip |-> ip, frozen |-> FALSE]}
        /\ job'[h].peers = json'.peers \cup {[name |-> n, key |-> key, ip |-> ip]}
    BY <1>1, <2>1
  <2>6. \A x \in conf'.blocks \cup json'.peers : x.key.name # n
    BY <1>1 DEF ContractInv, FilesSound
  <2>7. n \in asked' /\ key.name = n /\ StoreNow' = before' /\ before'.torn = {}
    BY <1>1, <1>3, <1>5, <2>1, TornIs
  <2> HIDE DEF key
  <2>8. \E m \in Names, k \in Keys, i \in IPs :
          /\ job'[h].call = Call("create", {m})
          /\ job'[h].add = {[key |-> k, ip |-> i, frozen |-> FALSE]}
          /\ job'[h].peers = json'.peers \cup {[name |-> m, key |-> k, ip |-> i]}
          /\ k.name = m /\ m \in asked'
          /\ \A x \in conf'.blocks \cup json'.peers : x.key.name # m
    BY <2>4, <2>5, <2>6, <2>7, Zenon
  <2>9. Appends(job[h])'
    BY <2>7, <2>8 DEF Appends
  <2>10. MayFail(job[h].call)'
    BY <2>3, <2>5 DEF MayFail, FailsIn
  <2>11. MayLoseConf(job[h].call)'
    <3>1. n \notin StoreNow.json
      BY JsonNames DEF ContractInv, FilesSound, CreatePeer
    <3>2. BadAnswers(before', c) = CreateFaults(before', {n}) /\ ~CreateRefused(before', {n})
      BY <1>3, <2>1, <2>7, <3>1 DEF BadAnswers, Call, CreateRefused
    <3>3. \A r \in {"status", "error"} : Result(ConfLost(before'), r) \in BadAnswers(before', c)
      BY <3>2 DEF CreateFaults, Failed, Result
    <3> QED BY <2>5, <2>7, <3>3 DEF MayLoseConf, FailsIn
  <2>12. JobSound(job[h])'
    BY <2>2, <2>5, <2>9, <2>10, <2>11 DEF JobSound
  <2> QED BY <1>2, <2>1, <2>12, OthersSound DEF ContractInv
<1> QED BY <1>4, <1>5 DEF CreatePeer

LEMMA DeleteSound ==
    ASSUME TypeOK, TypeOK', ContractInv,
           NEW h \in Handlers, NEW ns \in SUBSET Names, DeletePeers(h, ns)
    PROVE  ContractInv'
<1> DEFINE c == Call("delete", ns)
           found == Matching(ns)
<1>1. UNCHANGED <<conf, json, asked>>
  BY DEF DeletePeers
<1>2. FilesSound'
  BY <1>1, SoundSame DEF ContractInv
<1>3. StoreNow' = StoreNow
  BY <1>1, StoreSame
<1>4. CASE Refuse(c)
  <2>1. mu' = NoOne
    BY <1>4 DEF Refuse
  <2> QED BY <1>2, <2>1, AllSound DEF ContractInv
<1>5. CASE /\ found # {}
           /\ Serve(h, [pc |-> "remove", call |-> c, add |-> {},
                        peers |-> json.peers \ found, todo |-> {e.key : e \in found}])
  <2>1. /\ mu' = h /\ before' = StoreNow
        /\ job'[h] = [pc |-> "remove", call |-> c, add |-> {},
                      peers |-> json.peers \ found, todo |-> {e.key : e \in found}]
    BY <1>5 DEF Serve, TypeOK
  <2>2. /\ job'[h].pc = "remove" /\ job'[h].call = c
        /\ job'[h].peers = json.peers \ found /\ job'[h].todo = {e.key : e \in found}
    BY <2>1
  <2>3. c \in Calls /\ c.op = "delete" /\ c.peers = ns
    BY CallTyped DEF Call
  <2>4. MayFail(c)'
    BY <1>3, <2>1, <2>3, NothingMayFail, StoreNowTyped DEF MayFail, FailsIn
  <2>5. Matching(ns)' = found
    BY <1>1 DEF Matching
  <2>6. ASSUME NEW n \in ns \cap StoreNow.json
        PROVE  \E k \in job'[h].todo : k.name = n
    <3>1. PICK e \in found : e.name = n
      BY MatchingNames
    <3>2. e.key \in job'[h].todo /\ e.key.name = n
      BY <2>2, <3>1 DEF Matching, ContractInv, FilesSound
    <3> QED BY <3>2
  <2>7. \A n \in Names : StateOf(n)' = before'.conf[n]
    BY <1>1, <2>1, JsonNames, StateOfIn
  <2>8. Removes(job[h])'
    <3> HIDE DEF c, found
    <3> QED BY <1>1, <1>3, <1>5, <2>1, <2>2, <2>3, <2>5, <2>6, <2>7 DEF Removes
  <2>9. JobSound(job[h])'
    <3>1. MayFail(job[h].call)'
      BY <2>2, <2>4 DEF MayFail, FailsIn
    <3>2. MayLoseConf(job[h].call)'
      <4>1. ns \cap StoreNow.json # {}
        BY <1>5, MatchingNames
      <4>2. BadAnswers(StoreNow, c) = DeleteFaults(StoreNow, ns)
        BY <2>3 DEF BadAnswers
      <4>3. \A r \in {"status", "error"} : Result(ConfLost(StoreNow), r) \in BadAnswers(StoreNow, c)
        BY <4>1, <4>2 DEF DeleteFaults, Failed, Result
      <4> QED BY <1>3, <2>1, <2>2, <4>3 DEF MayLoseConf, FailsIn
    <3> QED BY <2>2, <2>3, <2>8, <3>1, <3>2 DEF JobSound
  <2> QED BY <1>2, <2>1, <2>9, OthersSound DEF ContractInv
<1> QED BY <1>4, <1>5 DEF DeletePeers

LEMMA FreezeSound ==
    ASSUME TypeOK, TypeOK', ContractInv, NEW h \in Handlers,
           NEW op \in {"freeze", "unfreeze"}, NEW ns \in SUBSET Names, FreezePeers(h, op, ns)
    PROVE  ContractInv'
<1> DEFINE c == Call(op, ns)
           found == Matching(ns)
<1>1. UNCHANGED <<conf, json, asked>>
  BY DEF FreezePeers
<1>2. FilesSound'
  BY <1>1, SoundSame DEF ContractInv
<1>3. StoreNow' = StoreNow
  BY <1>1, StoreSame
<1>4. CASE Refuse(c)
  <2>1. mu' = NoOne
    BY <1>4 DEF Refuse
  <2> QED BY <1>2, <2>1, AllSound DEF ContractInv
<1>5. CASE /\ found # {}
           /\ Serve(h, [pc |-> "toggle", call |-> c, add |-> {}, peers |-> {},
                        todo |-> {e.key : e \in found}])
  <2>1. /\ mu' = h /\ before' = StoreNow
        /\ job'[h] = [pc |-> "toggle", call |-> c, add |-> {}, peers |-> {},
                      todo |-> {e.key : e \in found}]
    BY <1>5 DEF Serve, TypeOK
  <2>2. job'[h].pc = "toggle" /\ job'[h].call = c /\ job'[h].todo = {e.key : e \in found}
    BY <2>1
  <2>3. c \in Calls /\ c.op = op /\ c.peers = ns
    BY CallTyped DEF Call
  <2>4. MayFail(c)'
    BY <1>3, <2>1, <2>3, NothingMayFail, StoreNowTyped DEF MayFail, FailsIn
  <2>5. Matching(ns)' = found
    BY <1>1 DEF Matching
  <2>6. Toggles(job[h])'
    <3> HIDE DEF c, found
    <3> QED BY <1>3, <1>5, <2>1, <2>2, <2>3, <2>5 DEF Toggles
  <2>7. JobSound(job[h])'
    <3>1. MayFail(job[h].call)'
      BY <2>2, <2>4 DEF MayFail, FailsIn
    <3> QED BY <2>2, <2>3, <2>6, <3>1 DEF JobSound
  <2> QED BY <1>2, <2>1, <2>7, OthersSound DEF ContractInv
<1> QED BY <1>4, <1>5 DEF FreezePeers

LEMMA AppendSound ==
    ASSUME TypeOK, TypeOK', ContractInv, NEW h \in Handlers, AppendBlock(h)
    PROVE  ContractInv'
<1>1. /\ mu' = h /\ UNCHANGED <<json, asked, before>> /\ job[h].pc = "append"
      /\ conf' = [conf EXCEPT !.blocks = conf.blocks \cup job[h].add]
  BY NoOneIsNone DEF AppendBlock, Proceeds
<1>2. job'[h].pc = "save" /\ job'[h].call = job[h].call /\ job'[h].peers = job[h].peers
  BY DEF AppendBlock, Proceeds, TypeOK, Job
<1>3. job[h].call \in Calls /\ Appends(job[h])
  BY <1>1 DEF ContractInv, JobSound
<1>4. PICK n \in Names, key \in Keys, ip \in IPs :
         /\ job[h].call = Call("create", {n})
         /\ job[h].add = {[key |-> key, ip |-> ip, frozen |-> FALSE]}
         /\ job[h].peers = json.peers \cup {[name |-> n, key |-> key, ip |-> ip]}
         /\ key.name = n /\ n \in asked
         /\ \A x \in conf.blocks \cup json.peers : x.key.name # n
  BY <1>3 DEF Appends
<1> DEFINE block == [key |-> key, ip |-> ip, frozen |-> FALSE]
           entry == [name |-> n, key |-> key, ip |-> ip]
<1>5. conf'.blocks = conf.blocks \cup {block} /\ conf'.whole = conf.whole
  BY <1>1, <1>4 DEF TypeOK, Conf
<1>6. block.key = key /\ ~block.frozen /\ entry.key = key /\ entry.name = n
  OBVIOUS
<1> HIDE DEF block, entry
<1>7. /\ FilesSound
      /\ StoreNow = before /\ before.torn = {}
  BY <1>3 DEF ContractInv, Appends
<1>8. FilesSound'
  <2>1. OneKeyPerName(conf'.blocks \cup json'.peers)
    BY <1>1, <1>4, <1>5, <1>6, <1>7 DEF FilesSound, OneKeyPerName
  <2>2. \A x \in conf'.blocks \cup json'.peers : x.key.name \in asked'
    BY <1>1, <1>4, <1>5, <1>6, <1>7 DEF FilesSound
  <2>3. OneBlockPerKey(conf'.blocks)
    BY <1>4, <1>5, <1>6, <1>7 DEF FilesSound, OneBlockPerKey
  <2> QED BY <1>1, <1>7, <2>1, <2>2, <2>3 DEF FilesSound
\* The block makes the new peer active and leaves the others.
<1>9. \A m \in Names : StateIn(conf'.blocks, m) = IF m = n THEN "active" ELSE before.conf[m]
  <2> SUFFICES ASSUME NEW m \in Names
               PROVE  StateIn(conf'.blocks, m) = IF m = n THEN "active" ELSE before.conf[m]
    OBVIOUS
  <2>1. conf'.blocks \in SUBSET Block
    BY DEF TypeOK, Conf
  <2>2. CASE m = n
    BY <1>4, <1>5, <1>6, <2>1, <2>2, StateIs
  <2>3. CASE m # n
    <3>1. {b \in conf'.blocks : b.key.name = m} = {b \in conf.blocks : b.key.name = m}
      BY <1>4, <1>5, <1>6, <2>3
    <3>2. StateIn(conf'.blocks, m) = StateIn(conf.blocks, m)
      BY <3>1, StateInSame
    <3> QED BY <1>7, <2>3, <3>2, JsonNames, StateOfIn
  <2> QED BY <2>2, <2>3
<1>10. before \in Store /\ n \notin before.json /\ ~CreateRefused(before, {n})
  <2>1. \A e \in json.peers : e.name # n
    BY <1>4, <1>7 DEF FilesSound
  <2>2. n \notin before.json
    BY <1>7, <2>1, JsonNames
  <2> QED BY <1>7, <2>2, StoreNowTyped DEF CreateRefused
<1>11. StoreNow' = WithBlocks(before, {n})
  <2>1. StoreNow'.conf = WithBlocks(before, {n}).conf
    BY <1>9, JsonNamesNext DEF WithBlocks
  <2>2. StoreNow'.json = WithBlocks(before, {n}).json
    BY <1>1, <1>7, JsonNames, JsonNamesNext DEF WithBlocks
  <2>3. StoreNow'.torn = before.torn
    BY <1>1, <1>5, <1>7, TornIs
  <2> QED BY <2>1, <2>2, <2>3, JsonNamesNext DEF WithBlocks
<1>12. {e.name : e \in job'[h].peers} = before.json \cup {n}
  <2>1. job'[h].peers = json.peers \cup {entry}
    BY <1>2, <1>4 DEF entry
  <2>2. before.json = {e.name : e \in json.peers}
    BY <1>7, JsonNames
  <2> QED BY <1>6, <2>1, <2>2
<1>13. job[h].call.op = "create" /\ job[h].call.peers = {n}
  BY <1>4 DEF Call
<1>14. Answer(before, job[h].call) = Result(WithPeers(before, {n}), "ok")
  BY <1>10, <1>13 DEF Answer, CreateResult
<1>15. MayFail(job[h].call)' /\ MayLoseJson(job[h].call)'
  <2>1. BadAnswers(before, job[h].call) = CreateFaults(before, {n})
    BY <1>13 DEF BadAnswers
  <2>2. \A r \in {"status", "error"} : Result(StoreNow', r) \in CreateFaults(before, {n})
    BY <1>10, <1>11 DEF CreateFaults, Failed, Result
  <2>3. \A r \in {"status", "error"} : Result(JsonLost(StoreNow'), r) \in CreateFaults(before, {n})
    BY <1>10, <1>11 DEF CreateFaults, Failed, Result
  <2> QED BY <1>1, <1>2, <2>1, <2>2, <2>3 DEF MayFail, MayLoseJson, FailsIn
<1>16. Saves(job[h])'
  <2>1. \A e \in job'[h].peers : e.name = e.key.name /\ e.key.name \in asked'
    BY <1>1, <1>2, <1>4, <1>6, <1>7 DEF FilesSound, entry
  <2>2. OneKeyPerName(conf'.blocks \cup job'[h].peers)
    BY <1>2, <1>4, <1>5, <1>6, <1>7 DEF FilesSound, OneKeyPerName, entry
  <2>3. [conf |-> StoreNow'.conf, json |-> {e.name : e \in job'[h].peers}, torn |-> StoreNow'.torn]
          = WithPeers(before, {n})
    BY <1>11, <1>12 DEF WithPeers, WithBlocks
  <2> QED BY <1>1, <1>2, <1>13, <1>14, <2>1, <2>2, <2>3 DEF Saves
<1>17. JobSound(job[h])'
  BY <1>2, <1>3, <1>15, <1>16 DEF JobSound
<1> QED BY <1>1, <1>8, <1>17, OthersSound DEF ContractInv

LEMMA SaveSound ==
    ASSUME TypeOK, TypeOK', ContractInv, NEW h \in Handlers, SavePeers(h)
    PROVE  ContractInv'
<1>1. /\ mu' = h /\ UNCHANGED <<conf, asked, before>> /\ job[h].pc = "save"
      /\ json' = [json EXCEPT !.peers = job[h].peers]
  BY NoOneIsNone DEF SavePeers, Proceeds
<1>2. job'[h].pc = "sync" /\ job'[h].call = job[h].call
  BY DEF SavePeers, Proceeds, TypeOK, Job
<1>3. json'.peers = job[h].peers /\ json'.whole = json.whole
  BY <1>1 DEF TypeOK, Json
<1>4. FilesSound /\ job[h].call \in Calls /\ Saves(job[h])
  BY <1>1 DEF ContractInv, JobSound
<1>5. FilesSound'
  BY <1>1, <1>3, <1>4 DEF FilesSound, Saves
<1>6. StoreNow' = [conf |-> StoreNow.conf, json |-> {e.name : e \in job[h].peers},
                   torn |-> StoreNow.torn]
  <2>1. StoreNow'.conf = StoreNow.conf
    BY <1>1, StateOfIn DEF StoreNow
  <2>2. StoreNow'.torn = StoreNow.torn
    BY <1>1, <1>3, TornIs
  <2> QED BY <1>3, <2>1, <2>2, JsonNamesNext
<1>7. Result(StoreNow', "ok") = Answer(before', job'[h].call)
  BY <1>1, <1>2, <1>4, <1>6 DEF Saves
<1>8. MayFail(job[h].call)'
  BY <1>2, <1>4, <1>7, DoneMayFail DEF MayFail, FailsIn
<1>9. JobSound(job[h])'
  BY <1>2, <1>4, <1>7, <1>8 DEF JobSound
<1> QED BY <1>1, <1>5, <1>9, OthersSound DEF ContractInv

\* Two peers of peers.json with one name have one key.
LEMMA OneKey ==
    ASSUME FilesSound, NEW x \in conf.blocks \cup json.peers, NEW y \in conf.blocks \cup json.peers,
           x.key.name = y.key.name
    PROVE  x.key = y.key
BY DEF FilesSound, OneKeyPerName

LEMMA RemoveSound ==
    ASSUME TypeOK, TypeOK', ContractInv, NEW h \in Handlers, RemoveBlock(h)
    PROVE  ContractInv'
<1> DEFINE ns == job[h].call.peers
           todo == job[h].todo
<1>1. PICK key \in todo : RemovesKey(h, key)
  BY RemoveStep
<1>2. mu' = h /\ UNCHANGED <<json, asked, before>> /\ job[h].pc = "remove"
  BY NoOneIsNone DEF RemoveBlock
<1>3. /\ conf'.blocks = {b \in conf.blocks : b.key # key} /\ conf'.whole = conf.whole
      /\ job'[h].pc = (IF todo = {key} THEN "save" ELSE "remove")
      /\ job'[h].call = job[h].call /\ job'[h].peers = job[h].peers /\ job'[h].todo = todo \ {key}
  BY <1>1 DEF RemovesKey
<1>4. FilesSound /\ job[h].call \in Calls /\ Removes(job[h])
  BY <1>2 DEF ContractInv, JobSound
<1>5. /\ job[h].call.op = "delete"
      /\ job[h].peers = json.peers \ Matching(ns) /\ Matching(ns) # {}
      /\ todo \subseteq {e.key : e \in Matching(ns)}
      /\ before.json = StoreNow.json /\ before.torn = StoreNow.torn
      /\ \A n \in Names : StateOf(n) = IF n \in ns \cap before.json /\ \A k \in todo : k.name # n
                                        THEN "absent" ELSE before.conf[n]
  BY <1>4 DEF Removes
<1>6. FilesSound'
  BY <1>2, <1>3, <1>4 DEF FilesSound, OneKeyPerName, OneBlockPerKey
<1>7. Matching(ns)' = Matching(ns)
  BY <1>2, <1>3 DEF Matching
<1>8. StoreNow'.json = before.json /\ StoreNow'.torn = before.torn
  BY <1>2, <1>3, <1>5, JsonNames, JsonNamesNext, TornIs
<1> HIDE DEF todo, ns
<1>9. PICK e \in Matching(ns) : e.key = key
  BY <1>5
<1>10. e \in json.peers /\ e.name = key.name /\ key.name \in ns /\ e.key.name = key.name
  BY <1>4, <1>9 DEF Matching, FilesSound
<1>11. key.name \in ns \cap before.json
  BY <1>5, <1>10, JsonNames
\* The key was the only one of its name, and its block the only one with that key.
<1>12. \A k \in todo : k.name = key.name => k = key
  <2> SUFFICES ASSUME NEW k \in todo, k.name = key.name PROVE k = key
    OBVIOUS
  <2>1. PICK f \in Matching(ns) : f.key = k
    BY <1>5
  <2> QED BY <1>4, <1>9, <1>10, <2>1, OneKey DEF Matching
<1>13. \A b \in conf.blocks : b.key.name = key.name => b.key = key
  BY <1>4, <1>9, <1>10, OneKey
<1>14. \A n \in Names : StateIn(conf'.blocks, n) =
          IF n \in ns \cap before.json /\ \A k \in todo \ {key} : k.name # n
            THEN "absent" ELSE before.conf[n]
  <2> SUFFICES ASSUME NEW n \in Names
               PROVE  StateIn(conf'.blocks, n) =
                        IF n \in ns \cap before.json /\ \A k \in todo \ {key} : k.name # n
                          THEN "absent" ELSE before.conf[n]
    OBVIOUS
  <2>1. CASE n = key.name
    <3>1. \A b \in conf'.blocks : b.key.name # n
      BY <1>3, <1>13, <2>1
    <3>2. StateIn(conf'.blocks, n) = "absent"
      BY <3>1 DEF StateIn
    <3> QED BY <1>11, <1>12, <2>1, <3>2
  <2>2. CASE n # key.name
    <3>1. {b \in conf'.blocks : b.key.name = n} = {b \in conf.blocks : b.key.name = n}
      BY <1>3, <2>2
    <3>2. StateIn(conf'.blocks, n) = StateOf(n)
      BY <3>1, StateInSame, StateOfIn
    <3>3. (\A k \in todo \ {key} : k.name # n) <=> (\A k \in todo : k.name # n)
      BY <2>2
    <3> QED BY <1>5, <3>2, <3>3
  <2> QED BY <2>1, <2>2
<1> DEFINE part == {n \in ns \cap before.json : \A k \in todo \ {key} : k.name # n}
<1>15. before \in Store /\ before.json \subseteq Names
  BY DEF TypeOK, Store
<1>16. StoreNow' = WithoutBlocks(before, part)
  <2>1. StoreNow'.conf = WithoutBlocks(before, part).conf
    BY <1>14, JsonNamesNext DEF WithoutBlocks
  <2>2. /\ StoreNow'.json = WithoutBlocks(before, part).json
        /\ StoreNow'.torn = WithoutBlocks(before, part).torn
    BY <1>8 DEF WithoutBlocks
  <2> QED BY <2>1, <2>2, JsonNamesNext DEF WithoutBlocks
<1>17. /\ MayFail(job[h].call)' /\ MayLoseConf(job[h].call)'
       /\ todo = {key} => MayLoseJson(job[h].call)'
  <2>1. BadAnswers(before, job[h].call) = DeleteFaults(before, ns)
    BY <1>5 DEF BadAnswers, ns
  <2>2. part \in SUBSET (ns \cap before.json)
    OBVIOUS
  <2>3. StoreNow' \in {WithoutBlocks(before, p) : p \in SUBSET (ns \cap before.json)}
    BY <1>16, <2>2
  <2>4. ns \cap before.json # {}
    BY <1>11
  <2>5. \A r \in {"status", "error"} : Result(StoreNow', r) \in DeleteFaults(before, ns)
    BY <2>3, <2>4 DEF DeleteFaults, Failed, Result
  <2>6. ConfLost(StoreNow') = ConfLost(before)
    BY <1>8 DEF ConfLost
  <2>7. \A r \in {"status", "error"} : Result(ConfLost(StoreNow'), r) \in DeleteFaults(before, ns)
    BY <2>4, <2>6 DEF DeleteFaults, Failed, Result
  <2>8. ASSUME todo = {key}
        PROVE  \A r \in {"status", "error"} : Result(JsonLost(StoreNow'), r) \in DeleteFaults(before, ns)
    <3>1. StoreNow' = WithoutBlocks(before, ns \cap before.json)
      BY <1>16, <2>8
    <3> QED BY <2>4, <3>1 DEF DeleteFaults, Failed, Result
  <2> QED BY <1>2, <1>3, <2>1, <2>5, <2>7, <2>8 DEF MayFail, MayLoseConf, MayLoseJson, FailsIn
<1>18. CASE todo # {key}
  <2>1. job'[h].pc = "remove"
    BY <1>3, <1>18
  <2>2. Removes(job[h])'
    <3>1. \A n \in Names : StateOf(n)' =
             IF n \in ns \cap before'.json /\ \A k \in job'[h].todo : k.name # n
               THEN "absent" ELSE before'.conf[n]
      BY <1>2, <1>3, <1>14, StateOfIn
    <3>2. Matching(ns)' # {} /\ job'[h].peers = json'.peers \ Matching(ns)'
      BY <1>2, <1>3, <1>5, <1>7
    <3>3. job'[h].todo \subseteq {d.key : d \in Matching(ns)'}
      BY <1>3, <1>5, <1>7
    <3>4. job'[h].call = job[h].call
      BY <1>3
    <3> QED BY <1>2, <1>5, <1>7, <1>8, <3>1, <3>2, <3>3, <3>4 DEF Removes, ns
  <2> QED BY <1>2, <1>3, <1>4, <1>6, <1>17, <2>1, <2>2, OthersSound DEF ContractInv, JobSound
<1>19. CASE todo = {key}
  <2>1. job'[h].pc = "save" /\ part = ns \cap before.json
    BY <1>3, <1>19
  <2>2. {d.name : d \in job'[h].peers} = before.json \ ns
    <3>1. before.json = {d.name : d \in json.peers}
      BY <1>5, JsonNames
    <3>2. job'[h].peers = {d \in json.peers : d.name \notin ns}
      BY <1>3, <1>5 DEF Matching
    <3> QED BY <3>1, <3>2
  <2>3. [conf |-> StoreNow'.conf, json |-> {d.name : d \in job'[h].peers}, torn |-> StoreNow'.torn]
           = WithoutPeers(before, ns \cap before.json)
    BY <1>16, <2>1, <2>2 DEF WithoutPeers, WithoutBlocks
  <2>4. ns \cap before.json # {}
    BY <1>11
  <2>5. Answer(before, job[h].call) = Result(WithoutPeers(before, ns \cap before.json), "ok")
    BY <1>5, <2>4 DEF Answer, DeleteResult, ns
  <2>6. Saves(job[h])'
    <3>1. OneKeyPerName(conf'.blocks \cup job'[h].peers)
      BY <1>2, <1>3, <1>5, <1>6 DEF FilesSound, OneKeyPerName
    <3>2. \A d \in job'[h].peers : d.name = d.key.name /\ d.key.name \in asked'
      BY <1>2, <1>3, <1>5, <1>6 DEF FilesSound
    <3> QED BY <1>2, <1>3, <1>5, <2>3, <2>5, <3>1, <3>2 DEF Saves
  <2> QED BY <1>2, <1>3, <1>4, <1>6, <1>17, <2>1, <2>6, OthersSound DEF ContractInv, JobSound
<1> QED BY <1>18, <1>19

LEMMA ToggleSound ==
    ASSUME TypeOK, TypeOK', ContractInv, NEW h \in Handlers, ToggleBlocks(h)
    PROVE  ContractInv'
<1> DEFINE ns == job[h].call.peers
           todo == job[h].todo
           frozen == job[h].call.op = "freeze"
           new == {Toggled(b, todo, frozen) : b \in conf.blocks}
<1>1. mu' = h /\ UNCHANGED <<json, asked, before>> /\ job[h].pc = "toggle"
  BY NoOneIsNone DEF ToggleBlocks, Proceeds
<1>2. conf' = [conf EXCEPT !.blocks = new]
  BY DEF ToggleBlocks, ToggledBlocks
<1>3. conf'.blocks = new /\ conf'.whole = conf.whole
  <2> HIDE DEF new
  <2> QED BY <1>2 DEF TypeOK, Conf
<1>4. job'[h].pc = "sync" /\ job'[h].call = job[h].call
  BY DEF ToggleBlocks, Proceeds, TypeOK, Job
<1>5. FilesSound /\ job[h].call \in Calls /\ Toggles(job[h])
  BY <1>1 DEF ContractInv, JobSound
<1>6. /\ StoreNow = before /\ Matching(ns) # {} /\ todo = {e.key : e \in Matching(ns)}
      /\ job[h].call.op \in {"freeze", "unfreeze"}
  BY <1>5 DEF Toggles
\* New blocks and old.
<1>7. \A b \in conf.blocks : /\ Toggled(b, todo, frozen).key = b.key
                             /\ Toggled(b, todo, frozen).frozen =
                                   IF b.key \in todo THEN frozen ELSE b.frozen
  <2> SUFFICES ASSUME NEW b \in conf.blocks
               PROVE  /\ Toggled(b, todo, frozen).key = b.key
                      /\ Toggled(b, todo, frozen).frozen = IF b.key \in todo THEN frozen ELSE b.frozen
    OBVIOUS
  <2>1. b \in Block /\ frozen \in BOOLEAN
    BY DEF TypeOK, Conf
  <2> HIDE DEF frozen
  <2> QED BY <2>1, ToggledIs
<1>8. \A x \in conf'.blocks : \E b \in conf.blocks :
         x.key = b.key /\ x.frozen = IF b.key \in todo THEN frozen ELSE b.frozen
  <2> SUFFICES ASSUME NEW x \in new
               PROVE  \E b \in conf.blocks :
                        x.key = b.key /\ x.frozen = IF b.key \in todo THEN frozen ELSE b.frozen
    BY <1>3
  <2>1. PICK b \in conf.blocks : x = Toggled(b, todo, frozen)
    OBVIOUS
  <2> HIDE DEF new, frozen
  <2> QED BY <1>7, <2>1
<1>9. \A b \in conf.blocks : \E x \in conf'.blocks :
         x.key = b.key /\ x.frozen = IF b.key \in todo THEN frozen ELSE b.frozen
  <2> SUFFICES ASSUME NEW b \in conf.blocks
               PROVE  \E x \in conf'.blocks :
                        x.key = b.key /\ x.frozen = IF b.key \in todo THEN frozen ELSE b.frozen
    OBVIOUS
  <2>1. Toggled(b, todo, frozen) \in conf'.blocks
    BY <1>3
  <2> HIDE DEF new, frozen
  <2> QED BY <1>7, <2>1
<1>10. conf.blocks \in SUBSET Block /\ conf'.blocks \in SUBSET Block
  BY DEF TypeOK, Conf
<1>11. frozen \in BOOLEAN
  OBVIOUS
<1> HIDE DEF new, frozen, todo, ns
<1>12. FilesSound'
  <2>1. \A x \in conf'.blocks \cup json'.peers : \E b \in conf.blocks \cup json.peers : x.key = b.key
    BY <1>1, <1>8
  <2>2. OneBlockPerKey(conf'.blocks)
    <3> SUFFICES ASSUME NEW x \in conf'.blocks, NEW y \in conf'.blocks, x.key = y.key
                 PROVE  x = y
      BY DEF OneBlockPerKey
    <3>1. PICK b \in conf.blocks, d \in conf.blocks :
             x = Toggled(b, todo, frozen) /\ y = Toggled(d, todo, frozen)
      BY <1>3 DEF new
    <3>2. b.key = d.key
      BY <1>7, <3>1
    <3>3. b = d
      BY <1>5, <3>2 DEF FilesSound, OneBlockPerKey
    <3> QED BY <3>1, <3>3
  <2> QED BY <1>1, <1>3, <1>5, <2>1, <2>2 DEF FilesSound, OneKeyPerName
\* A block is toggled when its name is asked for and in peers.json.
<1>13. \A b \in conf.blocks : b.key \in todo <=> b.key.name \in ns \cap before.json
  <2> SUFFICES ASSUME NEW b \in conf.blocks
               PROVE  b.key \in todo <=> b.key.name \in ns \cap before.json
    OBVIOUS
  <2>1. ASSUME b.key \in todo
        PROVE  b.key.name \in ns \cap before.json
    <3>1. PICK e \in Matching(ns) : e.key = b.key
      BY <1>6, <2>1
    <3>2. e.name = b.key.name
      BY <1>5, <3>1 DEF Matching, FilesSound
    <3> QED BY <1>6, <3>2, MatchingNames
  <2>2. ASSUME b.key.name \in ns \cap before.json
        PROVE  b.key \in todo
    <3>1. PICK e \in Matching(ns) : e.name = b.key.name
      BY <1>6, <2>2, MatchingNames
    <3>2. e \in json.peers /\ e.key.name = b.key.name
      BY <1>5, <3>1 DEF Matching, FilesSound
    <3>3. e.key = b.key
      BY <1>5, <3>2, OneKey
    <3> QED BY <1>6, <3>1, <3>3
  <2> QED BY <2>1, <2>2
<1>14. \A n \in Names : StateIn(conf'.blocks, n) =
          IF n \in ns \cap before.json /\ before.conf[n] # "absent"
            THEN IF frozen THEN "frozen" ELSE "active" ELSE before.conf[n]
  <2> SUFFICES ASSUME NEW n \in Names
               PROVE  StateIn(conf'.blocks, n) =
                        IF n \in ns \cap before.json /\ before.conf[n] # "absent"
                          THEN IF frozen THEN "frozen" ELSE "active" ELSE before.conf[n]
    OBVIOUS
  <2>1. before.conf[n] = StateIn(conf.blocks, n)
    BY <1>6, JsonNames, StateOfIn
  <2>2. (\E x \in conf'.blocks : x.key.name = n) <=> (\E b \in conf.blocks : b.key.name = n)
    BY <1>8, <1>9
  <2>3. CASE n \in ns \cap before.json
    <3>1. \A x \in conf'.blocks : x.key.name = n => x.frozen = frozen
      BY <1>8, <1>13, <2>3
    <3> QED BY <1>10, <1>11, <2>1, <2>2, <2>3, <3>1, StateIs
  <2>4. CASE n \notin ns \cap before.json
    <3>1. \A x \in conf'.blocks : x.key.name = n =>
             \E b \in conf.blocks : b.key.name = n /\ x.frozen = b.frozen
      BY <1>8, <1>13, <2>4
    <3>2. \A b \in conf.blocks : b.key.name = n =>
             \E x \in conf'.blocks : x.key.name = n /\ x.frozen = b.frozen
      BY <1>9, <1>13, <2>4
    <3>3. StateIn(conf'.blocks, n) = StateIn(conf.blocks, n)
      BY <3>1, <3>2 DEF StateIn
    <3> QED BY <2>1, <2>4, <3>3
  <2> QED BY <2>3, <2>4
<1>15. before \in Store
  BY DEF TypeOK
<1>16. StoreNow'.json = before.json /\ StoreNow'.torn = before.torn
  BY <1>1, <1>3, <1>6, JsonNames, JsonNamesNext, TornIs
<1>17. Result(StoreNow', "ok") = Answer(before, job[h].call)
  <2>1. ns \cap before.json # {}
    BY <1>6, MatchingNames
  <2>2. \A n \in Names : before.conf[n] \in {"absent", "active", "frozen"}
    BY <1>15 DEF Store, BlockState
  <2>3. CASE frozen
    <3>1. StoreNow'.conf = Frozen(before, ns).conf
      BY <1>14, <2>2, <2>3, JsonNamesNext DEF Frozen, WithState
    <3>2. StoreNow' = Frozen(before, ns)
      BY <1>16, <3>1, JsonNamesNext DEF Frozen, WithState
    <3> QED BY <2>1, <2>3, <3>2 DEF Answer, FreezeResult, frozen, ns
  <2>4. CASE ~frozen
    <3>1. StoreNow'.conf = Unfrozen(before, ns).conf
      BY <1>14, <2>2, <2>4, JsonNamesNext DEF Unfrozen, WithState
    <3>2. StoreNow' = Unfrozen(before, ns)
      BY <1>16, <3>1, JsonNamesNext DEF Unfrozen, WithState
    <3>3. job[h].call.op = "unfreeze"
      BY <1>6, <2>4 DEF frozen
    <3> QED BY <2>1, <3>2, <3>3 DEF Answer, UnfreezeResult, ns
  <2> QED BY <2>3, <2>4
<1>18. MayFail(job[h].call)'
  BY <1>1, <1>4, <1>5, <1>17, DoneMayFail DEF MayFail, FailsIn
<1>19. JobSound(job[h])'
  BY <1>1, <1>4, <1>5, <1>17, <1>18 DEF JobSound
<1> QED BY <1>1, <1>12, <1>19, OthersSound DEF ContractInv

LEMMA ContractInit == Init => ContractInv
<1> SUFFICES ASSUME Init PROVE ContractInv
  OBVIOUS
<1>1. FilesSound
  BY DEF Init, FilesSound, OneKeyPerName, OneBlockPerKey
<1>2. \A h \in Handlers : job[h].pc = "idle"
  BY DEF Init, IdleJob
<1> QED BY <1>1, <1>2 DEF ContractInv, JobSound

\* A freeze or unfreeze that changes a block changes what the backend sees.
LEMMA WritingShows ==
    ASSUME TypeOK, ContractInv, NEW h \in Handlers, job[h].pc = "toggle",
           ToggledBlocks(h) # conf.blocks
    PROVE  MayLoseConf(job[h].call)
<1> DEFINE c == job[h].call
           ns == c.peers
           todo == job[h].todo
           frozen == c.op = "freeze"
<1>1. FilesSound /\ c \in Calls /\ Toggles(job[h])
  BY DEF ContractInv, JobSound
<1>2. /\ StoreNow = before /\ todo = {e.key : e \in Matching(ns)}
      /\ c.op \in {"freeze", "unfreeze"}
  BY <1>1 DEF Toggles
<1>3. PICK b \in conf.blocks : Toggled(b, todo, frozen) # b
  <2>1. ASSUME \A b \in conf.blocks : Toggled(b, todo, frozen) = b
        PROVE  FALSE
    <3>1. ToggledBlocks(h) = {b : b \in conf.blocks}
      BY <2>1 DEF ToggledBlocks
    <3> QED BY <3>1
  <2> QED BY <2>1
<1>4. conf.blocks \in SUBSET Block /\ frozen \in BOOLEAN
  BY DEF TypeOK, Conf
<1>5. b.key \in todo /\ b.frozen # frozen
  <2> HIDE DEF todo, frozen
  <2>1. b \in Block
    BY <1>4
  <2> QED BY <1>3, <1>4, <2>1 DEF Toggled, Block
<1> DEFINE n == b.key.name
<1>6. n \in ns \cap before.json /\ n \in Names
  <2>1. PICK e \in Matching(ns) : e.key = b.key
    BY <1>2, <1>5
  <2>2. e.name = n
    BY <1>1, <2>1 DEF Matching, FilesSound
  <2>3. n \in before.json /\ n \in ns
    BY <1>2, <2>1, <2>2, MatchingNames
  <2> QED BY <2>3 DEF TypeOK, Store
\* Its block is the only one of its name.
<1>7. \A x \in conf.blocks : x.key.name = n => x = b
  <2> SUFFICES ASSUME NEW x \in conf.blocks, x.key.name = n PROVE x = b
    OBVIOUS
  <2>1. x.key = b.key
    BY <1>1, OneKey
  <2> QED BY <1>1, <2>1 DEF FilesSound, OneBlockPerKey
<1>8. before.conf[n] = IF b.frozen THEN "frozen" ELSE "active"
  <2>1. before.conf[n] = StateIn(conf.blocks, n)
    BY <1>2, <1>6, JsonNames, StateOfIn
  <2>2. b.frozen \in BOOLEAN
    BY <1>4 DEF Block
  <2> HIDE DEF n
  <2>3. b.key.name = n
    BY DEF n
  <2> QED BY <1>4, <1>7, <2>1, <2>2, <2>3, StateIs
<1> HIDE DEF n, frozen
<1>9. CASE frozen
  <2>1. c.op = "freeze" /\ before.conf[n] = "active"
    BY <1>4, <1>5, <1>8, <1>9 DEF frozen, Block
  <2>2. Frozen(before, ns).conf[n] = "frozen"
    BY <1>6, <2>1 DEF Frozen, WithState
  <2>3. BadAnswers(before, c) = WriteFaults(before, Frozen(before, ns))
    BY <2>1 DEF BadAnswers, FreezeFaults
  <2>4. Frozen(before, ns) # before
    BY <2>1, <2>2
  <2>5. \A r \in {"status", "error"} : Result(ConfLost(before), r) \in BadAnswers(before, c)
    BY <2>3, <2>4 DEF WriteFaults, Failed, Result
  <2> QED BY <1>2, <2>5 DEF MayLoseConf, FailsIn
<1>10. CASE ~frozen
  <2>1. c.op = "unfreeze" /\ before.conf[n] = "frozen"
    BY <1>2, <1>4, <1>5, <1>8, <1>10 DEF frozen, Block
  <2>2. Unfrozen(before, ns).conf[n] = "active"
    BY <1>6, <2>1 DEF Unfrozen, WithState
  <2>3. BadAnswers(before, c) = WriteFaults(before, Unfrozen(before, ns))
    BY <2>1 DEF BadAnswers, UnfreezeFaults
  <2>4. Unfrozen(before, ns) # before
    BY <2>1, <2>2
  <2>5. \A r \in {"status", "error"} : Result(ConfLost(before), r) \in BadAnswers(before, c)
    BY <2>3, <2>4 DEF WriteFaults, Failed, Result
  <2> QED BY <1>2, <2>5 DEF MayLoseConf, FailsIn
<1> QED BY <1>9, <1>10

\* What a failed write leaves, torn or not, is what the contract allows.
LEMMA FailsSound ==
    ASSUME TypeOK, TypeOK', ContractInv, NEW h \in Handlers, mu = h, mu' = NoOne,
           UNCHANGED asked, conf' \in ConfAfterFailure(h), json' \in JsonAfterFailure(h)
    PROVE  ContractInv' /\ FailsIn(StoreNow', job[h].call)
<1>1. conf'.blocks \subseteq conf.blocks /\ json'.peers \subseteq json.peers
  BY DEF ConfAfterFailure, JsonAfterFailure, EmptyConf, EmptyJson
<1>2. FilesSound'
  BY <1>1 DEF ContractInv, FilesSound, OneKeyPerName, OneBlockPerKey
<1>3. JobSound(job[h]) /\ job[h].pc # "idle"
  BY DEF ContractInv, TypeOK
<1>4. CASE UNCHANGED <<conf, json>>
  <2>1. StoreNow' = StoreNow
    BY <1>4, StoreSame
  <2> QED BY <1>2, <1>3, <2>1, AllSound DEF ContractInv, JobSound, MayFail
<1>5. CASE Writing(h) /\ conf' = EmptyConf /\ json' = json
  <2>1. MayLoseConf(job[h].call)
    BY <1>3, <1>5, WritingShows DEF Writing, JobSound
  <2>2. conf'.blocks = {} /\ conf'.whole = FALSE
    BY <1>5 DEF EmptyConf
  <2>3. StoreNow'.conf = [n \in Names |-> "absent"]
    BY <2>2, JsonNamesNext DEF StateIn
  <2>4. StoreNow'.torn = StoreNow.torn \cup {"conf"} /\ StoreNow'.json = StoreNow.json
    BY <1>5, <2>2 DEF StoreNow
  <2>5. StoreNow' = ConfLost(StoreNow)
    BY <2>3, <2>4, JsonNamesNext DEF ConfLost
  <2> QED BY <1>2, <2>1, <2>5, AllSound DEF ContractInv, MayLoseConf
<1>6. CASE job[h].pc = "save" /\ json' = EmptyJson /\ conf' = conf
  <2>1. MayLoseJson(job[h].call)
    BY <1>3, <1>6 DEF JobSound
  <2>2. json'.peers = {} /\ json'.whole = FALSE
    BY <1>6 DEF EmptyJson
  <2>3. StoreNow'.conf = StoreNow.conf
    BY <1>6, StateOfIn DEF StoreNow
  <2>4. StoreNow'.torn = StoreNow.torn \cup {"json"} /\ StoreNow'.json = {}
    BY <1>6, <2>2 DEF StoreNow
  <2>5. StoreNow' = JsonLost(StoreNow)
    BY <2>3, <2>4, JsonNamesNext DEF JsonLost
  <2> QED BY <1>2, <2>1, <2>5, AllSound DEF ContractInv, MayLoseJson
<1> QED BY <1>4, <1>5, <1>6 DEF ConfAfterFailure, JsonAfterFailure, Writing

LEMMA JobSame ==
    ASSUME ContractInv, UNCHANGED <<conf, json, asked, before, job>>
    PROVE  ContractInv'
<1>1. FilesSound'
  BY SoundSame DEF ContractInv
<1>2. ASSUME NEW h \in Handlers
      PROVE  JobSound(job[h])'
  <2>1. StoreNow' = StoreNow /\ \A n : StateOf(n)' = StateOf(n) /\ Matching(n)' = Matching(n)
    BY StoreSame DEF StateOf, Matching
  <2>2. JobSound(job[h])
    BY DEF ContractInv
  <2>3. job'[h] = job[h]
    OBVIOUS
  <2>4. /\ MayFail(job[h].call) => MayFail(job[h].call)'
        /\ MayLoseConf(job[h].call) => MayLoseConf(job[h].call)'
        /\ MayLoseJson(job[h].call) => MayLoseJson(job[h].call)'
        /\ Appends(job[h]) => Appends(job[h])'
        /\ Removes(job[h]) => Removes(job[h])'
        /\ Toggles(job[h]) => Toggles(job[h])'
        /\ Saves(job[h]) => Saves(job[h])'
    BY <2>1, <2>3 DEF MayFail, MayLoseConf, MayLoseJson, FailsIn, Appends, Removes, Toggles, Saves
  <2> QED BY <2>1, <2>2, <2>4 DEF JobSound
<1> QED BY <1>1, <1>2 DEF ContractInv

LEMMA ContractNext ==
    ASSUME ~NamesReused, TypeOK, TypeOK', ContractInv, [Next]_vars
    PROVE  ContractInv'
<1>1. ASSUME NEW h \in Handlers, Begins(h)
      PROVE  ContractInv'
  <2>1. ASSUME NEW n \in Names, CreatePeer(h, n)
        PROVE  ContractInv'
    BY <2>1, CreateSound
  <2>2. ASSUME NEW ns \in SUBSET Names, DeletePeers(h, ns)
        PROVE  ContractInv'
    BY <2>2, DeleteSound
  <2>3. ASSUME NEW ns \in SUBSET Names, NEW op \in {"freeze", "unfreeze"}, FreezePeers(h, op, ns)
        PROVE  ContractInv'
    BY <2>3, FreezeSound
  <2> QED BY <1>1, <2>1, <2>2, <2>3 DEF Begins
<1>2. ASSUME NEW h \in Handlers, AppendBlock(h) \/ RemoveBlock(h) \/ SavePeers(h) \/ ToggleBlocks(h)
      PROVE  ContractInv'
  BY <1>2, AppendSound, RemoveSound, SaveSound, ToggleSound
<1>3. ASSUME NEW h \in Handlers, SyncAndReply(h)
      PROVE  ContractInv'
  BY <1>3, SoundSame, AllSound DEF SyncAndReply, Replies, ContractInv
<1>4. ASSUME NEW h \in Handlers, HandlerFails(h)
      PROVE  ContractInv'
  BY <1>4, FailsSound DEF HandlerFails, Replies
<1>5. ASSUME Crash
      PROVE  ContractInv'
  <2>1. mu \in Handlers
    BY <1>5 DEF Crash, TypeOK
  <2> QED BY <1>5, <2>1, FailsSound DEF Crash, Replies
<1>6. CASE HandleSync \/ (\E s \in Syncs : ReadConf(s) \/ ApplyConf(s) \/ SyncFails(s)) \/ UNCHANGED vars
  BY <1>6, JobSame DEF HandleSync, ReadConf, ApplyConf, SyncFails, vars
<1> QED BY <1>1, <1>2, <1>3, <1>4, <1>5, <1>6 DEF Next, Works

----------------------------------------------------------------------------
(* The contract: the refinement *)

\* The store the backend sees: while a handler works, the one it found.
Seen == IF mu = NoOne THEN StoreNow ELSE before

LEMMA AnswerIs ==
    ASSUME NEW s, NEW c
    PROVE  /\ Contract!Answer(s, c) = Answer(s, c)
           /\ Contract!BadAnswers(s, c) = BadAnswers(s, c)
BY DEF Contract!Answer, Answer, Contract!BadAnswers, BadAnswers,
       Contract!CreateResult, CreateResult, Contract!DeleteResult, DeleteResult,
       Contract!FreezeResult, FreezeResult, Contract!UnfreezeResult, UnfreezeResult,
       Contract!Result, Result, Contract!WithPeers, WithPeers, Contract!WithBlocks, WithBlocks,
       Contract!WithoutPeers, WithoutPeers, Contract!WithoutBlocks, WithoutBlocks,
       Contract!Frozen, Frozen, Contract!Unfrozen, Unfrozen, Contract!WithState, WithState,
       Contract!CreateFaults, CreateFaults, Contract!DeleteFaults, DeleteFaults,
       Contract!FreezeFaults, FreezeFaults, Contract!UnfreezeFaults, UnfreezeFaults,
       Contract!Failed, Failed, Contract!CreateRefused, CreateRefused,
       Contract!ConfLost, ConfLost, Contract!JsonLost, JsonLost,
       Contract!WriteFaults, WriteFaults

\* A call is served: the reply r to c, with what it left.
Serves(c, r) ==
    /\ last' = [call |-> c, reply |-> r]
    /\ \/ Result(Seen', r) = Answer(Seen, c)
       \/ Result(Seen', r) \in BadAnswers(Seen, c)

LEMMA ServesIs ==
    ASSUME NEW c \in Calls, NEW r, Serves(c, r)
    PROVE  Contract!Next
<1> DEFINE o == Result(Seen', r)
<1>1. o.store = Seen' /\ o.reply = r
  BY DEF Result
<1>2. Contract!Serve(c, o)
  BY <1>1 DEF Serves, Contract!Serve, Seen
<1>3. c \in Contract!Calls
  BY DEF Contract!Calls, Calls
<1>4. \/ o = Contract!Answer(Seen, c)
      \/ o \in Contract!BadAnswers(Seen, c)
  BY AnswerIs DEF Serves
<1> HIDE DEF o
<1> QED BY <1>2, <1>3, <1>4 DEF Contract!Next, Seen

LEMMA SeenSame ==
    ASSUME Seen' = Seen, last' = last
    PROVE  UNCHANGED Contract!vars
BY DEF Contract!vars, Seen

LEMMA StartIs == Init => Contract!Init
<1> SUFFICES ASSUME Init PROVE Contract!Init
  OBVIOUS
<1>1. Seen = EmptyStore
  BY DEF Init, Seen, StoreNow, StateOf, EmptyStore
<1>2. last = Contract!Silence
  BY DEF Init, Contract!Silence, Contract!Call, NoCall, Call
<1> QED BY <1>1, <1>2 DEF Contract!Init, Contract!EmptyStore, EmptyStore, Seen

\* A handler that begins: the store is what it was, whether it answers or takes the mutex.
LEMMA BeginStep ==
    ASSUME TypeOK, ContractInv, NEW h \in Handlers, Begins(h)
    PROVE  Contract!Next \/ UNCHANGED Contract!vars
<1>1. UNCHANGED <<conf, json>>
  BY DEF Begins, CreatePeer, DeletePeers, FreezePeers
<1>2. StoreNow' = StoreNow /\ StoreNow \in Store
  BY <1>1, StoreSame, StoreNowTyped
<1>3. ASSUME NEW j, Serve(h, j)
      PROVE  UNCHANGED Contract!vars
  <2>1. mu = NoOne /\ mu' # NoOne /\ before' = StoreNow /\ last' = last
    BY <1>3, HandlersAssumption DEF Serve
  <2> QED BY <2>1, SeenSame DEF Seen
<1>4. ASSUME NEW c \in Calls, Refuse(c)
      PROVE  Contract!Next
  <2>1. Seen = StoreNow /\ Seen' = StoreNow /\ last' = [call |-> c, reply |-> "status"]
    BY <1>2, <1>4 DEF Refuse, Seen
  <2>2. Result(StoreNow, "status") \in BadAnswers(StoreNow, c)
    BY <1>2, NothingMayFail
  <2> QED BY <2>1, <2>2, ServesIs DEF Serves
<1>5. ASSUME NEW n \in Names, CreatePeer(h, n)
      PROVE  Contract!Next \/ UNCHANGED Contract!vars
  <2>1. Call("create", {n}) \in Calls
    BY CallTyped
  <2> QED BY <1>3, <1>4, <1>5, <2>1 DEF CreatePeer
<1>6. ASSUME NEW ns \in SUBSET Names, DeletePeers(h, ns)
      PROVE  Contract!Next \/ UNCHANGED Contract!vars
  <2>1. Call("delete", ns) \in Calls
    BY CallTyped
  <2> QED BY <1>3, <1>4, <1>6, <2>1 DEF DeletePeers
<1>7. ASSUME NEW ns \in SUBSET Names, NEW op \in {"freeze", "unfreeze"}, FreezePeers(h, op, ns)
      PROVE  Contract!Next \/ UNCHANGED Contract!vars
  <2>1. Call(op, ns) \in Calls
    BY CallTyped
  <2> QED BY <1>3, <1>4, <1>7, <2>1 DEF FreezePeers
<1> QED BY <1>5, <1>6, <1>7 DEF Begins

\* A handler that ends, well or not.
LEMMA ReplyStep ==
    ASSUME TypeOK, ContractInv, NEW h \in Handlers, mu = h, NEW r \in Reply, Replies(h, r),
           \/ r = "ok" /\ job[h].pc = "sync" /\ UNCHANGED <<conf, json>>
           \/ r # "ok" /\ FailsIn(StoreNow', job[h].call)
    PROVE  Contract!Next
<1>1. Seen = before /\ Seen' = StoreNow' /\ last' = [call |-> job[h].call, reply |-> r]
  BY HandlersAssumption DEF Replies, Seen
<1>2. JobSound(job[h]) /\ job[h].call \in Calls
  BY DEF ContractInv, JobSound, TypeOK
<1>3. CASE r = "ok"
  <2>1. Result(StoreNow', "ok") = Answer(before, job[h].call)
    BY <1>2, <1>3, StoreSame DEF JobSound
  <2> QED BY <1>1, <1>2, <1>3, <2>1, ServesIs DEF Serves
<1>4. CASE r # "ok"
  <2>1. r \in {"status", "error"}
    BY <1>4 DEF Reply
  <2> QED BY <1>1, <1>2, <1>4, <2>1, ServesIs DEF Serves, FailsIn
<1> QED BY <1>3, <1>4

LEMMA StepIs ==
    ASSUME ~NamesReused, TypeOK, TypeOK', ContractInv, [Next]_vars
    PROVE  Contract!Next \/ UNCHANGED Contract!vars
<1>1. ASSUME NEW h \in Handlers, Begins(h)
      PROVE  Contract!Next \/ UNCHANGED Contract!vars
  BY <1>1, BeginStep
\* A write under the mutex is not seen.
<1>2. ASSUME NEW h \in Handlers, AppendBlock(h) \/ RemoveBlock(h) \/ SavePeers(h) \/ ToggleBlocks(h)
      PROVE  UNCHANGED Contract!vars
  <2>1. UNCHANGED <<mu, before, last>> /\ job[h].pc # "idle"
    BY <1>2 DEF AppendBlock, RemoveBlock, SavePeers, ToggleBlocks, Proceeds
  <2>2. mu # NoOne
    BY <2>1, NoOneIsNone, HandlersAssumption
  <2> QED BY <2>1, <2>2, SeenSame DEF Seen
<1>3. ASSUME NEW h \in Handlers, SyncAndReply(h)
      PROVE  Contract!Next
  <2>1. job[h].pc = "sync" /\ UNCHANGED <<conf, json>> /\ Replies(h, "ok")
    BY <1>3 DEF SyncAndReply
  <2> QED BY <2>1, NoOneIsNone, ReplyStep DEF Reply
<1>4. ASSUME NEW h \in Handlers, HandlerFails(h)
      PROVE  Contract!Next
  <2>1. mu = h /\ Replies(h, "status")
    BY <1>4 DEF HandlerFails
  <2>2. FailsIn(StoreNow', job[h].call)
    BY <1>4, FailsSound DEF HandlerFails, Replies
  <2> QED BY <2>1, <2>2, ReplyStep DEF Reply
<1>5. ASSUME Crash
      PROVE  Contract!Next
  <2>1. mu \in Handlers /\ Replies(mu, "error")
    BY <1>5 DEF Crash, TypeOK
  <2>2. FailsIn(StoreNow', job[mu].call)
    BY <1>5, <2>1, FailsSound DEF Crash, Replies
  <2> QED BY <2>1, <2>2, ReplyStep DEF Reply
<1>6. CASE HandleSync \/ (\E s \in Syncs : ReadConf(s) \/ ApplyConf(s) \/ SyncFails(s)) \/ UNCHANGED vars
  <2>1. UNCHANGED <<conf, json, mu, before, last>>
    BY <1>6 DEF HandleSync, ReadConf, ApplyConf, SyncFails, vars
  <2> QED BY <2>1, StoreSame, SeenSame DEF Seen
<1> QED BY <1>1, <1>2, <1>3, <1>4, <1>5, <1>6 DEF Next, Works

\* The worker implements the contract the panel's model takes for granted: seen when
\* the mutex is free, every call takes the two files together from one store to
\* another as WorkerApi says, with the reply it says, also when a write or the exec
\* fails, a file is left empty by the write that failed, the worker is killed between
\* two writes, and whatever the syncconf processes do; as long as a name is asked for
\* once.
THEOREM ContractHolds ==
    ASSUME ~NamesReused
    PROVE  Spec => ImplementsContract
<1>1. TypeOK /\ TypeOK' /\ ContractInv /\ [Next]_vars => ContractInv'
  BY ContractNext
<1>2. TypeOK /\ TypeOK' /\ ContractInv /\ [Next]_vars => [Contract!Next]_Contract!vars
  BY StepIs
<1> QED BY ContractInit, StartIs, WorkerTypes, <1>1, <1>2, PTL
        DEF Spec, ImplementsContract, Contract!Spec
=============================================================================
