------------------------------ MODULE WorkerApi ------------------------------
(***************************************************************************)
(* The contract of the worker's HTTP API (cmd/worker), as a function from  *)
(* the store it keeps to the store and the reply a call may end in.  The   *)
(* worker keeps a peer twice: as a [Peer] block of awg0.conf, which is     *)
(* frozen when its AllowedIPs line is commented out, and as an entry of    *)
(* peers.json.  Each mutating handler holds Server.mu from its first line  *)
(* to its last, so a call is one step here.  It writes the conf before     *)
(* the json and runs syncconf after both, so a call that fails midway      *)
(* leaves a prefix of its effect behind; and os.WriteFile truncates before *)
(* it writes, so the write that fails may leave a file empty, with every   *)
(* peer in it gone: the *Faults operators.                                 *)
(***************************************************************************)
CONSTANT PeerNames      \* the names ("<user>.<row>") peers are created under

\* What awg0.conf says of a peer.
BlockState == {"absent", "active", "frozen"}

\* "ok" is a status below 400, "status" one of 400 and above, "error" a call
\* the client's Do or decoding failed on: timeout, broken connection, cancel.
Reply == {"ok", "status", "error"}

\* torn: the files a failed write has left empty.  An empty awg0.conf has no
\* Address to take addresses from, an empty peers.json is not JSON.
Store == [conf : [PeerNames -> BlockState], json : SUBSET PeerNames,
          torn : SUBSET {"conf", "json"}]

EmptyStore == [conf |-> [n \in PeerNames |-> "absent"], json |-> {}, torn |-> {}]

\* A write of awg0.conf, or of peers.json, has failed after it truncated the file.
ConfLost(s) == [conf |-> [n \in PeerNames |-> "absent"], json |-> s.json,
                torn |-> s.torn \cup {"conf"}]

JsonLost(s) == [conf |-> s.conf, json |-> {}, torn |-> s.torn \cup {"json"}]

Result(s, r) == [store |-> s, reply |-> r]

\* A call whose target stores are ts and which went wrong somewhere: the
\* client sees an error status, or no usable reply at all.
Failed(ts) == [store : ts, reply : {"status", "error"}]

----------------------------------------------------------------------------
(* POST /api/peers *)

\* ns holds the one name of the request.
WithBlocks(s, ns) ==
    [conf |-> [n \in PeerNames |-> IF n \in ns THEN "active" ELSE s.conf[n]],
     json |-> s.json, torn |-> s.torn]

WithPeers(s, ns) == [conf |-> WithBlocks(s, ns).conf, json |-> s.json \cup ns,
                     torn |-> s.torn]

\* 409, the name exists; or 500, a file cannot be parsed.
CreateRefused(s, ns) == ns \subseteq s.json \/ s.torn # {}

CreateResult(s, ns) == IF CreateRefused(s, ns) THEN Result(s, "status")
                                               ELSE Result(WithPeers(s, ns), "ok")

CreateFaults(s, ns) ==
    IF CreateRefused(s, ns)
        THEN Failed({s})
        ELSE Failed({s, ConfLost(s), WithBlocks(s, ns),
                     JsonLost(WithBlocks(s, ns)), WithPeers(s, ns)})

----------------------------------------------------------------------------
(* DELETE /api/peers *)

WithoutBlocks(s, ns) ==
    [conf |-> [n \in PeerNames |-> IF n \in ns THEN "absent" ELSE s.conf[n]],
     json |-> s.json, torn |-> s.torn]

WithoutPeers(s, ns) == [conf |-> WithoutBlocks(s, ns).conf, json |-> s.json \ ns,
                        torn |-> s.torn]

\* (A mutant: deleting what is not there succeeds.)
DeleteResultAlways(s, ns) == Result(WithoutPeers(s, ns \cap s.json), "ok")

DeleteResult(s, ns) ==
    IF ns \cap s.json = {}
        THEN Result(s, "status")        \* 404, none found; 500 for a torn json
        ELSE Result(WithoutPeers(s, ns \cap s.json), "ok")

DeleteFaults(s, ns) ==
    LET found == ns \cap s.json IN
    IF found = {}
        THEN Failed({s})
        ELSE Failed({WithoutBlocks(s, part) : part \in SUBSET found}
                      \cup {ConfLost(s), JsonLost(WithoutBlocks(s, found)),
                            WithoutPeers(s, found)})

----------------------------------------------------------------------------
(* POST /api/peers/freeze and /api/peers/unfreeze *)

\* Only a block whose peer is in peers.json is toggled, and an absent block
\* stays absent; the file is written once, and only if a block changes.
WithState(s, ns, from, to) ==
    [conf |-> [n \in PeerNames |->
                 IF n \in ns \cap s.json /\ s.conf[n] = from THEN to ELSE s.conf[n]],
     json |-> s.json, torn |-> s.torn]

\* A call that was to take the store from s to t in one write of awg0.conf.
WriteFaults(s, t) == Failed({s, t} \cup (IF t = s THEN {} ELSE {ConfLost(s)}))

Frozen(s, ns) == WithState(s, ns, "active", "frozen")

Unfrozen(s, ns) == WithState(s, ns, "frozen", "active")

FreezeResult(s, ns) ==
    Result(Frozen(s, ns), IF ns \cap s.json = {} THEN "status" ELSE "ok")

FreezeFaults(s, ns) == WriteFaults(s, Frozen(s, ns))

UnfreezeResult(s, ns) ==
    Result(Unfrozen(s, ns), IF ns \cap s.json = {} THEN "status" ELSE "ok")

UnfreezeFaults(s, ns) == WriteFaults(s, Unfrozen(s, ns))

----------------------------------------------------------------------------
(* A call in flight *)

Calls == [op : {"create", "delete", "freeze", "unfreeze"}, peers : SUBSET PeerNames]

Call(op, ns) == [op |-> op, peers |-> ns]

\* What a call does when nothing fails.
Answer(s, c) ==
    CASE c.op = "create"   -> CreateResult(s, c.peers)
      [] c.op = "delete"   -> DeleteResult(s, c.peers)
      [] c.op = "freeze"   -> FreezeResult(s, c.peers)
      [] c.op = "unfreeze" -> UnfreezeResult(s, c.peers)

\* What it may do when a file, the container or the connection fails it.
BadAnswers(s, c) ==
    CASE c.op = "create"   -> CreateFaults(s, c.peers)
      [] c.op = "delete"   -> DeleteFaults(s, c.peers)
      [] c.op = "freeze"   -> FreezeFaults(s, c.peers)
      [] c.op = "unfreeze" -> UnfreezeFaults(s, c.peers)
=============================================================================
