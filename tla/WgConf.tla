-------------------------------- MODULE WgConf --------------------------------
(***************************************************************************)
(* awg0.conf as text (cmd/worker/wg.go).  An administrator writes the file *)
(* and goes on editing it; the worker finds its own peers in it line by    *)
(* line, appends, removes and comments out, and takes from it the next     *)
(* free address.  A handler is one step: its writes, their failures and    *)
(* the mutex are Worker's business.                                        *)
(***************************************************************************)
EXTENDS Integers, Sequences, FiniteSetsExt

CONSTANTS
    Names,          \* names of peers
    Addresses,      \* what Address of [Interface] may say
    HandWritten,    \* the files an administrator starts with, per Address
    Edits,          \* what an administrator may append, per Address
    MaxKeys,        \* bound: key pairs ever generated
    MaxEdits        \* bound: edits by hand

Foreign == "foreign"    \* labels the keys of peers the worker did not create
NoName == "none"

ASSUME NamesAssumption == {Foreign, NoName} \cap Names = {}

ASSUME BoundsAssumption == MaxKeys \in Nat /\ MaxEdits \in Nat

VARIABLES
    address,        \* Address of [Interface], which no one changes
    file,           \* the lines of awg0.conf
    peers,          \* peers.json
    nextKey,        \* generateKeyPair never returns the same pair twice
    edits,          \* edits by hand so far
    byHand,         \* history: the lines in force that were written by hand
    seen,           \* history: what the backend sees of the two files
    last            \* history: the last call and its reply

vars == <<address, file, peers, nextKey, edits, byHand, seen, last>>

INSTANCE WorkerApi WITH PeerNames <- Names

----------------------------------------------------------------------------
(* Lines *)

Headers == {"[Interface]", "[Peer]", "[Other]"}

\* What a line is once trimmed; "#" stands for either comment sign, "" for a blank
\* line, "text" for any other key and "#text" for any other comment, a commented
\* header among them.
Kinds == Headers \cup {"PublicKey", "#PublicKey", "AllowedIPs", "#AllowedIPs",
                       "text", "#text", ""}

NoKey == [name |-> NoName, serial |-> 0]
NoIP == -1

LineOf(names) == [is : Kinds, key : [name : names, serial : Nat], ip : Int]
Line == LineOf(Names \cup {Foreign, NoName})

Text(is) == [is |-> is, key |-> NoKey, ip |-> NoIP]
KeyLine(is, key) == [is |-> is, key |-> key, ip |-> NoIP]
IPLine(is, ip) == [is |-> is, key |-> NoKey, ip |-> ip]

Entry(n, k, i) == [name |-> n, key |-> k, ip |-> i]      \* a Peer of peers.json

Key(n, serial) == [name |-> n, serial |-> serial]

\* The lines from header i to the next one, or to the end of the file.
BlockAt(f, i) ==
    LET next == {h \in i+1..Len(f) : f[h].is \in Headers}
    IN {j \in i..Len(f) : \A h \in next : j < h}

PeerHeaders(f) == {i \in DOMAIN f : f[i].is = "[Peer]"}

\* parsePeerBlock: the last line of a kind decides, comments are passed over.
LastOf(f, i, is) ==
    LET js == {j \in BlockAt(f, i) : f[j].is = is}
    IN IF js = {} THEN Text("") ELSE f[Max(js)]

ParsedPeers(f) ==
    {[key |-> LastOf(f, i, "PublicKey").key, ip |-> LastOf(f, i, "AllowedIPs").ip]
        : i \in PeerHeaders(f)}

InForce(l) == l.is \notin {"", "#text", "#PublicKey", "#AllowedIPs"}

\* The lines of f at the places in keep, in their order.
Place(keep, k) == CHOOSE i \in keep : Cardinality({j \in keep : j <= i}) = k
Kept(f, keep) == [k \in 1..Cardinality(keep) |-> f[Place(keep, k)]]

AllInForce(f) == Kept(f, {i \in DOMAIN f : InForce(f[i])})

----------------------------------------------------------------------------
(* What an administrator writes *)

ASSUME TextsAssumption == \A a \in Addresses :
    HandWritten[a] \cup Edits[a] \subseteq Seq(LineOf({Foreign, NoName}))

\* Where setPeersFrozen sets or resets the key it goes by.
Marks == {"[Peer]", "PublicKey", "#PublicKey"}

\* An administrator appends whole sections: what is in force stands below a header,
\* and an AllowedIPs, commented out or not, below a [Peer] or a key of its section.
WholeSections(t) ==
    \A i \in DOMAIN t :
        /\ InForce(t[i]) => \E h \in 1..i : t[h].is \in Headers
        /\ t[i].is \in {"AllowedIPs", "#AllowedIPs"} =>
             \E c \in 1..i-1 : t[c].is \in Marks /\ \A j \in c+1..i : t[j].is \notin Headers

ASSUME EditsAssumption == \A a \in Addresses : \A t \in Edits[a] : WholeSections(t)

----------------------------------------------------------------------------
(* IP allocation *)

\* An address is two octets of two bits, so that small subnets span several octets;
\* Address is that of the server and the size of its subnet.
Octet == 4

ASSUME AddressesAssumption ==
    Addresses \subseteq [server : 0..Octet*Octet-1, size : {1, 2, 4, 8, 16}]

Low(ip) == ip % Octet
WithLow(ip, low) == (ip - Low(ip)) + (low % Octet)

Network == address.server - (address.server % address.size)
Broadcast == Network + address.size - 1

\* parseSubnet: only the last octet is counted up and down.
First == WithLow(Network, Low(Network) + 1)
LastIP == WithLow(Broadcast, Low(Broadcast) + Octet - 1)

\* (A mutant: no carry into the next octet.)
IncrementLow(ip) == WithLow(ip, Low(ip) + 1)

\* The next address, octet by octet from the last.
Increment(ip) ==
    IF Low(ip) = Octet - 1 THEN WithLow((ip + Octet) % (Octet * Octet), 0)
                           ELSE WithLow(ip, Low(ip) + 1)

\* First is kept for the server.
Used == {First} \cup ({p.ip : p \in ParsedPeers(file)} \ {NoIP}) \cup {e.ip : e \in peers}

\* nextAvailableIP: the loop goes on from First until an address is free or LastIP.
Walk(used) ==
    LET Advance(ip) == IF ip \in used /\ ip # LastIP THEN Increment(ip) ELSE ip
        at[k \in 0..Octet * Octet] == IF k = 0 THEN First ELSE Advance(at[k-1])
    IN at[Octet * Octet]

NextAvailableIP == IF Walk(Used) \in Used THEN NoIP ELSE Walk(Used)

----------------------------------------------------------------------------
(* Config mutation *)

\* appendPeerToConfig: whatever the last line was, it is ended first.
Appended(f, key, ip) ==
    f \o <<Text("[Peer]"), KeyLine("PublicKey", key), IPLine("AllowedIPs", ip), Text("")>>

\* removePeerFromConfig, key after key: the blocks that name one of them, up to the
\* next header.
Removed(f, keys) ==
    Kept(f, DOMAIN f \ UNION {BlockAt(f, i) : i \in {h \in PeerHeaders(f) :
                \E j \in BlockAt(f, h) : f[j].is = "PublicKey" /\ f[j].key \in keys}})

\* The key in the last of these lines above line i.
LastKeyAbove(f, i, kinds) ==
    LET js == {j \in 1..i-1 : f[j].is \in kinds}
    IN IF js = {} THEN NoKey ELSE f[Max(js)].key

\* (A mutant: commented keys are passed over as everywhere else.)
CurPubLive(f, i) == LastKeyAbove(f, i, {"[Peer]", "PublicKey"})

\* (A mutant: a [Peer] header does not begin anew.)
CurPubNoReset(f, i) == LastKeyAbove(f, i, {"PublicKey", "#PublicKey"})

\* curPub when the loop comes to line i: the last key, commented out or not, since
\* the last [Peer], which holds none.
CurPub(f, i) == LastKeyAbove(f, i, Marks)

\* (A mutant: the loop ends with the first line changed.)
ToggledOnce(f, keys, frozen) ==
    LET from == IF frozen THEN "AllowedIPs" ELSE "#AllowedIPs"
        to   == IF frozen THEN "#AllowedIPs" ELSE "AllowedIPs"
        due  == {i \in DOMAIN f : f[i].is = from /\ CurPub(f, i) \in keys}
    IN [i \in DOMAIN f |->
          IF i \in due /\ i = Min(due) THEN [f[i] EXCEPT !.is = to] ELSE f[i]]

\* setPeersFrozen: AllowedIPs lines below a key, those not in the wanted state yet.
Toggled(f, keys, frozen) ==
    LET from == IF frozen THEN "AllowedIPs" ELSE "#AllowedIPs"
        to   == IF frozen THEN "#AllowedIPs" ELSE "AllowedIPs"
    IN [i \in DOMAIN f |->
          IF f[i].is = from /\ CurPub(f, i) \in keys THEN [f[i] EXCEPT !.is = to] ELSE f[i]]

----------------------------------------------------------------------------
(* The file and peers.json *)

\* The two files as the backend sees them.
StateIn(parsed, n) ==
    LET mine == {p \in parsed : p.key.name = n}
    IN IF mine = {} THEN "absent"
       ELSE IF \E p \in mine : p.ip # NoIP THEN "active" ELSE "frozen"

StoreOf(f, ps) ==
    LET parsed == ParsedPeers(f)
    IN [conf |-> [n \in Names |-> StateIn(parsed, n)], json |-> {e.name : e \in ps},
        torn |-> {}]

OwnHeader(i) == i \in PeerHeaders(file) /\ LastOf(file, i, "PublicKey").key.name \in Names

\* The lines in force outside the worker's own blocks.
NotOurs ==
    LET own == UNION {BlockAt(file, i) : i \in {h \in DOMAIN file : OwnHeader(h)}}
    IN Kept(file, {i \in DOMAIN file \ own : InForce(file[i])})

TypeOK ==
    /\ address \in Addresses
    /\ file \in Seq(Line)
    /\ \A i \in DOMAIN file : file[i].key.name \in Names => file[i].key.serial \in 1..nextKey-1
    /\ \A e \in peers : e.name \in Names /\ e.key.name = e.name /\ e.ip \in Int \ {NoIP}
    /\ \A e, d \in peers : e.name = d.name \/ e.key = d.key => e = d
    /\ nextKey \in 1..MaxKeys+1
    /\ edits \in 0..MaxEdits
    /\ last \in [call : Calls \cup {Call("none", {})}, reply : Reply \cup {"none"}]

Init ==
    /\ address \in Addresses
    /\ file \in HandWritten[address]
    /\ peers = {}
    /\ nextKey = 1
    /\ edits = 0
    /\ byHand = AllInForce(file)
    /\ seen = StoreOf(file, peers)
    /\ last = [call |-> Call("none", {}), reply |-> "none"]

----------------------------------------------------------------------------
(* Handlers *)

Replies(c, reply) ==
    /\ last' = [call |-> c, reply |-> reply]
    /\ seen' = StoreOf(file', peers')
    /\ UNCHANGED <<address, edits, byHand>>

Refuses(c) == UNCHANGED <<file, peers, nextKey>> /\ Replies(c, "status")

\* (A mutant: names are not looked for.)
NameTakenNever(n) == n \in {}

NameTaken(n) == n \in {e.name : e \in peers}

\* createPeer: the address, then awg0.conf, then peers.json.
CreatePeer(n) ==
    LET ip == NextAvailableIP
        key == Key(n, nextKey)
    IN
    /\ nextKey <= MaxKeys
    /\ IF NameTaken(n) \/ ip = NoIP
         THEN Refuses(Call("create", {n}))
         ELSE /\ file' = Appended(file, key, ip)
              /\ peers' = peers \cup {Entry(n, key, ip)}
              /\ nextKey' = nextKey + 1
              /\ Replies(Call("create", {n}), "ok")

Matching(ns) == {e \in peers : e.name \in ns}
KeysOf(es) == {e.key : e \in es}

\* removePeers.
DeletePeers(ns) ==
    IF Matching(ns) = {}
      THEN Refuses(Call("delete", ns))
      ELSE /\ file' = Removed(file, KeysOf(Matching(ns)))
           /\ peers' = peers \ Matching(ns)
           /\ UNCHANGED nextKey
           /\ Replies(Call("delete", ns), "ok")

\* freezePeersAction.
FreezePeers(op, ns) ==
    IF Matching(ns) = {}
      THEN Refuses(Call(op, ns))
      ELSE /\ file' = Toggled(file, KeysOf(Matching(ns)), op = "freeze")
           /\ UNCHANGED <<peers, nextKey>>
           /\ Replies(Call(op, ns), "ok")

\* An administrator appends to the file between two calls.
EditByHand ==
    /\ edits < MaxEdits
    /\ edits' = edits + 1
    /\ \E lines \in Edits[address] :
          /\ file' = file \o lines
          /\ byHand' = byHand \o AllInForce(lines)
          /\ seen' = StoreOf(file', peers)
    /\ UNCHANGED <<address, peers, nextKey, last>>

Serves(ns) == DeletePeers(ns) \/ FreezePeers("freeze", ns) \/ FreezePeers("unfreeze", ns)

Next ==
    \/ \E n \in Names : CreatePeer(n)
    \/ \E ns \in SUBSET Names \ {{}} : Serves(ns)
    \/ EditByHand

Spec == Init /\ [][Next]_vars

----------------------------------------------------------------------------
(* Properties *)

\* Whatever the worker appends, removes and comments out, the lines in force an
\* administrator wrote stay as they are: nobody else's peer is cut off or let in.
OthersKept == NotOurs = byHand

\* The two files name the same peers: every entry of peers.json has one block, which
\* holds its key and lets in its address alone, or has it commented out; no block is
\* left of a peer that was deleted.
FilesAgree ==
    LET own == {i \in DOMAIN file : OwnHeader(i)}
        KeyAt(i) == LastOf(file, i, "PublicKey").key
        IPsAt(i, is) == {file[j].ip : j \in {k \in BlockAt(file, i) : file[k].is = is}}
    IN /\ {KeyAt(i) : i \in own} = KeysOf(peers)
       /\ Cardinality(own) = Cardinality(peers)
       /\ \A i \in own, e \in peers : KeyAt(i) = e.key =>
            \/ IPsAt(i, "AllowedIPs") = {e.ip}
            \/ IPsAt(i, "AllowedIPs") = {} /\ e.ip \in IPsAt(i, "#AllowedIPs")

\* The hosts of the subnet, by arithmetic, and those of them that are somebody's:
\* the server's, a live block's, or a frozen peer's.
Hosts == Network+1 .. Broadcast-1
Taken == {Network + 1} \cup {e.ip : e \in peers}
           \cup {file[i].ip : i \in {j \in DOMAIN file : file[j].is = "AllowedIPs"}}

\* A creation hands out the least host that is nobody's, across octets and while
\* frozen peers keep their address, and a new name is refused only when none is left.
LeastFreeHost ==
    [][\A n \in Names : last'.call = Call("create", {n}) /\ edits' = edits =>
         IF last'.reply = "ok"
           THEN \E e \in peers' \ peers :
                    e.ip \in Hosts \ Taken /\ \A h \in Hosts \ Taken : e.ip <= h
           ELSE NameTaken(n) \/ Hosts \subseteq Taken]_vars

\* On text as on Worker's blocks, each call takes the store where WorkerApi says.
Contract == INSTANCE WorkerStore WITH PeerNames <- Names, store <- seen

ImplementsContract == Contract!Spec
=============================================================================
