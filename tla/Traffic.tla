-------------------------------- MODULE Traffic --------------------------------
(***************************************************************************)
(* Traffic accounting (internal/service): once a minute the backend reads  *)
(* the byte counters of the interface through the worker and adds to each  *)
(* row of peers what its counter has grown by.  The counters are not the   *)
(* backend's: they start again at 0 with the interface, or with a peer     *)
(* that leaves the interface and comes back.  Received and sent are        *)
(* computed alike and written together, so there is one counter here.      *)
(***************************************************************************)
EXTENDS Integers

CONSTANTS
    Peers,      \* ids of configs
    MaxUsed,    \* bound: bytes a config ever moves
    MaxResets,  \* bound: counter resets
    MaxFaults   \* bound: failures of the backend

ASSUME TrafficAssumption == MaxUsed \in Nat /\ MaxResets \in Nat /\ MaxFaults \in Nat

VARIABLES
    born,       \* ids given out (AUTOINCREMENT: never twice)
    rows,       \* rows of the peers table
    total,      \* traffic_received
    lastRead,   \* last_received_counter
    known,      \* the worker's peers.json
    gone,       \* peers it has deleted
    counter,    \* the interface's counter
    used,       \* history: bytes really moved
    wiped,      \* history: peers whose counter was reset
    resets, faults,
    pc,         \* the collector: "idle", "list", "update"
    found,      \* peers of the answer to GetStats
    reading,    \* and their counters
    snap,       \* the rows as ListAll returned them
    todo        \* those the loop has still to visit

table == <<born, rows, total, lastRead>>
worker == <<known, gone, counter, used, wiped, resets>>
collector == <<pc, found, reading, snap, todo>>
vars == <<table, worker, collector, faults>>

TypeOK ==
    /\ born \subseteq Peers
    /\ rows \subseteq born
    /\ known \subseteq born
    /\ gone \subseteq born
    /\ total \in [Peers -> Nat]
    /\ lastRead \in [Peers -> Nat]
    /\ counter \in [Peers -> Nat]
    /\ used \in [Peers -> 0..MaxUsed]
    /\ wiped \subseteq Peers
    /\ resets \in 0..MaxResets
    /\ faults \in 0..MaxFaults
    /\ pc \in {"idle", "list", "update"}
    /\ found \subseteq born
    /\ reading \in [Peers -> Nat]
    /\ snap \in [total : [Peers -> Nat], last : [Peers -> Nat]]
    /\ todo \subseteq born
    /\ pc = "update" <=> todo # {}

Zero == [p \in Peers |-> 0]
NoRows == [total |-> Zero, last |-> Zero]

Init ==
    /\ born = {} /\ rows = {} /\ known = {} /\ gone = {}
    /\ total = Zero /\ lastRead = Zero /\ counter = Zero /\ used = Zero
    /\ wiped = {} /\ resets = 0 /\ faults = 0
    /\ pc = "idle" /\ found = {} /\ reading = Zero /\ snap = NoRows /\ todo = {}

----------------------------------------------------------------------------
(* Configs come and go *)

\* CreatePeer: the columns default to 0.
InsertRow(p) ==
    /\ p \notin born
    /\ born' = born \cup {p}
    /\ rows' = rows \cup {p}
    /\ UNCHANGED <<total, lastRead, worker, collector, faults>>

\* (A mutant: the worker is told before the row is there.)
AddPeerFirst(p) ==
    /\ p \notin known \cup gone
    /\ known' = known \cup {p}
    /\ UNCHANGED <<gone, counter, used, wiped, resets, table, collector, faults>>

\* The worker's side of a creation; the row was there first, and may have been rolled
\* back if the call comes late.  The peer may move bytes from here on.
AddPeer(p) ==
    /\ p \in born \ (known \cup gone)
    /\ known' = known \cup {p}
    /\ UNCHANGED <<gone, counter, used, wiped, resets, table, collector, faults>>

\* The worker's side of a deletion: the counter goes with the peer.
RemovePeer(p) ==
    /\ p \in known
    /\ known' = known \ {p}
    /\ gone' = gone \cup {p}
    /\ counter' = [counter EXCEPT ![p] = 0]
    /\ UNCHANGED <<used, wiped, resets, table, collector, faults>>

\* DeleteByID, or the cascade of DeleteUser.
DeleteRow(p) ==
    /\ p \in rows
    /\ rows' = rows \ {p}
    /\ UNCHANGED <<born, total, lastRead, worker, collector, faults>>

----------------------------------------------------------------------------
(* The interface *)

Transfer(p) ==
    /\ p \in known
    /\ used[p] < MaxUsed
    /\ used' = [used EXCEPT ![p] = @ + 1]
    /\ counter' = [counter EXCEPT ![p] = @ + 1]
    /\ UNCHANGED <<known, gone, wiped, resets, table, collector, faults>>

\* up.sh builds the interface anew, or a syncconf found some peers missing and a
\* later one put them back.
Reset(ps) ==
    /\ resets < MaxResets
    /\ resets' = resets + 1
    /\ counter' = [p \in Peers |-> IF p \in ps THEN 0 ELSE counter[p]]
    /\ wiped' = wiped \cup ps
    /\ UNCHANGED <<known, gone, used, table, collector, faults>>

----------------------------------------------------------------------------
(* collectTraffic *)

\* (A mutant: a counter is taken for one that only grows.)
TrafficGrowth(previous, current) == current - previous

TrafficDelta(previous, current) ==
    IF current < previous THEN current ELSE current - previous

\* GetStats: every entry of peers.json, 0 for one the dump does not show.
GetStats ==
    /\ pc = "idle"
    /\ pc' = "list"
    /\ found' = known
    /\ reading' = counter
    /\ UNCHANGED <<snap, todo, table, worker, faults>>

\* The pass is over and its locals are gone.
Rests ==
    /\ pc' = "idle"
    /\ todo' = {} /\ found' = {} /\ reading' = Zero /\ snap' = NoRows

ListAll ==
    /\ pc = "list"
    /\ IF rows = {} THEN Rests
         ELSE /\ snap' = [total |-> total, last |-> lastRead]
              /\ todo' = rows
              /\ pc' = "update"
              /\ UNCHANGED <<found, reading>>
    /\ UNCHANGED <<table, worker, faults>>

\* On to the next row.
Visited(p) ==
    /\ p \in todo
    /\ IF todo = {p} THEN Rests
         ELSE todo' = todo \ {p} /\ UNCHANGED <<pc, found, reading, snap>>

\* (A mutant: the last reading is not stored.)
WriteTotal(p) ==
    /\ total' = [total EXCEPT ![p] = snap.total[p] + TrafficDelta(snap.last[p], reading[p])]
    /\ UNCHANGED lastRead

\* Both columns in one UPDATE, computed from the rows listed before.
WriteTraffic(p) ==
    /\ total' = [total EXCEPT ![p] = snap.total[p] + TrafficDelta(snap.last[p], reading[p])]
    /\ lastRead' = [lastRead EXCEPT ![p] = reading[p]]

\* (A mutant: a config the worker does not know ends the pass.)
UpdateTrafficOrStop(p) ==
    /\ p \in todo
    /\ IF p \in found THEN Visited(p) ELSE Rests
    /\ IF p \in found \cap rows THEN WriteTraffic(p) ELSE UNCHANGED <<total, lastRead>>
    /\ UNCHANGED <<born, rows, worker, faults>>

\* One turn of the loop (ListAll orders by id; any order here).  A config the
\* worker did not name is skipped; the row may have gone since it was listed.
UpdateTraffic(p) ==
    /\ Visited(p)
    /\ IF p \in found \cap rows THEN WriteTraffic(p) ELSE UNCHANGED <<total, lastRead>>
    /\ UNCHANGED <<born, rows, worker, faults>>

CountFault == faults < MaxFaults /\ faults' = faults + 1

\* The UPDATE fails: logged, and the loop goes on.
UpdateFails(p) == CountFault /\ Visited(p) /\ UNCHANGED <<table, worker>>

\* ListAll fails, or the backend stops and starts again: the pass is given up.
GivesUp ==
    /\ CountFault
    /\ pc # "idle"
    /\ Rests
    /\ UNCHANGED <<table, worker>>

----------------------------------------------------------------------------
(* Specification *)

Collects == GetStats \/ ListAll \/ \E p \in Peers : UpdateTraffic(p)

Next ==
    \/ \E p \in Peers : InsertRow(p) \/ AddPeer(p) \/ RemovePeer(p) \/ DeleteRow(p) \/ Transfer(p)
    \/ \E ps \in SUBSET Peers \ {{}} : Reset(ps)
    \/ Collects
    \/ GivesUp \/ \E p \in Peers : UpdateFails(p)

Spec == Init /\ [][Next]_vars

\* The ticker fires every minute, and the worker answers in the end.
FairSpec == Spec /\ WF_vars(Collects)

----------------------------------------------------------------------------
(* Properties *)

\* A config is never charged more than it moved, whenever its counter was reset and
\* wherever a pass was cut short, and never less than its counter showed when it was
\* last read.
Charged == \A p \in rows : lastRead[p] <= total[p] /\ total[p] <= used[p]

\* What a config was charged is not taken back, by a counter that starts again nor by
\* a pass that works on rows it listed before.
NeverTakenBack == [][\A p \in rows \cap rows' : total[p] <= total'[p]]_vars

\* A config whose counter was never reset is charged in the end for every byte,
\* whatever other configs the worker has lost.
EverythingCounted ==
    \A p \in Peers : <>[](p \in rows \cap known /\ p \notin wiped => total[p] = used[p])
=============================================================================
