----------------------------- MODULE WorkerStore -----------------------------
(***************************************************************************)
(* The worker as the backend may think of it: a store that serves one call *)
(* at a time, each with an outcome WorkerApi allows.                       *)
(***************************************************************************)
CONSTANT PeerNames

VARIABLES
    store,      \* both files
    last        \* the last call served and its reply

vars == <<store, last>>

INSTANCE WorkerApi

Silence == [call |-> Call("none", {}), reply |-> "none"]

Init == store = EmptyStore /\ last = Silence

Serve(c, outcome) ==
    /\ store' = outcome.store
    /\ last' = [call |-> c, reply |-> outcome.reply]

Next == \E c \in Calls : \/ Serve(c, Answer(store, c))
                         \/ \E bad \in BadAnswers(store, c) : Serve(c, bad)

Spec == Init /\ [][Next]_vars
=============================================================================
