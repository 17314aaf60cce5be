---------------------------- MODULE PanelHistory ----------------------------
(***************************************************************************)
(* Panel with a history variable: whether any two of its processes have    *)
(* been at work at the same time.  Nothing in the code keeps requests and  *)
(* cleanup apart; what they promise together they promise one by one.      *)
(***************************************************************************)
EXTENDS Panel

VARIABLE
    alone           \* history: no process has met another one yet

hvars == <<vars, alone>>

HInit == Init /\ alone = TRUE

HNext == Next /\ alone' = (alone /\ ActiveCount' <= 1)

HFairSpec == HInit /\ [][HNext]_hvars /\ Fairness

----------------------------------------------------------------------------
(* Properties *)

\* One process after the other and no failures: between two of them the table, the
\* two worker files and the two flags tell one story, admins are left alone, and the
\* limit holds.  With an overlap or a failure none of this is kept.
SerialConsistent ==
    alone /\ faults = 0 /\ AtRest =>
        \A u \in Users :
            /\ Cardinality(RowsOf(u)) <= MaxConfigs
            /\ users[u].frozen => users[u].exp = "expired" /\ u \notin Admins
            /\ \A i \in Ids :
                 LET n == PeerName(u, i) IN
                 /\ HasRow(u, i) <=> n \in store.json
                 /\ store.conf[n] = IF ~HasRow(u, i) THEN "absent"
                                    ELSE IF users[u].frozen THEN "frozen" ELSE "active"
=============================================================================
