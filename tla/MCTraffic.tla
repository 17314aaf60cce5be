------------------------------- MODULE MCTraffic -------------------------------
(* Small instances of Traffic for TLC. *)
EXTENDS Traffic

CONSTANTS c1, c2    \* two configs

TwoConfigs == {c1, c2}
=============================================================================
