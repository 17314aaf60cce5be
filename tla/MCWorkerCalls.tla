--------------------------- MODULE MCWorkerCalls ---------------------------
(* A small instance of WorkerCalls for TLC. *)
EXTENDS WorkerCalls

CONSTANTS r1, r2, service      \* two requests and the service

TwoRequests == {r1, r2}
=============================================================================
