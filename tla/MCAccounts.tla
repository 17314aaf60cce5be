----------------------------- MODULE MCAccounts -----------------------------
(* A small instance of Accounts for TLC. *)
EXTENDS Accounts, TLC

CONSTANTS admin, bob, p, q      \* two names, two request slots

TwoNames == {admin, bob}
TwoSlots == {p, q}

Interchangeable == Permutations(Reqs)
=============================================================================
