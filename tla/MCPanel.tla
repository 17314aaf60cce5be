------------------------------- MODULE MCPanel -------------------------------
(* Small instances of Panel for TLC. *)
EXTENDS Panel, TLC

CONSTANTS a, b, c, p, q     \* three config names, two request slots

OneUser == {1}
NoAdmins == {}

OneName == {a}
ThreeNames == {a, b, c}

OneSlot == {p}
TwoSlots == {p, q}

\* Bound: three rows ever where nothing fails, as the overshoot of the limit needs;
\* two where something does, one for it to hit and one to be left alone.
TwoRowsIfFailed == faults = 0 \/ nextId <= 3

\* Slots are interchangeable, and so are names; users are walked in order.
Interchangeable == Permutations(Reqs) \cup Permutations(ConfigNames)
=============================================================================
