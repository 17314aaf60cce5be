--------------------------- MODULE MCPanelHistory ---------------------------
(* A small instance of PanelHistory for TLC. *)
EXTENDS PanelHistory

CONSTANTS a, p      \* a config name, a request slot

TwoUsers == {1, 2}
SecondIsAdmin == {2}
OneName == {a}
OneSlot == {p}
=============================================================================
