----------------------------- MODULE MCTxService -----------------------------
(* Instance of TxService for TLC: destinations of which d3 is dead. *)
EXTENDS TxService

CONSTANTS d1, d2, d3

ThreeDests == {d1, d2, d3}
TwoDests   == {d1, d3}
OneDead    == {d3}
=============================================================================
