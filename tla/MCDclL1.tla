------------------------------- MODULE MCDclL1 -------------------------------
(* Small instances of DclL1.                                               *)
EXTENDS DclL1

CONSTANTS a, b   \* two stations

BothMacs == {a, b}
OneMac == {a}
==============================================================================
