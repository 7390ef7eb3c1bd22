----------------------------- MODULE MCAssocSync -----------------------------
(* Small instances of AssocSync.                                           *)
EXTENDS AssocSync, TLC

CONSTANTS m1, m2, v24, v5   \* stations; 2.4 and 5 GHz interfaces

TwoMacs == {m1, m2}
TwoVaps == {v24, v5}

(* Neither the stations nor the interfaces are told apart. *)
Symmetry == Permutations(TwoMacs) \cup Permutations(TwoVaps)
==============================================================================
