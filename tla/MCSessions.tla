----------------------------- MODULE MCSessions -----------------------------
(* Instances of Sessions for TLC.                                          *)
EXTENDS Sessions, TLC

Symmetry == Permutations(Tabs) \cup Permutations(Apis) \cup Permutations(Users)
=============================================================================
