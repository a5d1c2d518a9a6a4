------------------------------ MODULE MCHistory ------------------------------
(* History with a bounded number of games, versions, archives and attempts. *)
EXTENDS History, TLC

Symmetry ==
    Permutations(VersionId) \cup Permutations(Hash) \cup Permutations(Slot)
=============================================================================
