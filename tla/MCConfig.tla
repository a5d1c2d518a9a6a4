------------------------------- MODULE MCConfig -------------------------------
(* Config with two devices and a bounded number of writes.                   *)
EXTENDS Config, TLC

Symmetry == Permutations(Device)
=============================================================================
