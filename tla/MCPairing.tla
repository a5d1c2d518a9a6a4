----------------------------- MODULE MCPairing -----------------------------
EXTENDS Pairing, TLC

\* Ids of codes and devices are chosen in a fixed order: not symmetric.
PairingSymmetry == Permutations(Attempt) \cup Permutations(Owner)
=============================================================================
