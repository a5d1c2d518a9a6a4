-------------------------------- MODULE MCPush --------------------------------
(* Push with two devices, one of which can reconnect on a second socket.     *)
EXTENDS Push, TLC

CONSTANTS d1, d2, s1, s2, s3

TwoForOne == (s1 :> d1) @@ (s2 :> d1) @@ (s3 :> d2)

BothForOne == (s1 :> d1) @@ (s2 :> d1)

Symmetry == Permutations(Version) \cup Permutations({s1, s2})
=============================================================================
