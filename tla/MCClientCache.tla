--------------------------- MODULE MCClientCache ---------------------------
(* Small instances of ClientCache. *)
EXTENDS ClientCache, TLC

CONSTANTS r1, r2

MCIds == {"alice", "bob"}
MCOneId == {"alice"}
MCRequests == {r1, r2}
RequestSymmetry == Permutations(MCRequests)
=============================================================================
