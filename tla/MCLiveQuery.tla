---------------------------- MODULE MCLiveQuery ----------------------------
(* Small instances of LiveQuery. *)
EXTENDS LiveQuery

MCTriggers == {"i1", "i2"}
MCValues == {"v1", "v2"}

(* The two values of a path are interchangeable: one start stands for all. *)
MCWorlds == {[p \in Paths |-> "v1"]}
=============================================================================
