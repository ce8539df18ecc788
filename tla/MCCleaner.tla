----------------------------- MODULE MCCleaner -----------------------------
(* Small instances of Cleaner. *)
EXTENDS Cleaner

MCKeys == {1, 2}
MCObjs == {"o1", "o2"}
MCKeyFn == [o \in MCObjs |-> IF o = "o1" THEN 1 ELSE 2]

(* One key held by two objects: the stored object and a reader's copy. *)
MCOneKey == {1}
MCSameKeyFn == [o \in MCObjs |-> 1]

MCInterval == {2}
=============================================================================
