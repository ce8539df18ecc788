--------------------------- MODULE MCBBoltCache ---------------------------
(* Small instances of BBoltCache. *)
EXTENDS BBoltCache

MCKeys == {1, 2}
MCOneKey == {1}
MCReaders == {"r1", "r2"}
MCOneReader == {"r1"}
MCRequests == {"q"}
=============================================================================
