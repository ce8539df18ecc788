-------------------------- MODULE MCLiveQueryCache --------------------------
(* Small instances of LiveQueryCache: a query that gets an object and one  *)
(* that gets it and lists its kind.                                        *)
EXTENDS LiveQueryCache

MCQueries == {"q1", "q2"}
MCKinds == {"k"}
MCObjects == {"a"}
MCKindOf == [o \in MCObjects |-> "k"]
MCReads == [q \in MCQueries |-> IF q = "q1" THEN {"a"} ELSE {"a", "k"}]
MCOneQuery == {"q1"}
MCOneRead == [q \in MCOneQuery |-> {"a", "k"}]
=============================================================================
