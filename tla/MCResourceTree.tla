--------------------------- MODULE MCResourceTree ---------------------------
(* A claim, its composite, two composites composed in it, and what they    *)
(* compose: two references lead to one resource, one has no name, and two  *)
(* resources have ids that join does not tell apart.                       *)
EXTENDS ResourceTree

MCObjs == {"claim", "xr", "nested", "sibling", "a", "b", "c"}

MCKind == [o \in MCObjs |-> CASE o = "claim" -> "claim"
                              [] o \in {"xr", "nested", "sibling"} -> "composite"
                              [] OTHER -> "other"]

MCRefs == [o \in MCObjs |->
             CASE o = "claim"  -> <<"xr">>
               [] o = "xr"     -> <<"sibling", "nested", Nameless, "b">>
               [] o = "nested" -> <<"c", "a">>
               [] o = "sibling" -> <<"b">>
               [] OTHER        -> <<>>]

MCRank == [o \in MCObjs |-> CASE o = "a" -> 1 [] o = "b" -> 2 [] o = "c" -> 1
                              [] o = "nested" -> 3 [] OTHER -> 4]
=============================================================================
