----------------------------- MODULE MCResolvers -----------------------------
(* Four or five objects of each kind, chosen so that each condition of the *)
(* fields tells two of them apart.                                         *)
EXTENDS Resolvers

Owner(i, u, c) == [id |-> i, uid |-> u, controller |-> c]

(* "p" was deleted and created again: u1, then u2.  "b" belongs to another *)
(* package, "d" has an owner that does not control it.                     *)
MCRevisions ==
  {[key |-> 1, active |-> TRUE,  owners |-> <<Owner("q", "u3", TRUE)>>],
   [key |-> 2, active |-> TRUE,  owners |-> <<Owner("p", "u2", TRUE)>>],
   [key |-> 3, active |-> FALSE, owners |-> <<Owner("p", "u2", FALSE),
                                              Owner("q", "u3", TRUE)>>],
   [key |-> 4, active |-> TRUE,  owners |-> <<Owner("p", "u1", TRUE)>>],
   [key |-> 5, active |-> FALSE, owners |-> <<Owner("p", "u2", TRUE)>>]}

(* "K" has the plural that is guessed, "Lens" has not, and "Len" has the   *)
(* one that is guessed for "Lens".                                         *)
MCDefinitions ==
  {[key |-> 1, name |-> "ks", defines |-> "K", claims |-> None, owners |-> <<>>],
   [key |-> 2, name |-> "ks2", defines |-> "K", claims |-> "Lens",
    owners |-> <<Owner("p", "u2", TRUE), Owner("r1", "u4", FALSE)>>],
   [key |-> 3, name |-> "lens", defines |-> "Len", claims |-> "K",
    owners |-> <<Owner("r1", "u4", TRUE)>>],
   [key |-> 4, name |-> "lenses", defines |-> "Lens", claims |-> "Lens",
    owners |-> <<Owner("p", "u2", TRUE)>>]}

Resource(k, av, kd, ns, name, spec, ready, bad) ==
  [key |-> k, av |-> av, kind |-> kd, ns |-> ns, name |-> name, spec |-> spec,
   ready |-> ready, bad |-> bad]

(* A composite resource that looks like a managed one, two claims whose    *)
(* joined IDs are the same, a kind that is not cached with the separator   *)
(* in its name, and a secret that does not convert.                        *)
MCResources ==
  {Resource(1, <<"v1">>, <<"X">>, <<>>, <<"a">>,
            {"compositionRef", "providerConfigRef"}, "True", FALSE),
   Resource(2, <<"v1">>, <<"X">>, <<"n">>, <<"a", "b">>, {"compositionRef"},
            "False", FALSE),
   Resource(2, <<"v1">>, <<"X">>, <<"n", "a">>, <<"b">>, {"resourceRef"},
            None, FALSE),
   Resource(3, <<"v1">>, <<"Y">>, <<>>, <<"b", Sep, "c">>, {}, "True", FALSE),
   Resource(4, <<"v1">>, <<"Secret">>, <<"n">>, <<"a">>, {}, None, TRUE)}

Event(k, t, w, u, v, n) ==
  [key |-> k, time |-> t, warning |-> w,
   about |-> [uid |-> u, av |-> v, name |-> n]]

(* "o" was created again: u1, then u2.  One event saw u1 at version v2. *)
MCEvents ==
  {Event(1, 3, TRUE, "u1", "v1", "o"), Event(2, 2, FALSE, "u2", "v1", "o"),
   Event(3, 2, TRUE, "u2", "v1", "o"), Event(4, 1, TRUE, "u3", "v1", "o2"),
   Event(5, 4, FALSE, "u1", "v2", "o")}

(* "a" is deleted and created again with the same type, "b" with another   *)
(* one; the secret does not convert.                                       *)
MCReferents ==
  {Resource(1, <<"v1">>, <<"X">>, <<>>, "a", {"compositionRef"}, None, FALSE),
   Resource(2, <<"v1">>, <<"X">>, <<>>, "a", {"resourceRefs"}, None, FALSE),
   Resource(3, <<"v1">>, <<"Secret">>, <<"n">>, "b", {}, None, TRUE),
   Resource(4, <<"v1">>, <<"Y">>, <<>>, "b", {"providerConfigRef"}, None, FALSE)}

Ref(name, controller, relevant) ==
  [name |-> name, controller |-> controller, relevant |-> relevant]

MCRefs == <<Ref("b", FALSE, FALSE), Ref("a", TRUE, TRUE)>>

MCObjects == [revision   |-> MCRevisions,
              definition |-> MCDefinitions,
              resource   |-> MCResources,
              event      |-> MCEvents,
              referent   |-> MCReferents]

MCUncached == {<<"Y">>}
MCInvolved == {e.about : e \in MCEvents}
MCNamespaces == {<<"n">>}
MCGuess(gk) == IF gk = "K" THEN "ks" ELSE "lens"
=============================================================================
