---------------------------- MODULE ResourceModel ----------------------------
(***************************************************************************)
(* internal/graph/model and internal/unstructured: what xgql takes an API  *)
(* object for, the ID that it gives it, and the string that a GraphQL      *)
(* client gets for the ID and sends back.                                  *)
(*                                                                         *)
(* An object is a record with av, kind, ns, name (strings of tokens, a     *)
(* sequence; ns = <<>> if it is cluster scoped) and spec, the set of the   *)
(* fields that it has under .spec with the shape that the code reads.      *)
(***************************************************************************)
EXTENDS Integers, Sequences, FiniteSets, SequencesExt

Sep == "|"   \* the separator of the parts of an ID

NoNamespace == <<>>

ClusterScoped(u) == u.ns = NoNamespace

(* The Probably functions guess from the namespace and from the fields.    *)
ProbablyProviderConfig(u) == ClusterScoped(u) /\ u.kind = <<"ProviderConfig">>

(* Mutant: the namespace is not looked at. *)
ProbablyCompositeAnywhere(u) ==
  u.spec \cap {"compositionRef", "compositionSelector", "resourceRefs"} # {}

ProbablyComposite(u) ==
  /\ ClusterScoped(u)
  /\ u.spec \cap {"compositionRef", "compositionSelector", "resourceRefs"} # {}

ProbablyClaim(u) ==
  /\ ~ClusterScoped(u)
  /\ u.spec \cap {"compositionRef", "compositionSelector", "resourceRef",
                  "writeConnectionSecretToRef"} # {}

ProbablyManaged(u) == ClusterScoped(u) /\ "providerConfigRef" \in u.spec

(* The types that are recognised by their group, version and kind (here by *)
(* the kind alone).  Only their conversion can fail.                       *)
KnownKinds == {"Provider", "ProviderRevision", "Configuration",
               "ConfigurationRevision", "Composition", "Secret", "ConfigMap",
               "CompositeResourceDefinition", "CustomResourceDefinition"}

IsKnown(u) == Len(u.kind) = 1 /\ u.kind[1] \in KnownKinds

(* The type of the model is the first that fits, in the order of the       *)
(* switch: what looks like a composite resource is never a managed one.    *)
TypeOf(u) ==
  IF ProbablyProviderConfig(u) THEN "ProviderConfig"
  ELSE IF ProbablyComposite(u) THEN "CompositeResource"
  ELSE IF ProbablyClaim(u) THEN "CompositeResourceClaim"
  ELSE IF ProbablyManaged(u) THEN "ManagedResource"
  ELSE IF IsKnown(u) THEN u.kind[1]
  ELSE "GenericResource"

(* The types whose ID has the namespace of the object; the ID of every     *)
(* other type has none.                                                    *)
NamespacedTypes == {"CompositeResourceClaim", "Secret", "ConfigMap",
                    "GenericResource"}

ReferenceID(u) ==
  [av   |-> u.av,
   kind |-> u.kind,
   ns   |-> IF TypeOf(u) \in NamespacedTypes THEN u.ns ELSE NoNamespace,
   name |-> u.name]

(* GetKubernetesResource fails on an object that does not convert.         *)
Models(u) == TypeOf(u) \in KnownKinds => ~u.bad

-----------------------------------------------------------------------------
(* The string of an ID, before compression and base64 *)

String(id) == id.av \o <<Sep>> \o id.kind \o <<Sep>> \o id.ns \o <<Sep>> \o id.name

Separators(s) == {i \in DOMAIN s : s[i] = Sep}

Malformed == [av |-> <<Sep>>, kind |-> <<>>, ns |-> <<>>, name |-> <<>>]   \* no ID

(* strings.Split, which must give exactly four parts. *)
ParseReferenceID(s) ==
  LET at == CHOOSE f \in [1..3 -> Separators(s)] : f[1] < f[2] /\ f[2] < f[3]
  IN  IF Cardinality(Separators(s)) # 3 THEN Malformed
      ELSE [av   |-> SubSeq(s, 1, at[1] - 1),
            kind |-> SubSeq(s, at[1] + 1, at[2] - 1),
            ns   |-> SubSeq(s, at[2] + 1, at[3] - 1),
            name |-> SubSeq(s, at[3] + 1, Len(s))]

(* The order of a connection: join puts the parts together without a       *)
(* separator, so that two IDs may compare as equal.                        *)
Joined(id) == id.av \o id.kind \o id.ns \o id.name
=============================================================================
