------------------------------ MODULE Resolvers ------------------------------
(***************************************************************************)
(* internal/graph/resolvers: what the fields of a query answer while the   *)
(* API objects that they read change.  A field lists the objects of a      *)
(* kind from an informer's cache, which gives them in any order, keeps     *)
(* some of them and sorts what it has kept.  A definition is looked up in  *)
(* two reads, and what an object refers to is read by a goroutine for each *)
(* reference, with time for a change in between.                           *)
(*                                                                         *)
(* A behaviour is about one kind of objects.  page holds the answers that  *)
(* a client has got since the objects last changed.                        *)
(***************************************************************************)
EXTENDS ResourceModel

CONSTANTS
  Objects,     \* Objects[k]: the objects of kind k that may exist
  UIDs,        \* UIDs of packages
  Owners,      \* IDs of owners
  ConfigRevisions, \* those that are IDs of configuration revisions
  Namespaces,  \* namespaces that are asked for
  Uncached,    \* kinds that are read from the API server, not from the cache
  Involved,    \* what events are about: the UID of an object, the API version
               \* at which it was seen, and its name (with kind and namespace)
  ObjectRefs,  \* what an object refers to: a sequence of names, each with
               \* whether it is the controller, and whether it is of a kind
               \* that the Objects of a package revision show
  GroupKinds,  \* group and kind of the resources whose definition is asked for
  Guess(_),    \* the name of a definition: the plural that pluralForm makes
               \* of a kind, and the group
  Target,      \* Config.GlobalEventsTarget
  Cap,         \* Config.GlobalEventsCap
  MaxAsked     \* bound on the answers that a client holds

None == "none"           \* an argument that is not given, a pointer that is nil
AllNamespaces == <<"*">> \* the namespace argument is not given
Nil == [nil |-> TRUE]    \* an interface that is nil

Kinds == {"revision", "definition", "resource", "event", "referent"}

Names == {ObjectRefs[i].name : i \in DOMAIN ObjectRefs}

(* What the API server sees to: keys and times can be compared, kinds that *)
(* are cluster scoped have no namespace, only names have the separator,    *)
(* and a UID is of one object, whose kind, namespace and name stay; it can *)
(* be seen at several API versions.                                        *)
ASSUME ResolversAssumption ==
  /\ DOMAIN Objects = Kinds
  /\ \A k \in Kinds :
       /\ IsFiniteSet(Objects[k]) /\ Nil \notin Objects[k]
       /\ k # "referent" => \A x \in Objects[k] : x.key \in Int
  /\ ConfigRevisions \subseteq Owners /\ None \notin Owners
  /\ Target \in Nat \ {0} /\ Cap \in Nat \ {0} /\ MaxAsked \in Nat \ {0}
  /\ \A x, y \in Objects["resource"] :
       x.key = y.key <=> Joined(x) = Joined(y)
  /\ \A x \in Objects["resource"] :
       /\ {x.av, x.kind, x.ns, x.name} \subseteq Seq(STRING)
       /\ Sep \notin ToSet(x.av) \cup ToSet(x.kind) \cup ToSet(x.ns)
       /\ TypeOf(x) \in KnownKinds \ NamespacedTypes => ClusterScoped(x)
  /\ \A x \in Objects["event"] :
       /\ x.time \in Int
       /\ \A i \in Involved : x.about.uid = i.uid => x.about.name = i.name
  /\ \A i \in Involved : DOMAIN i = {"uid", "av", "name"}
  /\ ObjectRefs \in Seq([name : Names, controller : BOOLEAN, relevant : BOOLEAN])
  /\ \A i, j \in DOMAIN ObjectRefs :
       ObjectRefs[i].name = ObjectRefs[j].name => i = j

VARIABLES
  kind,     \* the kind of the objects
  world,    \* the objects that exist, all of them in the cache if they are cached
  page,     \* page[q]: the answer to the field q
  lookup    \* the definition that is being looked up, or the references
            \* that are being read

queryVars == <<kind, world, page, lookup>>

Idle == [step |-> "idle"]

(* Two objects of one name do not exist at one time. *)
SameName(x, y) ==
  \/ kind \in {"definition", "referent"} /\ x.name = y.name
  \/ kind = "resource" /\ <<x.av, x.kind, x.ns, x.name>> = <<y.av, y.kind, y.ns, y.name>>

NamesUnique(s) == \A x, y \in s : SameName(x, y) => x = y

QueryInit ==
  /\ kind \in Kinds
  /\ world \in SUBSET Objects[kind]
  /\ NamesUnique(world)
  /\ page = << >>
  /\ lookup = Idle

-----------------------------------------------------------------------------
(* Lists *)

(* The order in which an informer lists what it has is the order of a map. *)
Lists == SetToSeqs(world)

(* The indexes of the elements that a field keeps. *)
Kept(list, keep) == {i \in DOMAIN list : list[i] \in keep}

Before(list, rank, i, j) ==
  \/ rank[list[i]] < rank[list[j]]
  \/ rank[list[i]] = rank[list[j]] /\ i < j

Place(list, at, rank, i) ==
  Cardinality({j \in at : j = i \/ Before(list, rank, j, i)})

(* sort.Stable of what is kept: as many are before each element as have to *)
(* be, and those that compare equal stay in their order.                   *)
Sorted(list, keep, rank) ==
  LET at == Kept(list, keep)
  IN  [n \in 1..Cardinality(at) |->
         list[CHOOSE i \in at : Place(list, at, rank, i) = n]]

(* Mutant: nothing is less than anything, as without the sort. *)
NeverLess == [x \in Objects[kind] |-> 0]

ByID == [x \in Objects[kind] |-> x.key]

ByIDReversed == [x \in Objects[kind] |-> -x.key]

ByTime == [x \in Objects[kind] |-> x.time]

NoError == "none"

(* Mutant: the number of objects that were listed, not of those shown. *)
CountsRead(nodes) ==
  [nodes |-> nodes, total |-> Cardinality(world), err |-> NoError]

Answer(nodes) == [nodes |-> nodes, total |-> Len(nodes), err |-> NoError]

Failed(e) == [nodes |-> << >>, total |-> 0, err |-> e]

(* What a field that filters a list answers. *)
Connection(list, keep) == Answer(Sorted(list, keep, ByID))

LeastOf(ns) == CHOOSE n \in ns : \A m \in ns : n <= m

(* The first object that fits, or nil. *)
FirstOf(list, fits) ==
  LET at == Kept(list, fits)
  IN  Answer(IF at = {} THEN << >> ELSE <<list[LeastOf(at)]>>)

-----------------------------------------------------------------------------
(* provider.go, configuration.go, query.go: package revisions *)

ControlledBy(x, uid) ==
  \E r \in ToSet(x.owners) : r.controller /\ r.uid = uid

ContainsID(x, id) == \E r \in ToSet(x.owners) : r.id = id

Revisions(uid, list) == Connection(list, {x \in world : ControlledBy(x, uid)})

(* Mutant: the loop ends at the first active revision, also if it belongs  *)
(* to another package.                                                     *)
FirstActive(uid, list) ==
  LET a == FirstOf(list, {x \in world : x.active})
  IN  IF \A x \in ToSet(a.nodes) : ControlledBy(x, uid) THEN a ELSE Answer(<< >>)

ActiveRevision(uid, list) ==
  FirstOf(list, {x \in world : x.active /\ ControlledBy(x, uid)})

PackageRevisions(owner, active, list) ==
  Connection(list, {x \in world : /\ owner = None \/ ContainsID(x, owner)
                                  /\ active => x.active})

-----------------------------------------------------------------------------
(* query.go: definitions, compositions and CRDs *)

(* containsCR: one of the owners is a configuration revision. *)
ContainsCR(x) == \E r \in ToSet(x.owners) : r.id \in ConfigRevisions

Definitions(revision, dangling, list) ==
  Connection(list, {x \in world : /\ ~(dangling /\ ContainsCR(x))
                                  /\ revision = None \/ ContainsID(x, revision)})

-----------------------------------------------------------------------------
(* query.go, common.go, apiextensions.go: resources *)

(* What a list with client.InNamespace has.  xgql hands on the namespace   *)
(* for any kind.  The API server ignores it for cluster scoped kinds, the  *)
(* cache answers from the index of that namespace and does not have them   *)
(* there.                                                                  *)
InNamespace(ns) ==
  {x \in world : \/ ns \in {AllNamespaces, x.ns}
                 \/ ClusterScoped(x) /\ x.kind \in Uncached}

Modelled(s) == {x \in s : Models(x)}

(* Mutant: it is left out, and that is all. *)
SkipsSilently(ns, list) == Connection(list, Modelled(InNamespace(ns)))

(* A resource that cannot be modelled is left out, and reported. *)
KubernetesResources(ns, list) ==
  [Connection(list, Modelled(InNamespace(ns))) EXCEPT
     !.err = IF Modelled(InNamespace(ns)) = InNamespace(ns) THEN NoError ELSE "model"]

(* KubernetesResource: the object that an ID names. *)
KubernetesResource(id) ==
  LET found == {x \in world : /\ x.av = id.av /\ x.kind = id.kind
                              /\ x.ns = id.ns /\ x.name = id.name}
  IN  IF id = Malformed THEN Failed("malformed")
      ELSE IF found = {} THEN Failed("not found")
      ELSE LET x == CHOOSE y \in found : TRUE
           IN  IF Models(x) THEN Answer(<<x>>) ELSE Failed("model")

(* The resources of a custom resource definition, of any namespace.  One   *)
(* that cannot be modelled stays as nil, and sorting panics when it        *)
(* compares it: then gqlgen reports an error and shows nothing.            *)
DefinedResources(list) ==
  IF Modelled(world) = world THEN Connection(list, world)
  ELSE IF Len(list) > 1 THEN Failed("panic")
  ELSE [nodes |-> <<Nil>>, total |-> 1, err |-> "model"]

(* readyMatches: a Ready condition that is not there is not True. *)
ReadyMatches(ready, x) ==
  ready # None => (ready = "true") = (x.ready = "True")

(* The namespace is for claims. *)
DefinedByXRD(ready, ns, list) ==
  Connection(list, {x \in InNamespace(ns) : ReadyMatches(ready, x)})

-----------------------------------------------------------------------------
(* event.go *)

(* Mutant: the events are counted, not the warnings. *)
LimitAny(list) == SubSeq(list, 1, LeastOf({Len(list), Cap, Target}))

Warnings(list, n) == Cardinality({m \in 1..n : list[m].warning})

(* limit: it stops behind the first event with which there are Cap events, *)
(* or Target warnings.                                                     *)
Limit(list) ==
  LET stops == {n \in DOMAIN list : n >= Cap \/ Warnings(list, n) >= Target}
  IN  IF stops = {} THEN list ELSE SubSeq(list, 1, LeastOf(stops))

AllEvents(list) == Answer(Limit(Sorted(list, world, ByTime)))

(* The reference has the UID if a resource is asked for its events, and    *)
(* not if the client asks for those of an ID.  Then the API versions have  *)
(* to be equal too.                                                        *)
Involves(e, ref) ==
  IF ref.uid # None THEN e.about.uid = ref.uid
                    ELSE e.about.av = ref.av /\ e.about.name = ref.name

References == Involved \cup {[i EXCEPT !.uid = None] : i \in Involved}

EventsOf(ref, list) ==
  Answer(Sorted(list, {e \in world : Involves(e, ref)}, ByIDReversed))

-----------------------------------------------------------------------------
(* objectmeta.go, composite.go, managed.go, apiextensions.go: references *)

Named(name) == {x \in world : x.name = name}

(* A field that reads one object: one that is not there is an error, or    *)
(* nothing at all if the field is lenient.                                 *)
Referent(name, lenient) ==
  IF Named(name) = {} THEN IF lenient THEN Answer(<< >>) ELSE Failed("not found")
  ELSE Answer(<<CHOOSE x \in Named(name) : TRUE>>)

(* The first owner that is the controller; it has to be modelled. *)
Controller ==
  LET at == {i \in DOMAIN ObjectRefs : ObjectRefs[i].controller}
      a  == Referent(ObjectRefs[LeastOf(at)].name, FALSE)
  IN  IF at = {} THEN Answer(<< >>)
      ELSE IF \A x \in ToSet(a.nodes) : Models(x) THEN a ELSE Failed("model")

(* The references that Owners and Objects follow. *)
Followed(f) == {i \in DOMAIN ObjectRefs : f = "objects" => ObjectRefs[i].relevant}

-----------------------------------------------------------------------------
(* The actions *)

(* The client gets an answer, and no more than MaxAsked of them. *)
Reply(q, a) ==
  /\ q \in DOMAIN page \/ Cardinality(DOMAIN page) < MaxAsked
  /\ page' = [p \in DOMAIN page \cup {q} |-> IF p = q THEN a ELSE page[p]]
  /\ UNCHANGED <<kind, world>>

(* The fields of each kind of objects, with their arguments. *)
Fields ==
  CASE kind = "revision" ->
         [f : {"revisions", "activeRevision"}, uid : UIDs]
           \cup [f : {"packageRevisions"}, owner : Owners \cup {None},
                 active : BOOLEAN]
    [] kind = "definition" ->
         [f : {"definitions"}, revision : Owners \cup {None},
          dangling : BOOLEAN]
           \cup [f : {"definitionOfXR", "definitionOfClaim", "definition"},
                 of : GroupKinds]
    [] kind = "resource" ->
         [f : {"kubernetesResources"}, ns : Namespaces \cup {AllNamespaces}]
           \cup [f : {"definedResources"}]
           \cup [f : {"definedByXRD"}, ready : {None, "true", "false"},
                 ns : Namespaces \cup {AllNamespaces}]
    [] kind = "event" ->
         [f : {"allEvents"}] \cup [f : {"eventsOf"}, ref : References]
    [] kind = "referent" ->
         [f : {"owners", "objects", "controller"}]
           \cup [f : {"referent"}, name : Names, lenient : BOOLEAN]

AskRevisions ==
  /\ kind = "revision"
  /\ \E uid \in UIDs, list \in Lists :
       Reply([f |-> "revisions", uid |-> uid], Revisions(uid, list))
  /\ UNCHANGED lookup

AskActiveRevision ==
  /\ kind = "revision"
  /\ \E uid \in UIDs, list \in Lists :
       Reply([f |-> "activeRevision", uid |-> uid], ActiveRevision(uid, list))
  /\ UNCHANGED lookup

AskPackageRevisions ==
  /\ kind = "revision"
  /\ \E owner \in Owners \cup {None}, active \in BOOLEAN, list \in Lists :
       Reply([f |-> "packageRevisions", owner |-> owner, active |-> active],
             PackageRevisions(owner, active, list))
  /\ UNCHANGED lookup

AskDefinitions ==
  /\ kind = "definition"
  /\ \E revision \in Owners \cup {None}, dangling \in BOOLEAN, list \in Lists :
       Reply([f |-> "definitions", revision |-> revision, dangling |-> dangling],
             Definitions(revision, dangling, list))
  /\ UNCHANGED lookup

AskKubernetesResources ==
  /\ kind = "resource"
  /\ \E ns \in Namespaces \cup {AllNamespaces}, list \in Lists :
       Reply([f |-> "kubernetesResources", ns |-> ns],
             KubernetesResources(ns, list))
  /\ UNCHANGED lookup

AskDefinedResources ==
  /\ kind = "resource"
  /\ \E list \in Lists :
       Reply([f |-> "definedResources"], DefinedResources(list))
  /\ UNCHANGED lookup

AskDefinedByXRD ==
  /\ kind = "resource"
  /\ \E ready \in {None, "true", "false"},
        ns \in Namespaces \cup {AllNamespaces}, list \in Lists :
       Reply([f |-> "definedByXRD", ready |-> ready, ns |-> ns],
             DefinedByXRD(ready, ns, list))
  /\ UNCHANGED lookup

AskEvents ==
  /\ kind = "event"
  /\ \E list \in Lists :
       \/ Reply([f |-> "allEvents"], AllEvents(list))
       \/ \E ref \in References :
            Reply([f |-> "eventsOf", ref |-> ref], EventsOf(ref, list))
  /\ UNCHANGED lookup

(* A client sends back an ID that it has got at some time.                 *)
AskBack ==
  /\ kind = "resource"
  /\ \E x \in Objects["resource"] :
       LET s == String(ReferenceID(x))
       IN  Reply([f |-> "kubernetesResource", id |-> s],
                 KubernetesResource(ParseReferenceID(s)))
  /\ UNCHANGED lookup

(* A definition is asked for, of a managed resource or a provider config. *)
AskDefinition ==
  /\ kind = "definition"
  /\ lookup = Idle
  /\ \E gk \in GroupKinds :
       lookup' = [step |-> "get", of |-> gk,
                  kept |-> {x \in world : x.defines = gk}]
  /\ UNCHANGED <<kind, world, page>>

Looking(step) == kind = "definition" /\ lookup.step = step

Finish(a) ==
  /\ Reply([f |-> "definition", of |-> lookup.of], a)
  /\ lookup' = Idle

(* There is one of the name that was guessed.  It must also define the     *)
(* kind that was asked for.                                                *)
GetDefinition ==
  /\ Looking("get")
  /\ \E x \in world :
       /\ x.name = Guess(lookup.of)
       /\ Finish(IF x.defines = lookup.of THEN Answer(<<x>>) ELSE Answer(<< >>))

(* Mutant: the guess is the only one. *)
GivesUp ==
  /\ Looking("get")
  /\ ~\E x \in world : x.name = Guess(lookup.of)
  /\ Finish(Answer(<< >>))

(* There is none: all definitions are listed next. *)
NoSuchDefinition ==
  /\ Looking("get")
  /\ ~\E x \in world : x.name = Guess(lookup.of)
  /\ lookup' = [lookup EXCEPT !.step = "list"]
  /\ UNCHANGED <<kind, world, page>>

ListDefinitions ==
  /\ Looking("list")
  /\ \E list \in Lists :
       Finish(FirstOf(list, {x \in world : x.defines = lookup.of}))

(* composite.go: the XRD that defines a composite resource. *)
AskXRD ==
  /\ kind = "definition"
  /\ \E gk \in GroupKinds, list \in Lists :
       Reply([f |-> "definitionOfXR", of |-> gk],
             FirstOf(list, {x \in world : x.defines = gk}))
  /\ UNCHANGED lookup

(* The XRD of a claim; not every XRD offers one. *)
AskClaimXRD ==
  /\ kind = "definition"
  /\ \E gk \in GroupKinds, list \in Lists :
       Reply([f |-> "definitionOfClaim", of |-> gk],
             FirstOf(list, {x \in world : x.claims = gk}))
  /\ UNCHANGED lookup

AskReferent ==
  /\ kind = "referent"
  /\ \/ Reply([f |-> "controller"], Controller)
     \/ \E name \in Names, lenient \in BOOLEAN :
          Reply([f |-> "referent", name |-> name, lenient |-> lenient],
                Referent(name, lenient))
  /\ UNCHANGED lookup

(* Owners and Objects start a goroutine for each reference. *)
AskReferents ==
  /\ kind = "referent"
  /\ lookup = Idle
  /\ \E f \in {"owners", "objects"} :
       lookup' = [step |-> "gather", of |-> f, kept |-> world,
                  todo |-> Followed(f), nodes |-> << >>, err |-> NoError]
  /\ UNCHANGED <<kind, world, page>>

Gathering(i) == lookup.step = "gather" /\ i \in lookup.todo

(* graphql.AddError: of several errors the one of the server is kept here. *)
Errs(i, e) == lookup' = [lookup EXCEPT !.todo = @ \ {i},
                                       !.err = IF @ = "server" THEN @ ELSE e]

(* The goroutine of a reference appends what it has read.  An owner has to *)
(* be modelled; what Objects reads has a type already.                     *)
ReadReferent(i) ==
  /\ Gathering(i)
  /\ \E x \in Named(ObjectRefs[i].name) :
       IF lookup.of = "owners" /\ ~Models(x) THEN Errs(i, "model")
       ELSE lookup' = [lookup EXCEPT !.todo = @ \ {i}, !.nodes = Append(@, x)]
  /\ UNCHANGED <<kind, world, page>>

(* It is not found, which is an error here. *)
ReferentMissing(i) ==
  /\ Gathering(i)
  /\ Named(ObjectRefs[i].name) = {}
  /\ Errs(i, "not found")
  /\ UNCHANGED <<kind, world, page>>

(* wg.Wait: the others are shown even if some are in error. *)
ReferentsRead ==
  /\ lookup.step = "gather"
  /\ lookup.todo = {}
  /\ Reply([f |-> lookup.of], [Answer(lookup.nodes) EXCEPT !.err = lookup.err])
  /\ lookup' = Idle

(* There is no client for the credentials, or the read fails. *)
AskFails ==
  \/ /\ \E q \in Fields \cup DOMAIN page : Reply(q, Failed("server"))
     /\ UNCHANGED lookup
  \/ /\ Looking("get") \/ Looking("list")
     /\ Finish(Failed("server"))
  \/ /\ \E i \in DOMAIN ObjectRefs :
          /\ Gathering(i)
          /\ Errs(i, "server")
     /\ UNCHANGED <<kind, world, page>>

(* An object appears or goes. *)
Change ==
  /\ \E x \in Objects[kind] :
       world' = IF x \in world THEN world \ {x} ELSE world \cup {x}
  /\ NamesUnique(world')
  /\ page' = << >>
  /\ lookup' = IF lookup = Idle THEN Idle
               ELSE [lookup EXCEPT !.kept = @ \cap world']
  /\ UNCHANGED kind

QueryNext ==
  \/ AskRevisions \/ AskActiveRevision \/ AskPackageRevisions
  \/ AskDefinitions \/ AskXRD \/ AskClaimXRD
  \/ AskDefinition \/ GetDefinition \/ NoSuchDefinition \/ ListDefinitions
  \/ AskKubernetesResources \/ AskDefinedResources \/ AskDefinedByXRD \/ AskBack
  \/ AskEvents
  \/ AskReferent \/ AskReferents \/ ReferentsRead
  \/ \E i \in DOMAIN ObjectRefs : ReadReferent(i) \/ ReferentMissing(i)
  \/ AskFails
  \/ Change

QuerySpec == QueryInit /\ [][QueryNext]_queryVars

-----------------------------------------------------------------------------
(* Properties *)

Shown(q) == ToSet(page[q].nodes)

Succeeded(q) == q \in DOMAIN page /\ page[q].err = NoError

(* Every answer is one of a field, shows objects that exist (or did when   *)
(* Owners or Objects has read them), each at most once, counts what it     *)
(* shows, and shows no nil without an error.                               *)
QueryTypeOK ==
  /\ kind \in Kinds
  /\ world \subseteq Objects[kind]
  /\ Cardinality(DOMAIN page) <= MaxAsked
  /\ \A q \in DOMAIN page :
       /\ q.f # "kubernetesResource" => q \in Fields
       /\ page[q].total = Len(page[q].nodes)
       /\ IsInjective(page[q].nodes)
       /\ Shown(q) \subseteq {Nil} \cup (IF q.f \in {"owners", "objects"}
                                        THEN Objects[kind] ELSE world)
       /\ Succeeded(q) => Nil \notin Shown(q)
  /\ \/ lookup = Idle
     \/ /\ kind = "definition"
        /\ lookup.step \in {"get", "list"} /\ lookup.of \in GroupKinds
        /\ lookup.kept \subseteq world
     \/ /\ kind = "referent"
        /\ lookup.step = "gather" /\ lookup.kept \subseteq world
        /\ lookup.todo \subseteq Followed(lookup.of)
        /\ ToSet(lookup.nodes) \subseteq Objects[kind]

(* A resource is missing from an answer only with an error that says so:   *)
(* KubernetesResources and DefinedResources, when one of the resources     *)
(* that they have listed cannot be modelled; Owners and Objects, when one  *)
(* of the references that they have followed leads to nothing.  Excepted   *)
(* are cluster scoped resources that are cached, if a namespace is given;  *)
(* none of another namespace is shown.                                     *)
MissingIsReported ==
  \A q \in DOMAIN page :
    /\ q.f = "kubernetesResources" /\ Succeeded(q) =>
         \A x \in world :
           /\ \/ q.ns \in {AllNamespaces, x.ns}
              \/ ClusterScoped(x) /\ x.kind \in Uncached
              => x \in Shown(q)
           /\ x \in Shown(q) => q.ns \in {AllNamespaces, x.ns} \/ ClusterScoped(x)
    /\ q.f = "definedResources" /\ Succeeded(q) => Shown(q) = world
    /\ q.f \in {"owners", "objects"} /\ Succeeded(q) =>
         {x.name : x \in Shown(q)} = {ObjectRefs[i].name : i \in Followed(q.f)}

(* The three ways to see the revisions of a package agree, though each     *)
(* decides for itself: the active revision is one of its revisions, there  *)
(* is one if any of them is active, and those of the package with this UID *)
(* are among those of the packages with its name, the ones of its          *)
(* predecessors included.  (Revisions and ActiveRevision of provider.go    *)
(* and configuration.go, ProviderRevisions and ConfigurationRevisions.)    *)
RevisionsAgree ==
  \A p, q \in DOMAIN page :
    Succeeded(p) /\ Succeeded(q) /\ p.f = "revisions" =>
      /\ q.f = "activeRevision" /\ q.uid = p.uid =>
           /\ Shown(q) \subseteq {x \in Shown(p) : x.active}
           /\ Shown(q) = {} => \A x \in Shown(p) : ~x.active
      /\ q.f = "packageRevisions" =>
           \A x \in Shown(p) :
             /\ \E r \in ToSet(x.owners) : q.owner = r.id /\ r.uid = p.uid
             /\ q.active => x.active
             => x \in Shown(q)

(* What the schema says of the argument namespace: it has no effect on     *)
(* cluster scoped resources.  KubernetesResources does not look at the     *)
(* scope, and loses those that are cached, without an error.               *)
NamespaceSparesClusterScoped ==
  \A q \in DOMAIN page :
    q.f = "kubernetesResources" /\ Succeeded(q) =>
      {x \in world : ClusterScoped(x)} \subseteq Shown(q)

(* Every definition is dangling or belongs to a configuration revision     *)
(* that shows it, and none is both: CompositeResourceDefinitions and       *)
(* Compositions test the two by different functions, containsCR and        *)
(* containsID.  This is about one argument at a time: for both see         *)
(* DanglingTakesPrecedence.                                                *)
OwnershipAgrees ==
  \A p, q \in DOMAIN page :
    /\ Succeeded(p) /\ Succeeded(q)
    /\ p.f = "definitions" /\ p.dangling /\ p.revision = None
    /\ q.f = "definitions" /\ ~q.dangling /\ q.revision \in ConfigRevisions
    => /\ Shown(p) \cap Shown(q) = {}
       /\ \A x \in world \ Shown(p) :
            (\A r \in ToSet(x.owners) : r.id \in ConfigRevisions => r.id = q.revision)
              => x \in Shown(q)

(* What the schema says of the argument dangling: it takes precedence over *)
(* revision when both are set.  The code applies both, and then what it    *)
(* shows has no owner among the configuration revisions, and has one.      *)
DanglingTakesPrecedence ==
  \A q \in DOMAIN page :
    /\ q.f = "definitions" /\ q.dangling /\ Succeeded(q)
    /\ q.revision \in ConfigRevisions
    => Shown(q) = {x \in world : ~ContainsCR(x)}

(* The resources that are ready and those that are not, as the two answers *)
(* of DefinedCompositeResources (or Claims) have them, are all of them,    *)
(* and no resource is in both, also one without a Ready condition.         *)
ReadyAgrees ==
  \A p, q \in DOMAIN page :
    /\ Succeeded(p) /\ Succeeded(q)
    /\ p.f = "definedByXRD" /\ p.ready = "true"
    /\ q.f = "definedByXRD" /\ q.ready = "false" /\ q.ns = p.ns
    => /\ Shown(p) \cap Shown(q) = {}
       /\ Shown(p) \cup Shown(q) = InNamespace(p.ns)

(* The events of a resource and those of its ID: the resource is asked by  *)
(* its UID, and the ID does not have one, so it also gets the events of    *)
(* earlier objects of the name.  Those that the two have of the resource   *)
(* itself are the same, but for events that were recorded about it at      *)
(* another API version than that of the ID: only the resource shows them.  *)
EventsAgree ==
  \A p, q \in DOMAIN page :
    /\ Succeeded(p) /\ Succeeded(q)
    /\ p.f = "eventsOf" /\ p.ref.uid # None
    /\ q.f = "eventsOf" /\ q.ref = [p.ref EXCEPT !.uid = None]
    => {e \in Shown(p) : e.about.av = q.ref.av}
         = {e \in Shown(q) : e.about.uid = p.ref.uid}

(* The controller of an object is among its owners: Owners and Controller  *)
(* each read the references, by name, so it may be an earlier object of    *)
(* that name.                                                              *)
OwnersAgree ==
  \A p, q \in DOMAIN page :
    Succeeded(p) /\ Succeeded(q) /\ p.f = "controller" /\ q.f = "owners" =>
      \A x \in Shown(p) : \E y \in Shown(q) : y.name = x.name

(* What different fields answer about the same objects agrees, although    *)
(* each field tests the objects with a function of its own.                *)
AnswersAgree ==
  RevisionsAgree /\ OwnershipAgrees /\ ReadyAgrees /\ EventsAgree /\ OwnersAgree

(* "We have to ensure enough warnings such that view is filled": of all    *)
(* events the oldest are shown, at most Cap of them, and one is left out   *)
(* only if there are Cap of them or Target warnings.                       *)
WarningsShown ==
  \A q \in DOMAIN page :
    Succeeded(q) /\ q.f = "allEvents" =>
      /\ page[q].total <= Cap
      /\ \A x \in Shown(q), y \in world \ Shown(q) : x.time <= y.time
      /\ \/ Shown(q) = world
         \/ page[q].total = Cap
         \/ Cardinality({x \in Shown(q) : x.warning}) >= Target

(* The ID that xgql gives to a resource leads back to it: the type that it *)
(* has been taken for decides whether its namespace is in the ID.  The ID  *)
(* of a name that has the separator cannot be read.                        *)
IdLeadsBack ==
  \A q \in DOMAIN page, x \in world :
    /\ q.f = "kubernetesResource" /\ q.id = String(ReferenceID(x))
    /\ Models(x)
    /\ page[q].err # "server"
    => IF Sep \in ToSet(x.name) THEN page[q].err = "malformed"
                                ELSE page[q].nodes = <<x>>

(* A field gives the same answer again while nothing changes, however the  *)
(* cache orders its lists: live queries compare answers.  It does where    *)
(* the objects have different joined IDs, one revision of a package is     *)
(* active, one definition is for a kind and has the plural of no other,    *)
(* and no two events are of one time.  Owners and Objects do not sort, and *)
(* answer in the order in which their goroutines finish.                   *)
Ordered(q) ==
  CASE q.f = "activeRevision" ->
         \A x, y \in world :
           /\ x.active /\ ControlledBy(x, q.uid)
           /\ y.active /\ ControlledBy(y, q.uid) => x = y
    [] q.f = "definition" ->
         \A x, y \in world : /\ {x.defines, y.defines} = {q.of} => x = y
                             /\ x.name = Guess(q.of) => x.defines = q.of
    [] q.f = "definitionOfXR" ->
         \A x, y \in world : {x.defines, y.defines} = {q.of} => x = y
    [] q.f = "definitionOfClaim" ->
         \A x, y \in world : {x.claims, y.claims} = {q.of} => x = y
    [] q.f = "allEvents" -> \A x, y \in world : x.time = y.time => x = y
    [] q.f \in {"owners", "objects"} -> FALSE
    [] OTHER -> \A x, y \in world : x.key = y.key => x = y

SameAnswer ==
  [][\A q \in DOMAIN page \cap DOMAIN page' :
       /\ world' = world
       /\ Ordered(q)
       /\ {page[q].err, page'[q].err} \subseteq {NoError, "model"}
       => page'[q] = page[q]]_<<world, page>>

(* The definition of a resource is found if it is there from the start of  *)
(* the lookup to its end, whatever else comes and goes between the two     *)
(* reads, and what is found is a definition of its kind.  Only another     *)
(* kind of the group whose plural is the guessed one hides it: then the    *)
(* list is not read.  (Definition of managed.go and providerconfig.go.)    *)
DefinitionFound(a) ==
  lookup.step \in {"get", "list"} /\ a.err = NoError =>
    /\ \A x \in ToSet(a.nodes) : x.defines = lookup.of
    /\ \/ a.nodes # << >>
       \/ lookup.kept = {}
       \/ \E y \in world : y.name = Guess(lookup.of) /\ y.defines # lookup.of

(* What an object refers to is shown, if it is there from the first of the *)
(* concurrent reads to the last, also when others of them have failed.     *)
(* (Owners of objectmeta.go, Objects of provider.go and configuration.go.) *)
ReferentsFound(a) ==
  lookup.step = "gather" /\ a.err # "server" =>
    \A x \in lookup.kept :
      /\ \E i \in Followed(lookup.of) : ObjectRefs[i].name = x.name
      /\ lookup.of = "owners" => Models(x)
      => x \in ToSet(a.nodes)

(* What is there while it is looked up is found. *)
FoundIfKept ==
  [][lookup # Idle /\ lookup' = Idle =>
       /\ \A q \in DOMAIN page' : q.f = "definition" /\ q.of = lookup.of =>
            DefinitionFound(page'[q])
       /\ \A q \in DOMAIN page' : q.f = lookup.of => ReferentsFound(page'[q])]_queryVars

=============================================================================
