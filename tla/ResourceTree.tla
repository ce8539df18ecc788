---------------------------- MODULE ResourceTree ----------------------------
(***************************************************************************)
(* internal/graph/resolvers/query.go and composite.go: the resolver of     *)
(* crossplaneResourceTree.                                                 *)
(*                                                                         *)
(* getAllDescendant is a recursion over resources that runs concurrently:  *)
(* the resources that a composite refers to are read by a goroutine each,  *)
(* which append to one list under a mutex, and the tree below each of them *)
(* is then collected by another goroutine.  A call is known here by its    *)
(* path, the indexes of the references that lead to it from the root.  No  *)
(* call returns an error: errors are added to the response, and a call     *)
(* learns that its callees have failed by looking whether the response has *)
(* errors, which other fields of the same query add as well.               *)
(***************************************************************************)
EXTENDS Integers, Sequences, FiniteSets, SequencesExt

CONSTANTS
  Objs,      \* the Kubernetes resources
  Kind,      \* Kind[o] is "composite", "claim" or "other"
  Refs,      \* Refs[o] is what o refers to: the resource references of a
             \* composite, or the resource reference, if any, of a claim
  Rank,      \* Rank[o] places the id of o in the order of model.join
  Root,      \* the resource that the query names
  Depth      \* no chain of references from Root is longer

Nameless == "nameless"  \* a reference whose name is empty
NoParent == "no parent" \* the nil ParentID

(* The object that path p leads to. *)
At(p) ==
  LET at[n \in 0..Len(p)] == IF n = 0 THEN Root ELSE Refs[at[n - 1]][p[n]]
  IN  at[Len(p)]

(* The references of o that are followed; nameless ones are ignored. *)
NamedRefs(o) == {i \in DOMAIN Refs[o] : Refs[o][i] # Nameless}

PathsOf[n \in 0..(Depth + 1)] ==
  IF n = 0 THEN {<<>>}
  ELSE UNION {{Append(p, i) : i \in NamedRefs(At(p))} : p \in PathsOf[n - 1]}

Paths == UNION {PathsOf[n] : n \in 0..Depth}

Below(p)  == {Append(p, i) : i \in NamedRefs(At(p))}
Parent(p) == Front(p)

(* References that form a cycle would be followed without end. *)
ASSUME ResourceTreeAssumption ==
  /\ {Nameless, NoParent} \cap Objs = {}
  /\ Kind \in [Objs -> {"composite", "claim", "other"}]
  /\ Refs \in [Objs -> Seq(Objs \cup {Nameless})]
  /\ Rank \in [Objs -> Nat]
  /\ Root \in Objs
  /\ Depth \in Nat
  /\ \A o \in Objs :
       /\ Kind[o] = "other" => Refs[o] = <<>>
       /\ Kind[o] = "claim" =>
            /\ Len(Refs[o]) <= 1
            /\ \A i \in DOMAIN Refs[o] :
                 Refs[o][i] # Nameless /\ Kind[Refs[o][i]] = "composite"
  /\ PathsOf[Depth + 1] = {}

VARIABLES
  get,     \* get[p]: what became of reading the resource at p
  frame,   \* frame[p]: how far getAllDescendant of that resource is
  nodes,   \* nodes[p]: the resources that Resources, or Resource, has read
  list,    \* list[p]: what getAllDescendant has returned
  errs,    \* the response has errors
  field,   \* how far the resolver of the field is
  answer   \* the nodes of the connection that it returns

vars == <<get, frame, nodes, list, errs, field, answer>>

(* Mutant: the root has a ParentID too, one that names nothing. *)
NodeWithParent(p) ==
  [parent |-> IF p = <<>> THEN Nameless ELSE At(Parent(p)), at |-> p]

(* CrossplaneResourceTreeNode: the resource is given by its path. *)
Node(p) == [parent |-> IF p = <<>> THEN NoParent ELSE At(Parent(p)), at |-> p]

TreeNode == [parent : Objs \cup {NoParent}, at : Paths]

Init ==
  /\ get = [p \in Paths |-> "none"]
  /\ frame = [p \in Paths |-> "none"]
  /\ nodes = [p \in Paths |-> <<>>]
  /\ list = [p \in Paths |-> <<>>]
  /\ errs \in BOOLEAN
  /\ field = "root"
  /\ answer = <<>>

-----------------------------------------------------------------------------
(* Calls of getAllDescendant start for the resources at the paths in S:    *)
(* the references of composites and claims are read, other resources have  *)
(* nothing below them.  Other calls and reads are as in f and g.            *)
Enter(S, f, g) ==
  /\ frame' = [q \in Paths |-> IF q \notin S THEN f[q]
                               ELSE IF Kind[At(q)] = "other" THEN "leaf"
                               ELSE "reading"]
  /\ get' = [q \in Paths |-> IF q # <<>> /\ Parent(q) \in S THEN "reading"
                             ELSE g[q]]

(* KubernetesResource: no client, no such resource, any other failure of   *)
(* the read, or an object that cannot be modelled.  Unlike the resources   *)
(* below it the root has to be found.                                      *)
RootFails ==
  /\ field = "root"
  /\ get' = [get EXCEPT ![<<>>] = "failed"]
  /\ errs' = TRUE
  /\ field' = "returned"
  /\ UNCHANGED <<frame, nodes, list, answer>>

RootFound ==
  LET g == [get EXCEPT ![<<>>] = "found"] IN
  /\ field = "root"
  /\ IF errs THEN /\ field' = "returned"
                  /\ get' = g
                  /\ UNCHANGED frame
             ELSE /\ field' = "descending"
                  /\ Enter({<<>>}, frame, g)
  /\ UNCHANGED <<nodes, list, errs, answer>>

-----------------------------------------------------------------------------
(* compositeResourceSpec.Resources and compositeResourceClaimSpec.Resource *)

(* clients.Get fails, before anything is read. *)
NoClient(p) ==
  /\ frame[p] = "reading"
  /\ \A q \in Below(p) : get[q] = "reading"
  /\ errs' = TRUE
  /\ get' = [q \in Paths |-> IF q \in Below(p) THEN "failed" ELSE get[q]]
  /\ UNCHANGED <<frame, nodes, list, field, answer>>

(* The goroutine of a reference has read it, and appends it under mu. *)
RefFound(q) ==
  /\ get[q] = "reading"
  /\ get' = [get EXCEPT ![q] = "found"]
  /\ nodes' = [nodes EXCEPT ![Parent(q)] = Append(@, q)]
  /\ UNCHANGED <<frame, list, errs, field, answer>>

(* What is not found, such as a resource not created yet, is left out. *)
RefMissing(q) ==
  /\ get[q] = "reading"
  /\ get' = [get EXCEPT ![q] = "missing"]
  /\ UNCHANGED <<frame, nodes, list, errs, field, answer>>

(* Another failure of the read, for instance the deadline of the request,  *)
(* or an object that cannot be modelled.                                   *)
RefFails(q) ==
  /\ get[q] = "reading"
  /\ get' = [get EXCEPT ![q] = "failed"]
  /\ errs' = TRUE
  /\ UNCHANGED <<frame, nodes, list, field, answer>>

(* sort.Stable, by the ids of the resources: the arrangement in which they *)
(* ascend and those with equal ids keep their order.                       *)
Less(s, i, j) == \/ Rank[At(s[i])] < Rank[At(s[j])]
                 \/ Rank[At(s[i])] = Rank[At(s[j])] /\ i < j

StableSort(s) ==
  {[k \in DOMAIN s |-> s[f[k]]] :
     f \in {g \in Bijection(DOMAIN s, DOMAIN s) :
             \A j, k \in DOMAIN s : j < k => Less(s, g[j], g[k])}}

(* Mutant: a goroutine that calls wg.Add itself may not be waited for. *)
WaitedForOne(p) ==
  Below(p) = {} \/ \E q \in Below(p) : get[q] # "reading"

(* wg.Wait of Resources. *)
WaitedForReads(p) == \A q \in Below(p) : get[q] # "reading"

(* The references of p have been read.  If the response has errors the     *)
(* call returns nil, else a call starts for each resource that was found.  *)
ReadDone(p) ==
  /\ frame[p] = "reading"
  /\ WaitedForReads(p)
  /\ \E sorted \in StableSort(nodes[p]) : nodes' = [nodes EXCEPT ![p] = sorted]
  /\ IF errs
     THEN /\ frame' = [frame EXCEPT ![p] = "returned"]
          /\ UNCHANGED get
     ELSE Enter(ToSet(nodes[p]), [frame EXCEPT ![p] = "collecting"], get)
  /\ UNCHANGED <<list, errs, field, answer>>

-----------------------------------------------------------------------------
(* getAllDescendant *)

Leaf(p) ==
  /\ frame[p] = "leaf"
  /\ frame' = [frame EXCEPT ![p] = "returned"]
  /\ list' = [list EXCEPT ![p] = <<Node(p)>>]
  /\ UNCHANGED <<get, nodes, errs, field, answer>>

(* Mutant: waits for a call per reference, also for those not found. *)
WaitsForAllRefs(p) == Below(p)

(* The calls that p waits for before it puts their lists together. *)
Callees(p) == ToSet(nodes[p])

(* wg.Wait; the lists of the callees follow the node of p itself. *)
Collected(p) ==
  /\ frame[p] = "collecting"
  /\ \A q \in Callees(p) : frame[q] = "returned"
  /\ frame' = [frame EXCEPT ![p] = "returned"]
  /\ list' = [list EXCEPT ![p] =
                IF errs THEN <<>>
                ELSE <<Node(p)>> \o FlattenSeq([i \in DOMAIN nodes[p] |->
                                                  list[nodes[p][i]]])]
  /\ UNCHANGED <<get, nodes, errs, field, answer>>

(* CrossplaneResourceTree returns what the root's call has returned. *)
TreeDone ==
  /\ field = "descending"
  /\ frame[<<>>] = "returned"
  /\ field' = "returned"
  /\ answer' = IF errs THEN <<>> ELSE list[<<>>]
  /\ UNCHANGED <<get, frame, nodes, list, errs>>

-----------------------------------------------------------------------------
(* Another field of the same response adds an error. *)
OtherFails ==
  /\ ~errs
  /\ errs' = TRUE
  /\ UNCHANGED <<get, frame, nodes, list, field, answer>>

Reads(q) == RefFound(q) \/ RefMissing(q) \/ RefFails(q)

Calls(p) == NoClient(p) \/ ReadDone(p) \/ Leaf(p) \/ Collected(p)

Next ==
  \/ RootFails
  \/ RootFound
  \/ \E q \in Paths : Reads(q)
  \/ \E p \in Paths : Calls(p)
  \/ TreeDone
  \/ OtherFails

Spec == Init /\ [][Next]_vars

(* Reads return, at the deadline at the latest, and goroutines go on. *)
Fairness ==
  /\ WF_vars(RootFails \/ RootFound)
  /\ \A p \in Paths : WF_vars(Reads(p)) /\ WF_vars(ReadDone(p) \/ Leaf(p) \/ Collected(p))
  /\ WF_vars(TreeDone)

FairSpec == Spec /\ Fairness

-----------------------------------------------------------------------------
TypeOK ==
  /\ get \in [Paths -> {"none", "reading", "found", "missing", "failed"}]
  /\ frame \in [Paths -> {"none", "reading", "leaf", "collecting", "returned"}]
  /\ nodes \in [Paths -> Seq(Paths)]
  /\ \A p \in Paths : nodes[p] \in Seq(Below(p))
  /\ list \in [Paths -> Seq(TreeNode)]
  /\ errs \in BOOLEAN
  /\ field \in {"root", "descending", "returned"}
  /\ answer \in Seq(TreeNode)

Found == {p \in Paths : get[p] = "found"}

(* q comes after p in a walk that visits a resource before what is below   *)
(* it, and resources next to each other in the order of their ids.         *)
Follows(q, p) ==
  \/ IsStrictPrefix(p, q)
  \/ \E i \in DOMAIN p \cap DOMAIN q :
       /\ \A j \in 1..(i - 1) : p[j] = q[j]
       /\ p[i] # q[i]
       /\ Rank[At(SubSeq(p, 1, i))] <= Rank[At(SubSeq(q, 1, i))]

(* A tree that is returned has every resource that was found, once, and    *)
(* nothing below one of them is unread or has failed, although the calls   *)
(* that met an error have just returned nothing.                           *)
Complete ==
  /\ Len(answer) = Cardinality(Found)
  /\ {answer[i].at : i \in DOMAIN answer} = Found
  /\ \A p \in Found : \A q \in Below(p) : get[q] \in {"found", "missing"}

(* Its order does not depend on the order in which goroutines have read    *)
(* it: parents come before their children, each subtree is in one piece,   *)
(* siblings are ordered by id, and ParentID leads to the parent.           *)
DepthFirst ==
  /\ \A i, j \in DOMAIN answer : i < j => Follows(answer[j].at, answer[i].at)
  /\ \A i \in DOMAIN answer : answer[i].parent # NoParent =>
       \E j \in 1..(i - 1) :
         /\ At(answer[j].at) = answer[i].parent
         /\ answer[i].at \in Below(answer[j].at)

(* The field returns the whole tree, in its order, or nothing at all in a  *)
(* response that has errors (CrossplaneResourceTree, getAllDescendant and  *)
(* Resources, whose calls see only whether the response has errors).       *)
WholeTree ==
  field = "returned" => IF answer = <<>> THEN errs ELSE Complete /\ DepthFirst

(* The field is answered, whatever is found or fails. *)
Answered == <>(field = "returned")
=============================================================================
