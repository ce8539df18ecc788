----------------------------- MODULE QueryProofs -----------------------------
(***************************************************************************)
(* Proofs about the fields of a query.  The first part is about            *)
(* crossplaneResourceTree: the field returns the whole tree, in its order, *)
(* or nothing in a response with errors, for any resources and references  *)
(* and however the goroutines take turns.  The second part is about the    *)
(* other fields: what they answer is what the objects that exist call for, *)
(* for any objects and in whatever order an informer's cache lists them.   *)
(***************************************************************************)
EXTENDS ResourceTree, Resolvers, FiniteSetTheorems, TLAPS

(* The resources at or below p. *)
Under(p) == {q \in Paths : Len(p) <= Len(q) /\ \A k \in 1..Len(p) : q[k] = p[k]}

(* A list of nodes: what it has, its order, and that the parents of its    *)
(* nodes come before them, those of nodes in T excepted.                   *)
Places(s) == {s[n].at : n \in DOMAIN s}

InOrder(s) == \A m, n \in DOMAIN s : m < n => Follows(s[n].at, s[m].at)

HasParent(s, n) ==
  \E m \in 1..(n - 1) : At(s[m].at) = s[n].parent /\ s[n].at \in Below(s[m].at)

Backed(s, T) == \A n \in DOMAIN s : s[n] \in T \/ HasParent(s, n)

(* s is the tree at p of the resources in F. *)
IsTree(p, F, s) ==
  /\ s \in Seq(TreeNode)
  /\ s # << >>
  /\ Places(s) = Under(p) \cap F
  /\ InOrder(s)
  /\ Backed(s, {Node(p)})

-----------------------------------------------------------------------------
(* The inductive invariant *)

(* What is read belongs to a call that waits for it, and what has a call   *)
(* has been found.                                                         *)
ReadsHaveCall ==
  /\ get[<< >>] # "reading"
  /\ \A q \in Paths :
       /\ frame[q] # "none" => get[q] = "found"
       /\ q # << >> =>
            /\ get[q] = "reading" => frame[Parent(q)] = "reading"
            /\ get[q] # "none" => frame[Parent(q)] # "none"
            /\ frame[q] # "none" => frame[Parent(q)] \in {"collecting", "returned"}

(* How far a call is with what it refers to. *)
CallsHaveReads ==
  \A p \in Paths :
    /\ frame[p] = "reading" => \A q \in Below(p) : get[q] # "none"
    /\ frame[p] = "collecting" => \A q \in Below(p) : get[q] \notin {"none", "reading"}
    /\ frame[p] = "leaf" => Below(p) = {}

(* The nodes of a call are the resources below it that were found, each    *)
(* once, and sorted once all have been read.                               *)
NodesAreFound ==
  \A p \in Paths :
    /\ frame[p] = "none" => nodes[p] = << >>
    /\ frame[p] \in {"reading", "collecting"} =>
         /\ ToSet(nodes[p]) = {q \in Below(p) : get[q] = "found"}
         /\ \A m, n \in DOMAIN nodes[p] : m # n => nodes[p][m] # nodes[p][n]
    /\ frame[p] = "collecting" =>
         \A m, n \in DOMAIN nodes[p] :
           m < n => Rank[At(nodes[p][m])] <= Rank[At(nodes[p][n])]

(* What leads from p to a resource that was found was found, too. *)
Lineage ==
  \A q \in Found, p \in Paths :
    q \in Under(p) /\ q # p =>
      \E c \in Below(p) : get[c] = "found" /\ q \in Under(c)

FailuresAreErrors == ~errs => \A q \in Paths : get[q] # "failed"

(* Nothing below p is unread or has failed. *)
Settled(p) == \A q \in Under(p) \cap Found : \A r \in Below(q) : get[r] \in {"found", "missing"}

(* A call that has returned a list, or that has returned in a response     *)
(* without errors, has returned its whole tree, and nothing happens in it. *)
ReturnedIsWhole ==
  \A p \in Paths :
    /\ list[p] # << >> => frame[p] = "returned"
    /\ frame[p] = "returned" /\ (~errs \/ list[p] # << >>) =>
         IsTree(p, Found, list[p]) /\ Settled(p)

AnswerIsList ==
  /\ field = "root" => \A p \in Paths : get[p] = "none" /\ frame[p] = "none"
  /\ field # "returned" => answer = << >>
  /\ field = "returned" /\ answer = << >> => errs
  /\ answer # << >> => frame[<< >>] = "returned" /\ answer = list[<< >>]

IInv == /\ TypeOK /\ ReadsHaveCall /\ CallsHaveReads /\ NodesAreFound
        /\ Lineage /\ FailuresAreErrors /\ ReturnedIsWhole /\ AnswerIsList

-----------------------------------------------------------------------------
(* Paths                                                                   *)

(* A non-empty set of natural numbers has a least element. *)
LEMMA LeastNat ==
  ASSUME NEW T, T \subseteq Nat, T # {}
  PROVE  \E x \in T : \A y \in T : x <= y
<1>1. PICK x \in T : \A y \in T : ~(<<y, x>> \in OpToRel(<, Nat))
  BY WFMin, NatLessThanWellFounded
<1>2. \A y \in T : ~(y < x)
  BY <1>1 DEF OpToRel
<1> QED
  BY <1>2, SMT

(* f holds the objects that the first n indexes of p lead to. *)
Walk(p, m, f) == f = [n \in 0..m |-> IF n = 0 THEN Root ELSE Refs[f[n - 1]][p[n]]]

LEMMA WalkExists ==
  ASSUME NEW p, NEW m \in Nat
  PROVE  \E f : Walk(p, m, f)
<1> DEFINE T == {n \in Nat : ~\E f : Walk(p, n, f)}
<1>1. SUFFICES ASSUME T # {} PROVE FALSE
  OBVIOUS
<1>2. PICK n \in T : \A k \in T : n <= k
  BY <1>1, LeastNat
<1>3. n # 0
  <2>1. Walk(p, 0, [k \in 0..0 |-> Root])
    BY DEF Walk
  <2> QED
    BY <2>1
<1>4. n - 1 \in Nat /\ n - 1 \notin T
  BY <1>2, <1>3
<1>5. PICK f : Walk(p, n - 1, f)
  BY <1>4
<1> DEFINE g == [k \in 0..n |-> IF k = n THEN Refs[f[n - 1]][p[n]] ELSE f[k]]
<1>6. ASSUME NEW k \in 0..n
      PROVE  g[k] = IF k = 0 THEN Root ELSE Refs[g[k - 1]][p[k]]
  <2>1. CASE k = n
    BY <1>3, <2>1
  <2>2. CASE k # n
    <3>1. k \in 0..(n - 1) /\ g[k] = f[k]
      BY <2>2
    <3>2. f[k] = IF k = 0 THEN Root ELSE Refs[f[k - 1]][p[k]]
      BY <1>5, <3>1 DEF Walk
    <3>3. k # 0 => g[k - 1] = f[k - 1]
      BY <3>1
    <3> QED
      BY <3>1, <3>2, <3>3
  <2> QED
    BY <2>1, <2>2
<1>7. g = [k \in 0..n |-> IF k = 0 THEN Root ELSE Refs[g[k - 1]][p[k]]]
  BY <1>6
<1> QED
  BY <1>7 DEF Walk

(* The objects on the way of p. *)
Way(p) == CHOOSE f : Walk(p, Len(p), f)

LEMMA AtFact ==
  ASSUME NEW p \in Seq(Nat)
  PROVE  /\ At(p) = Way(p)[Len(p)]
         /\ Way(p)[0] = Root
         /\ \A n \in 1..Len(p) : Way(p)[n] = Refs[Way(p)[n - 1]][p[n]]
<1>0. Len(p) \in Nat
  OBVIOUS
<1>1. Walk(p, Len(p), Way(p))
  <2>1. \E f : Walk(p, Len(p), f)
    BY <1>0, WalkExists
  <2> QED
    BY <2>1, Zenon DEF Way
<1>2. At(p) = Way(p)[Len(p)]
  BY Zenon DEF At, Way, Walk
<1>3. Way(p)[0] = Root
  BY <1>0, <1>1 DEF Walk
<1>4. ASSUME NEW n \in 1..Len(p)
      PROVE  Way(p)[n] = Refs[Way(p)[n - 1]][p[n]]
  <2>1. n \in 0..Len(p) /\ n # 0
    BY <1>0
  <2> QED
    BY <1>1, <2>1 DEF Walk
<1> QED
  BY <1>2, <1>3, <1>4

LEMMA AtRoot == At(<< >>) = Root
<1>1. << >> \in Seq(Nat) /\ Len(<< >>) = 0
  OBVIOUS
<1>2. At(<< >>) = Way(<< >>)[Len(<< >>)] /\ Way(<< >>)[0] = Root
  BY <1>1, AtFact, Zenon
<1> QED
  BY <1>1, <1>2, Zenon

LEMMA AtAppend ==
  ASSUME NEW p \in Seq(Nat), NEW i \in Nat
  PROVE  At(Append(p, i)) = Refs[At(p)][i]
<1> DEFINE q == Append(p, i)
           f == Way(p)
           g == Way(q)
           T == {n \in 0..Len(p) : f[n] # g[n]}
<1>1. /\ q \in Seq(Nat) /\ Len(p) \in Nat /\ Len(q) = Len(p) + 1
      /\ q[Len(p) + 1] = i /\ \A n \in 1..Len(p) : q[n] = p[n]
  OBVIOUS
<1>2. /\ At(p) = f[Len(p)] /\ f[0] = Root
      /\ \A n \in 1..Len(p) : f[n] = Refs[f[n - 1]][p[n]]
  BY AtFact
<1>3. /\ At(q) = g[Len(q)] /\ g[0] = Root
      /\ \A n \in 1..Len(q) : g[n] = Refs[g[n - 1]][q[n]]
  BY <1>1, AtFact
<1> HIDE DEF f, g, q
<1>4. T = {}
  <2>1. SUFFICES ASSUME T # {} PROVE FALSE
    OBVIOUS
  <2>2. T \subseteq Nat
    BY <1>1
  <2>3. PICK n \in T : \A k \in T : n <= k
    <3> HIDE DEF T
    <3> QED
      BY <2>1, <2>2, LeastNat
  <2>4. n \in 1..Len(p) /\ n \in 1..Len(q)
    BY <1>1, <1>2, <1>3, <2>3
  <2>5. n - 1 \in 0..Len(p) /\ n - 1 \notin T
    BY <1>1, <2>3, <2>4
  <2> QED
    BY <1>1, <1>2, <1>3, <2>3, <2>4, <2>5
<1>5. f[Len(p)] = g[Len(p)]
  BY <1>1, <1>4
<1>6. Len(p) + 1 \in 1..Len(q) /\ (Len(p) + 1) - 1 = Len(p)
  BY <1>1
<1>7. g[Len(p) + 1] = Refs[g[Len(p)]][i]
  BY <1>1, <1>3, <1>6
<1> QED
  BY <1>1, <1>2, <1>3, <1>5, <1>7 DEF q

LEMMA NamedRefsFact ==
  ASSUME NEW o \in Objs, NEW i \in NamedRefs(o)
  PROVE  i \in Nat /\ i # 0 /\ Refs[o][i] \in Objs
<1>1. Refs[o] \in Seq(Objs \cup {Nameless})
  BY ResourceTreeAssumption
<1>2. i \in 1..Len(Refs[o]) /\ Refs[o][i] # Nameless
  BY <1>1 DEF NamedRefs
<1> QED
  BY <1>1, <1>2

(* PathsOf is what its recursion says. *)
PathsTo(m, f) ==
  f = [n \in 0..m |-> IF n = 0 THEN {<< >>}
                      ELSE UNION {{Append(p, i) : i \in NamedRefs(At(p))} : p \in f[n - 1]}]

LEMMA PathsToExists ==
  ASSUME NEW m \in Nat
  PROVE  \E f : PathsTo(m, f)
<1> DEFINE T == {n \in Nat : ~\E f : PathsTo(n, f)}
           Step(S) == UNION {{Append(p, i) : i \in NamedRefs(At(p))} : p \in S}
<1>1. SUFFICES ASSUME T # {} PROVE FALSE
  OBVIOUS
<1>2. PICK n \in T : \A k \in T : n <= k
  BY <1>1, LeastNat
<1>3. n # 0
  <2>1. PathsTo(0, [k \in 0..0 |-> {<< >>}])
    BY DEF PathsTo
  <2> QED
    BY <2>1
<1>4. n - 1 \in Nat /\ n - 1 \notin T
  BY <1>2, <1>3
<1>5. PICK f : PathsTo(n - 1, f)
  BY <1>4
<1>0. f = [k \in 0..(n - 1) |-> IF k = 0 THEN {<< >>} ELSE Step(f[k - 1])]
  BY <1>5, Zenon DEF PathsTo
<1> DEFINE g == [k \in 0..n |-> IF k = n THEN Step(f[n - 1]) ELSE f[k]]
<1> HIDE DEF Step
<1>6. ASSUME NEW k \in 0..n
      PROVE  g[k] = IF k = 0 THEN {<< >>} ELSE Step(g[k - 1])
  <2>1. CASE k = n
    BY <1>3, <2>1
  <2>2. CASE k # n
    <3>1. k \in 0..(n - 1) /\ g[k] = f[k]
      BY <2>2
    <3>2. f[k] = IF k = 0 THEN {<< >>} ELSE Step(f[k - 1])
      BY <1>0, <3>1
    <3>3. k # 0 => g[k - 1] = f[k - 1]
      BY <3>1
    <3> QED
      BY <3>1, <3>2, <3>3
  <2> QED
    BY <2>1, <2>2
<1>7. g = [k \in 0..n |-> IF k = 0 THEN {<< >>} ELSE Step(g[k - 1])]
  BY <1>6
<1>8. PathsTo(n, g)
  <2> HIDE DEF g
  <2> QED
    BY <1>7, Zenon DEF PathsTo, Step
<1> QED
  BY <1>8

LEMMA PathsOfFact ==
  /\ PathsOf[0] = {<< >>}
  /\ \A n \in 1..(Depth + 1) :
       PathsOf[n] = UNION {{Append(p, i) : i \in NamedRefs(At(p))} : p \in PathsOf[n - 1]}
<1>0. Depth + 1 \in Nat
  BY ResourceTreeAssumption
<1>1. \E f : PathsTo(Depth + 1, f)
  BY <1>0, PathsToExists
<1>2. PathsOf = CHOOSE f : PathsTo(Depth + 1, f)
  BY Zenon DEF PathsOf, PathsTo
<1>3. PathsTo(Depth + 1, PathsOf)
  BY <1>1, <1>2, Zenon
<1> DEFINE Step(S) == UNION {{Append(p, i) : i \in NamedRefs(At(p))} : p \in S}
<1>4. PathsOf = [n \in 0..(Depth + 1) |-> IF n = 0 THEN {<< >>} ELSE Step(PathsOf[n - 1])]
  BY <1>3, Zenon DEF PathsTo
<1> HIDE DEF Step
<1>5. PathsOf[0] = {<< >>}
  <2>1. 0 \in 0..(Depth + 1)
    BY <1>0
  <2> QED
    BY <1>4, <2>1
<1>6. \A n \in 1..(Depth + 1) : PathsOf[n] = Step(PathsOf[n - 1])
  <2>1. ASSUME NEW n \in 1..(Depth + 1) PROVE n \in 0..(Depth + 1) /\ n # 0
    BY <1>0
  <2> QED
    BY <1>4, <2>1
<1> QED
  BY <1>5, <1>6 DEF Step

(* Paths are sequences of indexes, of their length, and lead to objects.   *)
LEMMA PathsOfType ==
  ASSUME NEW n \in 0..(Depth + 1), NEW p \in PathsOf[n]
  PROVE  p \in Seq(Nat) /\ Len(p) = n /\ At(p) \in Objs
<1> DEFINE OK(q, k) == q \in Seq(Nat) /\ Len(q) = k /\ At(q) \in Objs
           T == {k \in 0..(Depth + 1) : ~\A q \in PathsOf[k] : OK(q, k)}
<1>0. Depth \in Nat
  BY ResourceTreeAssumption
<1>1. SUFFICES ASSUME T # {} PROVE FALSE
  OBVIOUS
<1>2. T \subseteq Nat
  BY <1>0
<1>3. PICK m \in T : \A k \in T : m <= k
  <2> HIDE DEF T
  <2> QED
    BY <1>1, <1>2, LeastNat
<1>4. PICK q \in PathsOf[m] : ~OK(q, m)
  BY <1>3
<1>5. m # 0
  <2>1. SUFFICES ASSUME m = 0 PROVE FALSE
    OBVIOUS
  <2>2. q = << >>
    BY <1>4, <2>1, PathsOfFact
  <2>3. << >> \in Seq(Nat) /\ Len(<< >>) = 0 /\ Root \in Objs
    BY ResourceTreeAssumption
  <2> QED
    BY <1>4, <2>1, <2>2, <2>3, AtRoot
<1>6. m \in 1..(Depth + 1) /\ m - 1 \in 0..(Depth + 1) /\ m - 1 \notin T
  BY <1>0, <1>3, <1>5
<1>7. PICK p0 \in PathsOf[m - 1] : \E i \in NamedRefs(At(p0)) : q = Append(p0, i)
  BY <1>4, <1>6, PathsOfFact
<1>12. PICK i \in NamedRefs(At(p0)) : q = Append(p0, i)
  BY <1>7
<1>8. OK(p0, m - 1)
  BY <1>6
<1>9. i \in Nat /\ Refs[At(p0)][i] \in Objs
  BY <1>12, <1>8, NamedRefsFact
<1>10. At(q) \in Objs
  BY <1>12, <1>8, <1>9, AtAppend
<1>11. q \in Seq(Nat) /\ Len(q) = m
  BY <1>3, <1>12, <1>8, <1>9
<1> QED
  BY <1>4, <1>10, <1>11

LEMMA PathType ==
  ASSUME NEW p \in Paths
  PROVE  p \in Seq(Nat) /\ Len(p) \in 0..Depth /\ p \in PathsOf[Len(p)] /\ At(p) \in Objs
<1>1. PICK n \in 0..Depth : p \in PathsOf[n]
  BY DEF Paths
<1>2. n \in 0..(Depth + 1)
  BY ResourceTreeAssumption
<1> QED
  BY <1>1, <1>2, PathsOfType

LEMMA RootIsPath == << >> \in Paths /\ Node(<< >>) = [parent |-> NoParent, at |-> << >>]
<1>1. 0 \in 0..Depth /\ << >> \in PathsOf[0]
  BY PathsOfFact, ResourceTreeAssumption
<1> QED
  BY <1>1 DEF Paths, Node

(* What p refers to is one longer than p, which is its parent. *)
LEMMA BelowFact ==
  ASSUME NEW p \in Paths, NEW q \in Below(p)
  PROVE  /\ q \in Paths /\ q # << >> /\ Parent(q) = p
         /\ Len(q) = Len(p) + 1 /\ \A k \in 1..Len(p) : q[k] = p[k]
         /\ q = Append(p, q[Len(q)])
         /\ Node(q) = [parent |-> At(p), at |-> q]
<1>0. /\ p \in Seq(Nat) /\ Len(p) \in 0..Depth /\ p \in PathsOf[Len(p)] /\ At(p) \in Objs
      /\ Depth \in Nat
  BY PathType, ResourceTreeAssumption
<1>1. PICK i \in NamedRefs(At(p)) : q = Append(p, i)
  BY DEF Below
<1>2. i \in Nat
  BY <1>0, NamedRefsFact
<1>3. /\ q \in Seq(Nat) /\ Len(q) = Len(p) + 1 /\ q[Len(p) + 1] = i
      /\ \A k \in 1..Len(p) : q[k] = p[k] /\ q # << >>
  BY <1>0, <1>1, <1>2
<1>4. q # << >>
  BY <1>0, <1>3
<1>5. Parent(q) = p
  BY <1>0, <1>1, <1>2, <1>3 DEF Parent, Front
<1>6. q \in PathsOf[Len(p) + 1]
  <2>1. Len(p) + 1 \in 1..(Depth + 1) /\ (Len(p) + 1) - 1 = Len(p)
    BY <1>0
  <2>2. PathsOf[Len(p) + 1] = UNION {{Append(r, j) : j \in NamedRefs(At(r))} : r \in PathsOf[Len(p)]}
    BY <2>1, PathsOfFact
  <2> QED
    BY <1>0, <1>1, <2>2
<1>7. Len(p) + 1 \in 0..Depth
  <2>1. PathsOf[Depth + 1] = {}
    BY ResourceTreeAssumption
  <2>2. Len(p) # Depth
    BY <1>6, <2>1
  <2> QED
    BY <1>0, <2>2
<1>8. q \in Paths
  BY <1>6, <1>7 DEF Paths
<1>9. Node(q) = [parent |-> At(p), at |-> q]
  BY <1>4, <1>5 DEF Node
<1> QED
  BY <1>1, <1>3, <1>4, <1>5, <1>8, <1>9

LEMMA ParentFact ==
  ASSUME NEW q \in Paths, q # << >>
  PROVE  Parent(q) \in Paths /\ q \in Below(Parent(q))
<1>0. q \in Seq(Nat) /\ Len(q) \in 0..Depth /\ q \in PathsOf[Len(q)] /\ Depth \in Nat
  BY PathType, ResourceTreeAssumption
<1>1. Len(q) \in 1..(Depth + 1) /\ Len(q) - 1 \in 0..Depth
  BY <1>0
<1>2. PICK p \in PathsOf[Len(q) - 1] : \E i \in NamedRefs(At(p)) : q = Append(p, i)
  BY <1>0, <1>1, PathsOfFact
<1>3. p \in Paths
  BY <1>1, <1>2 DEF Paths
<1>4. q \in Below(p)
  BY <1>2 DEF Below
<1> QED
  BY <1>3, <1>4, BelowFact

LEMMA NodeType ==
  ASSUME NEW p \in Paths
  PROVE  Node(p) \in TreeNode /\ Node(p).at = p
<1>1. p # << >> => At(Parent(p)) \in Objs
  BY ParentFact, PathType
<1> QED
  BY <1>1 DEF Node, TreeNode

-----------------------------------------------------------------------------
(* What is below what                                                      *)

LEMMA UnderSelf ==
  ASSUME NEW p \in Paths
  PROVE  p \in Under(p)
BY PathType DEF Under

LEMMA UnderRoot == Under(<< >>) = Paths
<1>1. Len(<< >>) = 0
  OBVIOUS
<1>2. \A q \in Paths : Len(q) \in Nat
  BY PathType, ResourceTreeAssumption
<1> QED
  BY <1>1, <1>2 DEF Under

LEMMA UnderBelow ==
  ASSUME NEW p \in Paths, NEW c \in Below(p)
  PROVE  /\ Under(c) \subseteq Under(p) /\ p \notin Under(c) /\ c \in Under(p)
<1>1. /\ c \in Paths /\ Len(c) = Len(p) + 1 /\ \A k \in 1..Len(p) : c[k] = p[k]
      /\ Len(p) \in Nat
  BY BelowFact, PathType, ResourceTreeAssumption
<1>2. ASSUME NEW q \in Under(c) PROVE q \in Under(p)
  <2>1. q \in Paths /\ Len(c) <= Len(q) /\ \A k \in 1..Len(c) : q[k] = c[k]
    BY <1>2 DEF Under
  <2>2. Len(q) \in Nat
    BY <2>1, PathType, ResourceTreeAssumption
  <2>3. \A k \in 1..Len(p) : k \in 1..Len(c)
    BY <1>1
  <2> QED
    BY <1>1, <2>1, <2>2, <2>3 DEF Under
<1>3. p \notin Under(c)
  BY <1>1 DEF Under
<1> QED
  BY <1>1, <1>2, <1>3, UnderSelf

LEMMA UnderParent ==
  ASSUME NEW p \in Paths, NEW q \in Under(p), q # p
  PROVE  q \in Paths /\ q # << >> /\ Parent(q) \in Under(p)
<1>1. /\ q \in Paths /\ Len(p) <= Len(q) /\ \A k \in 1..Len(p) : q[k] = p[k]
  BY DEF Under
<1>2. /\ p \in Seq(Nat) /\ q \in Seq(Nat) /\ Len(p) \in Nat /\ Len(q) \in Nat
  BY <1>1, PathType
<1>3. Len(q) # Len(p)
  BY <1>1, <1>2
<1>4. q # << >>
  BY <1>1, <1>2, <1>3
<1>5. /\ Parent(q) \in Paths /\ Len(q) = Len(Parent(q)) + 1
      /\ \A k \in 1..Len(Parent(q)) : q[k] = Parent(q)[k]
      /\ Len(Parent(q)) \in Nat
  BY <1>1, <1>4, ParentFact, BelowFact, PathType
<1>6. Len(p) <= Len(Parent(q)) /\ \A k \in 1..Len(p) : k \in 1..Len(Parent(q))
  BY <1>1, <1>2, <1>3, <1>5
<1> QED
  BY <1>1, <1>4, <1>5, <1>6 DEF Under

(* Resources in two subtrees side by side. *)
LEMMA SideBySide ==
  ASSUME NEW p \in Paths, NEW c \in Below(p), NEW d \in Below(p), c # d,
         NEW x \in Under(c), NEW y \in Under(d)
  PROVE  /\ x # y
         /\ Rank[At(c)] <= Rank[At(d)] => Follows(y, x)
<1> DEFINE i == Len(p) + 1
<1>1. /\ p \in Seq(Nat) /\ c \in Seq(Nat) /\ d \in Seq(Nat) /\ x \in Seq(Nat) /\ y \in Seq(Nat)
  <2>1. c \in Paths /\ d \in Paths /\ x \in Paths /\ y \in Paths
    BY BelowFact DEF Under
  <2> QED
    BY <2>1, PathType
<1>2. /\ i \in Nat /\ i \in 1..i /\ Len(p) \in Nat
  BY <1>1
<1>3. /\ Len(c) = i /\ Len(d) = i /\ Len(p) = i - 1
      /\ \A k \in 1..(i - 1) : c[k] = p[k] /\ d[k] = p[k]
      /\ c = Append(p, c[i]) /\ d = Append(p, d[i])
  <2>1. /\ Len(c) = Len(p) + 1 /\ Len(d) = Len(p) + 1
        /\ \A k \in 1..Len(p) : c[k] = p[k]
        /\ \A k \in 1..Len(p) : d[k] = p[k]
        /\ c = Append(p, c[Len(c)]) /\ d = Append(p, d[Len(d)])
    BY BelowFact, Zenon
  <2>2. Len(p) = i - 1
    BY <1>2
  <2> QED
    BY <2>1, <2>2
<1>4. c[i] # d[i]
  BY <1>3
<1>5. /\ i <= Len(x) /\ \A k \in 1..i : x[k] = c[k]
      /\ i <= Len(y) /\ \A k \in 1..i : y[k] = d[k]
      /\ Len(x) \in Nat /\ Len(y) \in Nat
  BY <1>1, <1>3 DEF Under
<1> HIDE DEF i
<1>6. x[i] # y[i] /\ \A k \in 1..(i - 1) : x[k] = y[k]
  BY <1>2, <1>3, <1>4, <1>5
<1>7. i \in DOMAIN x \cap DOMAIN y
  BY <1>1, <1>2, <1>5
<1>8. SubSeq(x, 1, i) = c /\ SubSeq(y, 1, i) = d
  <2>1. /\ SubSeq(x, 1, i) \in Seq(Nat) /\ Len(SubSeq(x, 1, i)) = i
        /\ \A k \in 1..i : SubSeq(x, 1, i)[k] = x[k]
    BY <1>1, <1>2, <1>5
  <2>2. /\ SubSeq(y, 1, i) \in Seq(Nat) /\ Len(SubSeq(y, 1, i)) = i
        /\ \A k \in 1..i : SubSeq(y, 1, i)[k] = y[k]
    BY <1>1, <1>2, <1>5
  <2> DEFINE s == SubSeq(x, 1, i)
             t == SubSeq(y, 1, i)
  <2>3. \A k \in 1..i : s[k] = c[k] /\ t[k] = d[k]
    BY <1>5, <2>1, <2>2
  <2>4. s \in Seq(Nat) /\ t \in Seq(Nat) /\ Len(s) = i /\ Len(t) = i
    BY <2>1, <2>2
  <2> HIDE DEF s, t
  <2>5. s = c
    BY <1>1, <1>2, <1>3, <2>3, <2>4
  <2>6. t = d
    BY <1>1, <1>2, <1>3, <2>3, <2>4
  <2> QED
    BY <2>5, <2>6 DEF s, t
<1>9. Rank[At(c)] <= Rank[At(d)] => Follows(y, x)
  BY <1>6, <1>7, <1>8 DEF Follows
<1> QED
  BY <1>6, <1>9

LEMMA BelowFollows ==
  ASSUME NEW p \in Paths, NEW q \in Under(p), q # p
  PROVE  Follows(q, p)
<1>1. /\ q \in Seq(Nat) /\ p \in Seq(Nat) /\ Len(p) <= Len(q)
      /\ \A k \in 1..Len(p) : q[k] = p[k]
  BY PathType DEF Under
<1>2. Len(p) \in Nat /\ Len(q) \in Nat
  BY <1>1
<1>3. SubSeq(p, 1, Len(p)) = SubSeq(q, 1, Len(p))
  BY <1>1, <1>2
<1> QED
  BY <1>1, <1>3 DEF Follows, IsStrictPrefix, IsPrefix

LEMMA FollowsIsStrict ==
  ASSUME NEW p, NEW q, Follows(q, p)
  PROVE  q # p
BY DEF Follows, IsStrictPrefix

-----------------------------------------------------------------------------
(* Lists of nodes                                                          *)

LEMMA ConcatIndex ==
  ASSUME NEW l \in Seq(TreeNode), NEW r \in Seq(TreeNode)
  PROVE  /\ l \o r \in Seq(TreeNode)
         /\ Len(l) \in Nat /\ Len(r) \in Nat /\ Len(l \o r) = Len(l) + Len(r)
         /\ \A n \in 1..Len(l) : (l \o r)[n] = l[n]
         /\ \A n \in (Len(l) + 1)..(Len(l) + Len(r)) : (l \o r)[n] = r[n - Len(l)]
OBVIOUS

(* Two lists one after the other. *)
LEMMA ConcatFact ==
  ASSUME NEW l \in Seq(TreeNode), NEW r \in Seq(TreeNode), NEW T,
         InOrder(l), InOrder(r), Backed(l, T), Backed(r, T),
         \A x \in Places(l), y \in Places(r) : Follows(y, x)
  PROVE  /\ l \o r \in Seq(TreeNode)
         /\ Places(l \o r) = Places(l) \cup Places(r)
         /\ InOrder(l \o r) /\ Backed(l \o r, T)
<1> DEFINE s == l \o r
<1>1. /\ s \in Seq(TreeNode)
      /\ Len(l) \in Nat /\ Len(r) \in Nat /\ Len(s) = Len(l) + Len(r)
      /\ \A n \in 1..Len(l) : s[n] = l[n]
      /\ \A n \in (Len(l) + 1)..(Len(l) + Len(r)) : s[n] = r[n - Len(l)]
  BY ConcatIndex
<1> HIDE DEF s
<1>2. /\ DOMAIN l = 1..Len(l) /\ DOMAIN r = 1..Len(r) /\ DOMAIN s = 1..Len(s)
  BY <1>1
<1>3. ASSUME NEW n \in DOMAIN s
      PROVE  \/ n \in DOMAIN l /\ s[n] = l[n]
             \/ n > Len(l) /\ n - Len(l) \in DOMAIN r /\ s[n] = r[n - Len(l)]
  BY <1>1, <1>2
<1>4. Places(s) = Places(l) \cup Places(r)
  <2>1. Places(s) \subseteq Places(l) \cup Places(r)
    BY <1>3 DEF Places
  <2>2. ASSUME NEW n \in DOMAIN l PROVE n \in DOMAIN s /\ s[n] = l[n]
    BY <1>1, <1>2
  <2>3. ASSUME NEW n \in DOMAIN r PROVE n + Len(l) \in DOMAIN s /\ s[n + Len(l)] = r[n]
    BY <1>1, <1>2
  <2>4. Places(l) \subseteq Places(s)
    BY <2>2 DEF Places
  <2>5. ASSUME NEW n \in DOMAIN r PROVE r[n].at \in Places(s)
    <3>1. s[n + Len(l)].at = r[n].at
      BY <2>3
    <3> QED
      BY <2>3, <3>1 DEF Places
  <2>6. Places(r) \subseteq Places(s)
    BY <2>5 DEF Places
  <2> QED
    BY <2>1, <2>4, <2>6
<1>5. InOrder(s)
  <2> SUFFICES ASSUME NEW m \in DOMAIN s, NEW n \in DOMAIN s, m < n
               PROVE  Follows(s[n].at, s[m].at)
    BY DEF InOrder
  <2>1. CASE n \in DOMAIN l /\ s[n] = l[n]
    <3>1. m \in DOMAIN l /\ s[m] = l[m]
      BY <1>1, <1>2, <2>1
    <3> QED
      BY <2>1, <3>1 DEF InOrder
  <2>2. CASE n > Len(l) /\ n - Len(l) \in DOMAIN r /\ s[n] = r[n - Len(l)]
    <3>1. CASE m \in DOMAIN l /\ s[m] = l[m]
      BY <2>2, <3>1 DEF Places
    <3>2. CASE m > Len(l) /\ m - Len(l) \in DOMAIN r /\ s[m] = r[m - Len(l)]
      <4>1. m - Len(l) < n - Len(l)
        BY <1>1, <1>2
      <4> QED
        BY <2>2, <3>2, <4>1 DEF InOrder
    <3> QED
      BY <1>3, <3>1, <3>2
  <2> QED
    BY <1>3, <2>1, <2>2
<1>6. Backed(s, T)
  <2> SUFFICES ASSUME NEW n \in DOMAIN s, s[n] \notin T
               PROVE  HasParent(s, n)
    BY DEF Backed
  <2>1. CASE n \in DOMAIN l /\ s[n] = l[n]
    <3>1. PICK m \in 1..(n - 1) : At(l[m].at) = l[n].parent /\ l[n].at \in Below(l[m].at)
      BY <2>1 DEF Backed, HasParent
    <3>2. s[m] = l[m]
      BY <1>1, <1>2, <2>1
    <3> QED
      BY <2>1, <3>1, <3>2 DEF HasParent
  <2>2. CASE n > Len(l) /\ n - Len(l) \in DOMAIN r /\ s[n] = r[n - Len(l)]
    <3> DEFINE k == n - Len(l)
    <3>1. PICK m \in 1..(k - 1) : At(r[m].at) = r[k].parent /\ r[k].at \in Below(r[m].at)
      BY <2>2 DEF Backed, HasParent
    <3>2. m + Len(l) \in 1..(n - 1) /\ s[m + Len(l)] = r[m]
      BY <1>1, <1>2, <2>2
    <3> QED
      BY <2>2, <3>1, <3>2 DEF HasParent
  <2> QED
    BY <1>3, <2>1, <2>2
<1> QED
  BY <1>1, <1>4, <1>5, <1>6 DEF s

(* f holds the first sequences of ss put together. *)
JoinedTo(ss, m, f) ==
  f = [i \in 1..m |-> IF i = 1 THEN ss[i] ELSE f[i - 1] \o ss[i]]

LEMMA JoinedExists ==
  ASSUME NEW ss, NEW m \in Nat
  PROVE  \E f : JoinedTo(ss, m, f)
<1> DEFINE T == {n \in Nat : ~\E f : JoinedTo(ss, n, f)}
<1>1. SUFFICES ASSUME T # {} PROVE FALSE
  OBVIOUS
<1>2. PICK n \in T : \A k \in T : n <= k
  BY <1>1, LeastNat
<1>3. n # 0
  <2>1. JoinedTo(ss, 0, [k \in 1..0 |-> ss])
    BY DEF JoinedTo
  <2> QED
    BY <2>1
<1>4. n - 1 \in Nat /\ n - 1 \notin T
  BY <1>2, <1>3
<1>5. PICK f : JoinedTo(ss, n - 1, f)
  BY <1>4
<1> DEFINE g == [k \in 1..n |-> IF k = n THEN (IF n = 1 THEN ss[1] ELSE f[n - 1] \o ss[n])
                                ELSE f[k]]
<1>6. ASSUME NEW k \in 1..n
      PROVE  g[k] = IF k = 1 THEN ss[k] ELSE g[k - 1] \o ss[k]
  <2>1. CASE k = n
    BY <1>3, <2>1
  <2>2. CASE k # n
    <3>1. k \in 1..(n - 1) /\ g[k] = f[k]
      BY <2>2
    <3>2. f[k] = IF k = 1 THEN ss[k] ELSE f[k - 1] \o ss[k]
      BY <1>5, <3>1 DEF JoinedTo
    <3>3. k # 1 => g[k - 1] = f[k - 1]
      BY <3>1
    <3> QED
      BY <3>1, <3>2, <3>3
  <2> QED
    BY <2>1, <2>2
<1>7. g = [k \in 1..n |-> IF k = 1 THEN ss[k] ELSE g[k - 1] \o ss[k]]
  BY <1>6
<1> QED
  BY <1>7 DEF JoinedTo

(* FlattenSeq puts lists together that follow each other. *)
LEMMA FlattenFact ==
  ASSUME NEW ss \in Seq(Seq(TreeNode)), NEW T,
         \A k \in 1..Len(ss) : InOrder(ss[k]) /\ Backed(ss[k], T),
         \A j, k \in 1..Len(ss) :
           j < k => \A x \in Places(ss[j]), y \in Places(ss[k]) : Follows(y, x)
  PROVE  /\ FlattenSeq(ss) \in Seq(TreeNode)
         /\ Places(FlattenSeq(ss)) = UNION {Places(ss[k]) : k \in 1..Len(ss)}
         /\ InOrder(FlattenSeq(ss)) /\ Backed(FlattenSeq(ss), T)
<1> DEFINE OK(s, k) == /\ s \in Seq(TreeNode)
                       /\ Places(s) = UNION {Places(ss[j]) : j \in 1..k}
                       /\ InOrder(s) /\ Backed(s, T)
<1>0. Len(ss) \in Nat /\ \A k \in 1..Len(ss) : ss[k] \in Seq(TreeNode)
  OBVIOUS
<1>1. CASE Len(ss) = 0
  <2>1. ss = << >> /\ FlattenSeq(ss) = ss
    BY <1>1 DEF FlattenSeq
  <2>2. OK(<< >>, 0)
    BY DEF Places, InOrder, Backed
  <2> QED
    BY <1>1, <2>1, <2>2
<1>2. CASE Len(ss) # 0
  <2> DEFINE f == CHOOSE g : JoinedTo(ss, Len(ss), g)
             U == {k \in 1..Len(ss) : ~OK(f[k], k)}
  <2>1. FlattenSeq(ss) = f[Len(ss)]
    BY <1>2, Zenon DEF FlattenSeq, JoinedTo
  <2>2. JoinedTo(ss, Len(ss), f)
    <3>1. \E g : JoinedTo(ss, Len(ss), g)
      BY <1>0, JoinedExists
    <3> QED
      BY <3>1, Zenon
  <2> HIDE DEF f
  <2>3. ASSUME NEW k \in 1..Len(ss)
        PROVE  f[k] = IF k = 1 THEN ss[k] ELSE f[k - 1] \o ss[k]
    BY <2>2 DEF JoinedTo
  <2>4. U = {}
    <3>1. SUFFICES ASSUME U # {} PROVE FALSE
      OBVIOUS
    <3>2. U \subseteq Nat
      BY <1>0
    <3>3. PICK n \in U : \A k \in U : n <= k
      <4> HIDE DEF U
      <4> QED
        BY <3>1, <3>2, LeastNat
    <3>4. n \in 1..Len(ss) /\ n \in Nat /\ ~OK(f[n], n)
      BY <1>0, <3>3
    <3>5. CASE n = 1
      <4>1. f[1] = ss[1] /\ UNION {Places(ss[j]) : j \in 1..1} = Places(ss[1])
        BY <2>3, <3>4, <3>5
      <4> QED
        BY <1>0, <3>4, <3>5, <4>1
    <3>6. CASE n # 1
      <4>1. n - 1 \in 1..Len(ss) /\ n - 1 \notin U
        <5>1. n - 1 \in 1..Len(ss) /\ ~(n <= n - 1)
          BY <1>0, <3>4, <3>6
        <5> HIDE DEF U
        <5> QED
          BY <3>3, <5>1
      <4>2. OK(f[n - 1], n - 1)
        BY <4>1
      <4>3. f[n] = f[n - 1] \o ss[n]
        BY <2>3, <3>4, <3>6
      <4> DEFINE l == f[n - 1]
      <4>4. \A x \in Places(l), y \in Places(ss[n]) : Follows(y, x)
        <5> SUFFICES ASSUME NEW x \in Places(l), NEW y \in Places(ss[n])
                     PROVE  Follows(y, x)
          OBVIOUS
        <5>1. PICK j \in 1..(n - 1) : x \in Places(ss[j])
          BY <4>2
        <5>2. j \in 1..Len(ss) /\ j < n
          BY <1>0, <3>4, <5>1
        <5> QED
          BY <3>4, <5>1, <5>2
      <4>5. /\ l \in Seq(TreeNode) /\ ss[n] \in Seq(TreeNode) /\ InOrder(l) /\ Backed(l, T)
            /\ InOrder(ss[n]) /\ Backed(ss[n], T)
        BY <1>0, <3>4, <4>2
      <4>6. UNION {Places(ss[j]) : j \in 1..n}
              = (UNION {Places(ss[j]) : j \in 1..(n - 1)}) \cup Places(ss[n])
        <5>1. 1..n = 1..(n - 1) \cup {n}
          BY <3>4
        <5>2. \A x : (\E j \in 1..n : x \in Places(ss[j]))
                       <=> (\E j \in 1..(n - 1) : x \in Places(ss[j])) \/ x \in Places(ss[n])
          <6> HIDE DEF U, OK, l
          <6> QED
            BY <5>1, Zenon
        <5> DEFINE A == UNION {Places(ss[j]) : j \in 1..n}
                   B == UNION {Places(ss[j]) : j \in 1..(n - 1)}
        <5>3. \A x : x \in A <=> \E j \in 1..n : x \in Places(ss[j])
          <6> HIDE DEF U, OK, l
          <6> QED
            BY Zenon
        <5>4. \A x : x \in B <=> \E j \in 1..(n - 1) : x \in Places(ss[j])
          <6> HIDE DEF U, OK, l
          <6> QED
            BY Zenon
        <5>5. A = B \cup Places(ss[n])
          <6> HIDE DEF U, OK, l, A, B
          <6> QED
            BY <5>2, <5>3, <5>4
        <5> QED
          BY <5>5, Zenon
      <4>7. /\ l \o ss[n] \in Seq(TreeNode)
            /\ Places(l \o ss[n]) = Places(l) \cup Places(ss[n])
            /\ InOrder(l \o ss[n]) /\ Backed(l \o ss[n], T)
        <5> HIDE DEF l
        <5> QED
          BY <4>4, <4>5, ConcatFact, Zenon
      <4>8. Places(l) = UNION {Places(ss[j]) : j \in 1..(n - 1)}
        BY <4>2
      <4> QED
        BY <3>4, <4>3, <4>6, <4>7, <4>8
    <3> QED
      BY <3>5, <3>6
  <2>5. Len(ss) \in 1..Len(ss)
    BY <1>0, <1>2
  <2>6. OK(f[Len(ss)], Len(ss))
    BY <2>4, <2>5
  <2> QED
    BY <2>1, <2>6
<1> QED
  BY <1>1, <1>2

(* The node of p and the trees below it are the tree at p. *)
LEMMA TreeFact ==
  ASSUME NEW p \in Paths, NEW F \in SUBSET Paths, p \in F,
         NEW ns \in Seq(Below(p)), ToSet(ns) = Below(p) \cap F,
         \A m, n \in DOMAIN ns : m # n => ns[m] # ns[n],
         \A m, n \in DOMAIN ns : m < n => Rank[At(ns[m])] <= Rank[At(ns[n])],
         NEW ss \in Seq(Seq(TreeNode)), Len(ss) = Len(ns),
         \A k \in DOMAIN ns : IsTree(ns[k], F, ss[k]),
         \A q \in F : q \in Under(p) /\ q # p => \E c \in Below(p) \cap F : q \in Under(c)
  PROVE  IsTree(p, F, <<Node(p)>> \o FlattenSeq(ss))
<1> DEFINE fl == FlattenSeq(ss)
           hd == <<Node(p)>>
           T == {Node(c) : c \in Below(p)} \cup {Node(p)}
           s == hd \o fl
<1>0. Len(ss) \in Nat /\ Len(ns) \in Nat /\ DOMAIN ns = 1..Len(ss)
  OBVIOUS
<1>1. ASSUME NEW k \in 1..Len(ss)
      PROVE  /\ ns[k] \in Below(p) /\ ss[k] \in Seq(TreeNode)
             /\ Places(ss[k]) = Under(ns[k]) \cap F
             /\ InOrder(ss[k]) /\ Backed(ss[k], {Node(ns[k])})
  <2>1. IsTree(ns[k], F, ss[k])
    BY <1>0
  <2>2. ns[k] \in Below(p)
    BY <1>0
  <2> QED
    BY <2>1, <2>2 DEF IsTree
<1>2. ASSUME NEW k \in 1..Len(ss) PROVE Backed(ss[k], T)
  BY <1>1 DEF Backed
<1>3. ASSUME NEW j \in 1..Len(ss), NEW k \in 1..Len(ss), j < k,
             NEW x \in Places(ss[j]), NEW y \in Places(ss[k])
      PROVE  Follows(y, x)
  <2>1. /\ ns[j] \in Below(p) /\ ns[k] \in Below(p) /\ x \in Under(ns[j]) /\ y \in Under(ns[k])
    BY <1>1, <1>3
  <2>2. j # k
    BY <1>3
  <2>3. ns[j] # ns[k] /\ Rank[At(ns[j])] <= Rank[At(ns[k])]
    BY <1>0, <1>3, <2>2
  <2> QED
    BY <2>1, <2>3, SideBySide
<1>4. /\ fl \in Seq(TreeNode)
      /\ Places(fl) = UNION {Places(ss[k]) : k \in 1..Len(ss)}
      /\ InOrder(fl) /\ Backed(fl, T)
  <2>1. /\ \A k \in 1..Len(ss) : InOrder(ss[k]) /\ Backed(ss[k], T)
        /\ \A j, k \in 1..Len(ss) :
             j < k => \A x \in Places(ss[j]), y \in Places(ss[k]) : Follows(y, x)
    <3> HIDE DEF T
    <3> QED
      BY <1>1, <1>2, <1>3
  <2> HIDE DEF T
  <2> QED
    BY <2>1, FlattenFact
<1>5. Places(fl) = (Under(p) \cap F) \ {p}
  <2>1. ASSUME NEW x \in Places(fl) PROVE x \in (Under(p) \cap F) \ {p}
    <3>1. PICK k \in 1..Len(ss) : x \in Places(ss[k])
      BY <1>4
    <3>2. ns[k] \in Below(p) /\ x \in Under(ns[k]) /\ x \in F
      BY <1>1, <3>1
    <3> QED
      BY <3>2, UnderBelow
  <2>2. ASSUME NEW x \in (Under(p) \cap F) \ {p} PROVE x \in Places(fl)
    <3>1. PICK c \in Below(p) \cap F : x \in Under(c)
      BY <2>2
    <3>2. PICK k \in DOMAIN ns : c = ns[k]
      BY <3>1 DEF ToSet
    <3>3. x \in Places(ss[k])
      BY <1>0, <1>1, <3>1, <3>2
    <3> QED
      BY <1>0, <1>4, <3>3
  <2> QED
    BY <2>1, <2>2
<1>6. /\ Node(p) \in TreeNode /\ Node(p).at = p
  BY NodeType
<1>7. /\ hd \in Seq(TreeNode) /\ Places(hd) = {p} /\ InOrder(hd) /\ Backed(hd, T)
  <2>1. Len(hd) = 1 /\ DOMAIN hd = {1} /\ hd[1] = Node(p)
    OBVIOUS
  <2>2. Node(p) \in T
    OBVIOUS
  <2>3. hd \in Seq(TreeNode)
    BY <1>6
  <2> HIDE DEF hd, T
  <2> QED
    BY <1>6, <2>1, <2>2, <2>3 DEF Places, InOrder, Backed
<1>8. \A x \in Places(hd), y \in Places(fl) : Follows(y, x)
  BY <1>5, <1>7, BelowFollows
<1>9. /\ s \in Seq(TreeNode) /\ Places(s) = Places(hd) \cup Places(fl)
      /\ InOrder(s) /\ Backed(s, T)
  <2> HIDE DEF T, hd, fl
  <2> QED
    BY <1>4, <1>7, <1>8, ConcatFact, Zenon
<1>10. s # << >> /\ s[1] = Node(p) /\ Len(s) \in Nat /\ Len(s) > 0
  <2>1. Len(hd) = 1 /\ hd[1] = Node(p)
    OBVIOUS
  <2>2. /\ Len(s) = Len(hd) + Len(fl) /\ Len(fl) \in Nat
        /\ \A n \in 1..Len(hd) : s[n] = hd[n]
    <3> HIDE DEF hd, fl
    <3> QED
      BY <1>4, <1>7, ConcatIndex
  <2> HIDE DEF hd, fl, s
  <2>3. 1 \in 1..Len(hd)
    BY <2>1
  <2>4. s[1] = Node(p) /\ Len(s) \in Nat /\ Len(s) > 0
    BY <2>1, <2>2, <2>3
  <2> QED
    BY <2>4
<1>11. Places(s) = Under(p) \cap F
  <2>1. p \in Under(p)
    BY UnderSelf
  <2> QED
    BY <1>5, <1>7, <1>9, <2>1
<1>12. Backed(s, {Node(p)})
  <2> SUFFICES ASSUME NEW n \in DOMAIN s, s[n] # Node(p) PROVE HasParent(s, n)
    <3> HIDE DEF s
    <3> QED
      BY DEF Backed
  <2>1. n \in 1..Len(s) /\ n # 1
    <3> HIDE DEF s
    <3> QED
      BY <1>9, <1>10
  <2>2. CASE HasParent(s, n)
    BY <2>2
  <2>3. CASE s[n] \in T
    <3>1. PICK c \in Below(p) : s[n] = Node(c)
      BY <2>3
    <3>2. s[n].parent = At(p) /\ s[n].at = c
      BY <3>1, BelowFact
    <3>3. 1 \in 1..(n - 1) /\ s[1].at = p
      BY <1>6, <1>10, <2>1
    <3> HIDE DEF s, T
    <3> QED
      BY <3>1, <3>2, <3>3 DEF HasParent
  <2> HIDE DEF s, T
  <2> QED
    BY <1>9, <2>2, <2>3 DEF Backed
<1> QED
  <2> HIDE DEF hd, fl
  <2> QED
    BY <1>9, <1>10, <1>11, <1>12 DEF IsTree, hd, fl

LEMMA UnderDown ==
  ASSUME NEW p \in Paths, NEW x \in Under(p), NEW q \in Below(x)
  PROVE  q \in Under(p)
<1>1. /\ x \in Paths /\ Len(p) <= Len(x) /\ \A k \in 1..Len(p) : x[k] = p[k]
  BY DEF Under
<1>2. /\ q \in Paths /\ Len(q) = Len(x) + 1 /\ \A k \in 1..Len(x) : q[k] = x[k]
  BY <1>1, BelowFact
<1>3. Len(p) \in Nat /\ Len(x) \in Nat
  BY <1>1, PathType, ResourceTreeAssumption
<1> QED
  BY <1>1, <1>2, <1>3 DEF Under

-----------------------------------------------------------------------------
(* The answer                                                              *)

LEMMA AnswerFact ==
  ASSUME IsTree(<< >>, Found, answer), Settled(<< >>)
  PROVE  Complete /\ DepthFirst
<1>1. /\ answer \in Seq(TreeNode) /\ Places(answer) = Found /\ InOrder(answer)
      /\ Backed(answer, {Node(<< >>)})
  BY UnderRoot DEF IsTree, Found
<1>2. {answer[i].at : i \in DOMAIN answer} = Found
  BY <1>1 DEF Places
<1>3. Len(answer) = Cardinality(Found)
  <2> DEFINE f == [i \in 1..Len(answer) |-> answer[i].at]
  <2>1. Len(answer) \in Nat /\ DOMAIN answer = 1..Len(answer)
    BY <1>1
  <2>2. f \in [1..Len(answer) -> Found] /\ \A q \in Found : \E i \in 1..Len(answer) : f[i] = q
    BY <1>2, <2>1
  <2>3. \A i, j \in 1..Len(answer) : i < j => f[i] # f[j]
    BY <1>1, <2>1, FollowsIsStrict DEF InOrder
  <2>4. \A i, j \in 1..Len(answer) : f[i] = f[j] => i = j
    <3> HIDE DEF f
    <3> QED
      BY <2>1, <2>3
  <2> HIDE DEF f
  <2>5. f \in Bijection(1..Len(answer), Found)
    BY <2>2, <2>4 DEF Bijection, Injection, Surjection, IsInjective
  <2>6. ExistsBijection(1..Len(answer), Found)
    BY <2>5 DEF ExistsBijection
  <2>7. IsFiniteSet(1..Len(answer)) /\ Cardinality(1..Len(answer)) = Len(answer)
    BY <2>1, FS_Interval
  <2> QED
    BY <2>6, <2>7, FS_Bijection
<1>4. \A p \in Found : \A q \in Below(p) : get[q] \in {"found", "missing"}
  BY UnderRoot DEF Settled, Found
<1>5. DepthFirst
  <2>1. \A i, j \in DOMAIN answer : i < j => Follows(answer[j].at, answer[i].at)
    BY <1>1 DEF InOrder
  <2>2. ASSUME NEW i \in DOMAIN answer, answer[i].parent # NoParent PROVE HasParent(answer, i)
    <3>1. Node(<< >>).parent = NoParent
      BY RootIsPath
    <3> QED
      BY <1>1, <2>2, <3>1 DEF Backed
  <2> QED
    BY <2>1, <2>2 DEF DepthFirst, HasParent
<1> QED
  BY <1>2, <1>3, <1>4, <1>5 DEF Complete

LEMMA IInvWholeTree == IInv => WholeTree
<1> SUFFICES ASSUME IInv, field = "returned", answer # << >>
             PROVE  Complete /\ DepthFirst
  BY DEF IInv, AnswerIsList, WholeTree
<1>1. frame[<< >>] = "returned" /\ answer = list[<< >>]
  BY DEF IInv, AnswerIsList
<1>2. IsTree(<< >>, Found, answer) /\ Settled(<< >>)
  BY <1>1, RootIsPath DEF IInv, ReturnedIsWhole
<1> QED
  BY <1>2, AnswerFact

-----------------------------------------------------------------------------
(* Initially, and in every step                                            *)

LEMMA InitIInv == Init => IInv
<1> SUFFICES ASSUME Init PROVE IInv
  OBVIOUS
<1>1. TypeOK
  BY DEF Init, TypeOK
<1>2. << >> \in Paths
  BY RootIsPath
<1>3. ReadsHaveCall /\ CallsHaveReads /\ NodesAreFound
  BY <1>2 DEF Init, ReadsHaveCall, CallsHaveReads, NodesAreFound
<1>4. Lineage /\ FailuresAreErrors
  BY DEF Init, Lineage, FailuresAreErrors, Found
<1>5. ReturnedIsWhole /\ AnswerIsList
  BY DEF Init, ReturnedIsWhole, AnswerIsList
<1> QED
  BY <1>1, <1>3, <1>4, <1>5 DEF IInv

(* A tree stays whole as long as nothing is found, or forgotten, in it.    *)
LEMMA StaysWhole ==
  ASSUME NEW p \in Paths, IsTree(p, Found, list[p]), Settled(p), list'[p] = list[p],
         \A q \in Paths : get[q] \in {"found", "missing"} => get'[q] = get[q],
         \A q \in Under(p) : get'[q] = "found" => get[q] = "found"
  PROVE  IsTree(p, Found', list'[p]) /\ Settled(p)'
<1>1. Under(p) \subseteq Paths
  BY DEF Under
<1>2. Under(p) \cap Found' = Under(p) \cap Found
  BY <1>1 DEF Found
<1>3. IsTree(p, Found', list'[p])
  BY <1>2 DEF IsTree
<1>4. Settled(p)'
  <2> SUFFICES ASSUME NEW q \in Under(p) \cap Found', NEW r \in Below(q)
               PROVE  get'[r] \in {"found", "missing"}
    BY DEF Settled
  <2>1. q \in Under(p) \cap Found /\ q \in Paths
    BY <1>1, <1>2
  <2>2. get[r] \in {"found", "missing"} /\ r \in Paths
    BY <2>1, BelowFact DEF Settled
  <2> QED
    BY <2>2
<1> QED
  BY <1>3, <1>4

(* Reads end without a resource, or the response gets an error. *)
LEMMA ReadsEndStep ==
  ASSUME IInv, UNCHANGED <<frame, nodes, list, field, answer>>,
         errs' \in BOOLEAN, errs => errs',
         get' \in [Paths -> {"none", "reading", "found", "missing", "failed"}],
         \A q \in Paths : \/ get'[q] = get[q]
                          \/ get[q] = "reading" /\ get'[q] \in {"missing", "failed"},
         \A q \in Paths : get'[q] = "failed" => get[q] = "failed" \/ errs'
  PROVE  IInv'
<1> USE DEF IInv
<1>0. << >> \in Paths
  BY RootIsPath
<1>1. TypeOK'
  BY DEF TypeOK
<1>2. \A p \in Paths : \A q \in Below(p) : q \in Paths
  BY BelowFact
<1>3. ReadsHaveCall'
  BY <1>0 DEF ReadsHaveCall
<1>4. CallsHaveReads'
  BY <1>2 DEF CallsHaveReads
<1>5. \A q \in Paths : get'[q] = "found" <=> get[q] = "found"
  OBVIOUS
<1>6. NodesAreFound'
  <2>1. ASSUME NEW p \in Paths
        PROVE  {q \in Below(p) : get'[q] = "found"} = {q \in Below(p) : get[q] = "found"}
    BY <1>2, <1>5
  <2> QED
    BY <2>1 DEF NodesAreFound
<1>7. Found' = Found
  BY <1>5 DEF Found
<1>8. Lineage'
  <2> SUFFICES ASSUME NEW q \in Found, NEW p \in Paths, q \in Under(p), q # p
               PROVE  \E c \in Below(p) : get'[c] = "found" /\ q \in Under(c)
    BY <1>7 DEF Lineage
  <2> QED
    BY <1>2, <1>5 DEF Lineage
<1>9. FailuresAreErrors'
  BY DEF FailuresAreErrors
<1>10. ReturnedIsWhole'
  <2> SUFFICES ASSUME NEW p \in Paths
               PROVE  /\ list'[p] # << >> => frame'[p] = "returned"
                      /\ frame'[p] = "returned" /\ (~errs' \/ list'[p] # << >>) =>
                           IsTree(p, Found', list'[p]) /\ Settled(p)'
    BY DEF ReturnedIsWhole
  <2>1. ASSUME frame[p] = "returned", ~errs \/ list[p] # << >>
        PROVE  IsTree(p, Found', list'[p]) /\ Settled(p)'
    <3>1. IsTree(p, Found, list[p]) /\ Settled(p)
      BY <2>1 DEF ReturnedIsWhole
    <3>2. Under(p) \subseteq Paths
      BY DEF Under
    <3>3. \A q \in Paths : get[q] \in {"found", "missing"} => get'[q] = get[q]
      OBVIOUS
    <3> QED
      BY <1>5, <3>1, <3>2, <3>3, StaysWhole
  <2> QED
    BY <2>1 DEF ReturnedIsWhole
<1>11. AnswerIsList'
  BY <1>0 DEF AnswerIsList
<1> QED
  BY <1>1, <1>3, <1>4, <1>6, <1>8, <1>9, <1>10, <1>11

(* Before the query has read the root there is nothing. *)
LEMMA RootFacts ==
  ASSUME IInv, field = "root", NEW p \in Paths
  PROVE  get[p] = "none" /\ frame[p] = "none" /\ nodes[p] = << >> /\ list[p] = << >> /\ answer = << >>
BY DEF IInv, AnswerIsList, NodesAreFound, ReturnedIsWhole

LEMMA RootFailsStep == IInv /\ RootFails => IInv'
<1> SUFFICES ASSUME IInv, RootFails PROVE IInv'
  OBVIOUS
<1>0. /\ << >> \in Paths
      /\ field = "root" /\ field' = "returned" /\ errs' = TRUE /\ get' = [get EXCEPT ![<< >>] = "failed"]
      /\ UNCHANGED <<frame, nodes, list, answer>>
  BY RootIsPath DEF RootFails
<1>1. \A p \in Paths : get[p] = "none" /\ frame[p] = "none" /\ nodes[p] = << >> /\ list[p] = << >>
  BY <1>0, RootFacts
<1>2. TypeOK /\ answer = << >>
  BY <1>0, RootFacts DEF IInv
<1>3. /\ get'[<< >>] = "failed" /\ \A p \in Paths : p # << >> => get'[p] = "none"
      /\ \A p \in Paths : get'[p] # "found"
  BY <1>0, <1>1, <1>2 DEF TypeOK
<1>4. TypeOK'
  BY <1>0, <1>2 DEF TypeOK
<1>5. ReadsHaveCall' /\ CallsHaveReads' /\ NodesAreFound'
  BY <1>0, <1>1, <1>3 DEF ReadsHaveCall, CallsHaveReads, NodesAreFound
<1>6. Lineage' /\ FailuresAreErrors'
  BY <1>0, <1>3 DEF Lineage, FailuresAreErrors, Found
<1>7. ReturnedIsWhole' /\ AnswerIsList'
  BY <1>0, <1>1, <1>2 DEF ReturnedIsWhole, AnswerIsList
<1> QED
  BY <1>4, <1>5, <1>6, <1>7 DEF IInv

LEMMA RootFoundStep == IInv /\ RootFound => IInv'
<1> SUFFICES ASSUME IInv, RootFound PROVE IInv'
  OBVIOUS
<1> DEFINE g == [get EXCEPT ![<< >>] = "found"]
<1>0. /\ << >> \in Paths
      /\ field = "root" /\ UNCHANGED <<nodes, list, errs, answer>>
      /\ \/ errs /\ field' = "returned" /\ get' = g /\ UNCHANGED frame
         \/ ~errs /\ field' = "descending" /\ Enter({<< >>}, frame, g)
  BY RootIsPath DEF RootFound
<1>1. \A p \in Paths : get[p] = "none" /\ frame[p] = "none" /\ nodes[p] = << >> /\ list[p] = << >>
  BY <1>0, RootFacts
<1>2. TypeOK /\ answer = << >>
  BY <1>0, RootFacts DEF IInv
<1>3. g \in [Paths -> {"none", "reading", "found", "missing", "failed"}]
      /\ \A p \in Paths : g[p] = IF p = << >> THEN "found" ELSE "none"
  BY <1>0, <1>1, <1>2 DEF TypeOK
<1>4. \A p \in Paths : \A q \in Below(p) : q \in Paths /\ q # << >> /\ Parent(q) = p
  BY BelowFact
<1>5. \A q \in Paths : q # << >> => Parent(q) \in Paths /\ q \in Below(Parent(q))
  BY ParentFact
<1>6. \A p \in Paths : << >> \in Under(p) => p = << >>
  <2> SUFFICES ASSUME NEW p \in Paths, << >> \in Under(p) PROVE p = << >>
    OBVIOUS
  <2>1. p \in Seq(Nat) /\ Len(p) <= Len(<< >>)
    BY PathType DEF Under
  <2> QED
    BY <2>1
<1> HIDE DEF g
<1>7. CASE errs /\ field' = "returned" /\ get' = g /\ UNCHANGED frame
  <2>1. TypeOK'
    BY <1>0, <1>2, <1>3, <1>7 DEF TypeOK
  <2>2. ReadsHaveCall' /\ CallsHaveReads' /\ NodesAreFound'
    BY <1>0, <1>1, <1>3, <1>7 DEF ReadsHaveCall, CallsHaveReads, NodesAreFound
  <2>3. Lineage' /\ FailuresAreErrors'
    BY <1>0, <1>3, <1>6, <1>7 DEF Lineage, FailuresAreErrors, Found
  <2>4. ReturnedIsWhole' /\ AnswerIsList'
    BY <1>0, <1>1, <1>2, <1>7 DEF ReturnedIsWhole, AnswerIsList
  <2> QED
    BY <2>1, <2>2, <2>3, <2>4 DEF IInv
<1>8. CASE ~errs /\ field' = "descending" /\ Enter({<< >>}, frame, g)
  <2>1. /\ frame' = [q \in Paths |-> IF q # << >> THEN frame[q]
                                     ELSE IF Kind[At(q)] = "other" THEN "leaf" ELSE "reading"]
        /\ get' = [q \in Paths |-> IF q # << >> /\ Parent(q) = << >> THEN "reading" ELSE g[q]]
    BY <1>8 DEF Enter
  <2>2. /\ \A q \in Paths : q # << >> => frame'[q] = "none"
        /\ frame'[<< >>] \in {"leaf", "reading"}
        /\ frame'[<< >>] = "leaf" => Below(<< >>) = {}
    <3>1. Kind[At(<< >>)] = "other" => Below(<< >>) = {}
      <4>1. At(<< >>) \in Objs
        BY <1>0, PathType
      <4>2. Kind[At(<< >>)] = "other" => Refs[At(<< >>)] = << >>
        BY <4>1, ResourceTreeAssumption
      <4> QED
        BY <4>2 DEF Below, NamedRefs
    <3> QED
      BY <1>0, <1>1, <2>1, <3>1
  <2>3. /\ \A q \in Paths : get'[q] = IF q = << >> THEN "found"
                                      ELSE IF Parent(q) = << >> THEN "reading" ELSE "none"
    BY <1>3, <2>1
  <2>4. TypeOK'
    <3>1. frame' \in [Paths -> {"none", "reading", "leaf", "collecting", "returned"}]
      BY <1>2, <2>1 DEF TypeOK
    <3>2. get' \in [Paths -> {"none", "reading", "found", "missing", "failed"}]
      BY <1>3, <2>1
    <3> QED
      BY <1>0, <1>2, <1>8, <3>1, <3>2 DEF TypeOK
  <2>5. ReadsHaveCall'
    <3>1. ASSUME NEW q \in Paths, q # << >>, get'[q] # "none"
          PROVE  Parent(q) = << >> /\ frame'[Parent(q)] = "reading"
      <4>1. Parent(q) = << >> /\ q \in Below(<< >>)
        BY <1>5, <2>3, <3>1
      <4> QED
        BY <2>2, <4>1
    <3> QED
      BY <1>0, <2>2, <2>3, <3>1 DEF ReadsHaveCall
  <2>6. CallsHaveReads'
    BY <1>4, <2>2, <2>3 DEF CallsHaveReads
  <2>7. NodesAreFound'
    <3>1. \A p \in Paths : nodes'[p] = << >> /\ ToSet(nodes'[p]) = {} /\ DOMAIN nodes'[p] = {}
      BY <1>0, <1>1 DEF ToSet
    <3>2. \A p \in Paths : {q \in Below(p) : get'[q] = "found"} = {}
      BY <1>4, <2>3
    <3> QED
      BY <2>2, <3>1, <3>2 DEF NodesAreFound
  <2>8. Lineage' /\ FailuresAreErrors'
    BY <1>6, <2>3 DEF Lineage, FailuresAreErrors, Found
  <2>9. ReturnedIsWhole' /\ AnswerIsList'
    BY <1>0, <1>1, <1>2, <1>8, <2>2 DEF ReturnedIsWhole, AnswerIsList
  <2> QED
    BY <2>4, <2>5, <2>6, <2>7, <2>8, <2>9 DEF IInv
<1> QED
  BY <1>0, <1>7, <1>8

LEMMA AppendFact ==
  ASSUME NEW S, NEW s \in Seq(S), NEW x \in S, x \notin ToSet(s),
         \A m, n \in DOMAIN s : m # n => s[m] # s[n]
  PROVE  /\ Append(s, x) \in Seq(S) /\ ToSet(Append(s, x)) = ToSet(s) \cup {x}
         /\ \A m, n \in DOMAIN Append(s, x) : m # n => Append(s, x)[m] # Append(s, x)[n]
<1> DEFINE t == Append(s, x)
<1>1. /\ t \in Seq(S) /\ Len(s) \in Nat /\ Len(t) = Len(s) + 1
      /\ t[Len(s) + 1] = x /\ \A n \in 1..Len(s) : t[n] = s[n]
      /\ DOMAIN s = 1..Len(s) /\ DOMAIN t = 1..Len(t)
  OBVIOUS
<1> HIDE DEF t
<1>2. \A n \in 1..Len(s) : s[n] # x
  BY <1>1 DEF ToSet
<1>3. \A n \in DOMAIN t : n \in 1..Len(s) \/ n = Len(s) + 1
  BY <1>1
<1>4. \A m, n \in DOMAIN t : m # n => t[m] # t[n]
  BY <1>1, <1>2, <1>3
<1>5. ToSet(t) \subseteq ToSet(s) \cup {x}
  BY <1>1, <1>3 DEF ToSet
<1>6. Len(s) + 1 \in DOMAIN t /\ \A n \in DOMAIN s : n \in DOMAIN t
  BY <1>1
<1>7. x \in ToSet(t) /\ ToSet(s) \subseteq ToSet(t)
  BY <1>1, <1>6 DEF ToSet
<1> QED
  BY <1>1, <1>4, <1>5, <1>7 DEF t

LEMMA RefFoundStep ==
  ASSUME IInv, NEW q \in Paths, RefFound(q)
  PROVE  IInv'
<1> USE DEF IInv
<1> DEFINE c == Parent(q)
<1>0. /\ get[q] = "reading" /\ get' = [get EXCEPT ![q] = "found"]
      /\ nodes' = [nodes EXCEPT ![c] = Append(@, q)]
      /\ UNCHANGED <<frame, list, errs, field, answer>>
  BY DEF RefFound
<1>1. q # << >>
  BY <1>0 DEF ReadsHaveCall
<1>2. c \in Paths /\ q \in Below(c)
  BY <1>1, ParentFact
<1>3. frame[c] = "reading" /\ get[c] = "found" /\ frame[q] = "none"
  BY <1>0, <1>1, <1>2 DEF ReadsHaveCall
<1>4. /\ get'[q] = "found" /\ \A r \in Paths : r # q => get'[r] = get[r]
      /\ get' \in [Paths -> {"none", "reading", "found", "missing", "failed"}]
  BY <1>0 DEF TypeOK
<1>5. \A p \in Paths : \A r \in Below(p) : r \in Paths /\ r # << >> /\ Parent(r) = p
  BY BelowFact
<1> HIDE DEF c
<1>6. nodes'[c] = Append(nodes[c], q) /\ \A p \in Paths : p # c => nodes'[p] = nodes[p]
  BY <1>0, <1>2 DEF TypeOK
<1>7. /\ nodes[c] \in Seq(Below(c)) /\ q \notin ToSet(nodes[c])
      /\ ToSet(nodes[c]) = {r \in Below(c) : get[r] = "found"}
      /\ \A m, n \in DOMAIN nodes[c] : m # n => nodes[c][m] # nodes[c][n]
  BY <1>0, <1>2, <1>3 DEF TypeOK, NodesAreFound
<1>8. /\ nodes'[c] \in Seq(Below(c)) /\ ToSet(nodes'[c]) = ToSet(nodes[c]) \cup {q}
      /\ \A m, n \in DOMAIN nodes'[c] : m # n => nodes'[c][m] # nodes'[c][n]
  BY <1>2, <1>6, <1>7, AppendFact
<1>9. TypeOK'
  <2>1. Append(nodes[c], q) \in Seq(Paths)
    BY <1>2 DEF TypeOK
  <2>2. nodes' \in [Paths -> Seq(Paths)]
    BY <1>0, <2>1 DEF TypeOK
  <2>3. \A p \in Paths : nodes'[p] \in Seq(Below(p))
    BY <1>2, <1>6, <1>8 DEF TypeOK
  <2> QED
    BY <1>0, <1>4, <2>2, <2>3 DEF TypeOK
<1>10. ReadsHaveCall'
  BY <1>0, <1>1, <1>2, <1>3, <1>4, RootIsPath DEF ReadsHaveCall
<1>11. CallsHaveReads'
  BY <1>0, <1>4, <1>5 DEF CallsHaveReads
<1>12. NodesAreFound'
  <2> SUFFICES ASSUME NEW p \in Paths
               PROVE  /\ frame[p] = "none" => nodes'[p] = << >>
                      /\ frame[p] \in {"reading", "collecting"} =>
                           /\ ToSet(nodes'[p]) = {r \in Below(p) : get'[r] = "found"}
                           /\ \A m, n \in DOMAIN nodes'[p] : m # n => nodes'[p][m] # nodes'[p][n]
                      /\ frame[p] = "collecting" =>
                           \A m, n \in DOMAIN nodes'[p] :
                             m < n => Rank[At(nodes'[p][m])] <= Rank[At(nodes'[p][n])]
    BY <1>0 DEF NodesAreFound
  <2>1. CASE p = c
    <3>1. {r \in Below(c) : get'[r] = "found"} = {r \in Below(c) : get[r] = "found"} \cup {q}
      BY <1>2, <1>4, <1>5
    <3> QED
      BY <1>3, <1>7, <1>8, <2>1, <3>1
  <2>2. CASE p # c
    <3>1. q \notin Below(p)
      BY <1>2, <1>5, <2>2
    <3>2. {r \in Below(p) : get'[r] = "found"} = {r \in Below(p) : get[r] = "found"}
      BY <1>4, <1>5, <3>1
    <3>3. nodes'[p] = nodes[p]
      BY <1>6, <2>2
    <3> QED
      BY <3>2, <3>3 DEF NodesAreFound
  <2> QED
    BY <2>1, <2>2
<1>13. Found' = Found \cup {q}
  BY <1>4 DEF Found
<1>14. Lineage'
  <2> SUFFICES ASSUME NEW x \in Found \cup {q}, NEW p \in Paths, x \in Under(p), x # p
               PROVE  \E d \in Below(p) : get'[d] = "found" /\ x \in Under(d)
    BY <1>13 DEF Lineage
  <2>1. CASE x \in Found
    <3>1. PICK d \in Below(p) : get[d] = "found" /\ x \in Under(d)
      BY <2>1 DEF Lineage
    <3>2. get'[d] = "found"
      BY <1>4, <1>5, <3>1
    <3> QED
      BY <3>1, <3>2
  <2>2. CASE x = q
    <3>1. c \in Under(p)
      BY <2>2, UnderParent DEF c
    <3>2. CASE c = p
      <4>1. q \in Under(q)
        BY UnderSelf
      <4> QED
        BY <1>2, <1>4, <2>2, <3>2, <4>1
    <3>3. CASE c # p
      <4>1. PICK d \in Below(p) : get[d] = "found" /\ c \in Under(d)
        BY <1>2, <1>3, <3>1, <3>3 DEF Lineage, Found
      <4>2. d \in Paths /\ get'[d] = "found"
        BY <1>4, <1>5, <4>1
      <4>3. q \in Under(d)
        BY <1>2, <4>1, <4>2, UnderDown
      <4> QED
        BY <2>2, <4>2, <4>3
    <3> QED
      BY <3>2, <3>3
  <2> QED
    BY <2>1, <2>2
<1>15. FailuresAreErrors'
  BY <1>0, <1>4 DEF FailuresAreErrors
<1>16. ReturnedIsWhole'
  <2> SUFFICES ASSUME NEW p \in Paths
               PROVE  /\ list'[p] # << >> => frame'[p] = "returned"
                      /\ frame'[p] = "returned" /\ (~errs' \/ list'[p] # << >>) =>
                           IsTree(p, Found', list'[p]) /\ Settled(p)'
    BY DEF ReturnedIsWhole
  <2>1. ASSUME frame[p] = "returned", ~errs \/ list[p] # << >>
        PROVE  IsTree(p, Found', list'[p]) /\ Settled(p)'
    <3>1. IsTree(p, Found, list[p]) /\ Settled(p)
      BY <2>1 DEF ReturnedIsWhole
    <3>2. q \notin Under(p)
      <4>1. SUFFICES ASSUME q \in Under(p) PROVE FALSE
        OBVIOUS
      <4>2. q # p
        BY <1>3, <2>1
      <4>3. c \in Under(p) /\ c \in Found
        BY <1>2, <1>3, <4>1, <4>2, UnderParent DEF c, Found
      <4>4. get[q] \in {"found", "missing"}
        BY <1>2, <3>1, <4>3 DEF Settled
      <4> QED
        BY <1>0, <4>4
    <3>3. \A r \in Paths : get[r] \in {"found", "missing"} => get'[r] = get[r]
      BY <1>0, <1>4
    <3>4. \A r \in Under(p) : get'[r] = "found" => get[r] = "found"
      <4>1. Under(p) \subseteq Paths
        BY DEF Under
      <4> QED
        BY <1>4, <3>2, <4>1
    <3> QED
      BY <1>0, <3>1, <3>3, <3>4, StaysWhole
  <2> QED
    BY <1>0, <2>1 DEF ReturnedIsWhole
<1>17. AnswerIsList'
  BY <1>0, <1>2, <1>3 DEF AnswerIsList
<1> QED
  BY <1>9, <1>10, <1>11, <1>12, <1>14, <1>15, <1>16, <1>17

(* A call returns a list, its whole tree if it is not empty. *)
LEMMA ReturnStep ==
  ASSUME IInv, NEW p \in Paths, frame[p] \in {"leaf", "collecting"},
         NEW s \in Seq(TreeNode),
         ~errs \/ s # << >> => IsTree(p, Found, s) /\ Settled(p),
         frame' = [frame EXCEPT ![p] = "returned"], list' = [list EXCEPT ![p] = s],
         UNCHANGED <<get, nodes, errs, field, answer>>
  PROVE  IInv'
<1> USE DEF IInv
<1>1. /\ frame'[p] = "returned" /\ \A q \in Paths : q # p => frame'[q] = frame[q]
      /\ list'[p] = s /\ \A q \in Paths : q # p => list'[q] = list[q]
  BY DEF TypeOK
<1>2. \A q \in Paths : q # << >> => Parent(q) \in Paths
  BY ParentFact
<1>3. TypeOK'
  BY DEF TypeOK
<1>4. ReadsHaveCall'
  <2>1. get[p] = "found"
    BY DEF ReadsHaveCall
  <2>2. ASSUME NEW q \in Paths, q # << >>
        PROVE  /\ get[q] = "reading" => frame'[Parent(q)] = "reading"
               /\ get[q] # "none" => frame'[Parent(q)] # "none"
               /\ frame'[q] # "none" => frame'[Parent(q)] \in {"collecting", "returned"}
    <3>1. /\ get[q] = "reading" => frame[Parent(q)] = "reading"
          /\ get[q] # "none" => frame[Parent(q)] # "none"
          /\ frame[q] # "none" => frame[Parent(q)] \in {"collecting", "returned"}
      BY <2>2 DEF ReadsHaveCall
    <3>2. frame'[q] # "none" => frame[q] # "none"
      BY <1>1
    <3>3. Parent(q) \in Paths
      BY <1>2, <2>2
    <3> QED
      BY <1>1, <3>1, <3>2, <3>3
  <2> QED
    BY <1>1, <2>1, <2>2 DEF ReadsHaveCall
<1>5. CallsHaveReads' /\ NodesAreFound'
  BY <1>1 DEF CallsHaveReads, NodesAreFound
<1>6. Lineage' /\ FailuresAreErrors' /\ Found' = Found
  BY DEF Lineage, FailuresAreErrors, Found
<1>7. ReturnedIsWhole'
  <2> SUFFICES ASSUME NEW q \in Paths
               PROVE  /\ list'[q] # << >> => frame'[q] = "returned"
                      /\ frame'[q] = "returned" /\ (~errs' \/ list'[q] # << >>) =>
                           IsTree(q, Found', list'[q]) /\ Settled(q)'
    BY DEF ReturnedIsWhole
  <2>1. Settled(q)' <=> Settled(q)
    BY <1>6 DEF Settled
  <2>2. CASE q = p
    BY <1>1, <1>6, <2>1, <2>2
  <2>3. CASE q # p
    <3>1. list'[q] = list[q] /\ frame'[q] = frame[q]
      BY <1>1, <2>3
    <3> QED
      BY <1>6, <2>1, <3>1 DEF ReturnedIsWhole
  <2> QED
    BY <2>2, <2>3
<1>8. AnswerIsList'
  BY <1>1, RootIsPath DEF AnswerIsList
<1> QED
  BY <1>3, <1>4, <1>5, <1>6, <1>7, <1>8

LEMMA LeafStep ==
  ASSUME IInv, NEW p \in Paths, Leaf(p)
  PROVE  IInv'
<1> DEFINE s == <<Node(p)>>
<1>0. /\ frame[p] = "leaf" /\ frame' = [frame EXCEPT ![p] = "returned"]
      /\ list' = [list EXCEPT ![p] = s]
      /\ UNCHANGED <<get, nodes, errs, field, answer>>
  BY DEF Leaf
<1>1. Below(p) = {} /\ get[p] = "found"
  BY <1>0 DEF IInv, CallsHaveReads, ReadsHaveCall
<1>2. Under(p) \cap Found = {p}
  <2>1. p \in Under(p) \cap Found
    BY <1>1, UnderSelf DEF Found
  <2>2. ASSUME NEW q \in Under(p) \cap Found PROVE q = p
    BY <1>1 DEF IInv, Lineage
  <2> QED
    BY <2>1, <2>2
<1>3. Node(p) \in TreeNode /\ Node(p).at = p
  BY NodeType
<1>4. /\ s \in Seq(TreeNode) /\ s # << >> /\ DOMAIN s = {1} /\ s[1] = Node(p)
  BY <1>3
<1> HIDE DEF s
<1>5. IsTree(p, Found, s)
  <2>1. Places(s) = {p} /\ InOrder(s) /\ Backed(s, {Node(p)})
    BY <1>3, <1>4 DEF Places, InOrder, Backed
  <2> QED
    BY <1>2, <1>4, <2>1 DEF IsTree
<1>6. Settled(p)
  BY <1>1, <1>2 DEF Settled
<1> QED
  BY <1>0, <1>4, <1>5, <1>6, ReturnStep

LEMMA CollectedStep ==
  ASSUME IInv, NEW p \in Paths, Collected(p)
  PROVE  IInv'
<1> USE DEF IInv
<1> DEFINE ns == nodes[p]
           ss == [i \in DOMAIN ns |-> list[ns[i]]]
           s == IF errs THEN << >> ELSE <<Node(p)>> \o FlattenSeq(ss)
<1>0. /\ frame[p] = "collecting" /\ \A q \in ToSet(ns) : frame[q] = "returned"
      /\ frame' = [frame EXCEPT ![p] = "returned"] /\ list' = [list EXCEPT ![p] = s]
      /\ UNCHANGED <<get, nodes, errs, field, answer>>
  BY DEF Collected, Callees
<1>1. CASE errs
  <2>1. s = << >> /\ << >> \in Seq(TreeNode)
    BY <1>1
  <2> HIDE DEF s
  <2> QED
    BY <1>0, <1>1, <2>1, ReturnStep
<1>2. CASE ~errs
  <2>1. /\ ns \in Seq(Below(p)) /\ ToSet(ns) = {q \in Below(p) : get[q] = "found"}
        /\ \A m, n \in DOMAIN ns : m # n => ns[m] # ns[n]
        /\ \A m, n \in DOMAIN ns : m < n => Rank[At(ns[m])] <= Rank[At(ns[n])]
    BY <1>0 DEF TypeOK, NodesAreFound
  <2>2. ToSet(ns) = Below(p) \cap Found
    BY <2>1, BelowFact DEF Found
  <2>3. p \in Found /\ Found \in SUBSET Paths
    BY <1>0 DEF ReadsHaveCall, Found
  <2>4. ASSUME NEW c \in ToSet(ns)
        PROVE  c \in Paths /\ IsTree(c, Found, list[c]) /\ Settled(c)
    <3>1. c \in Paths
      BY <2>1, BelowFact
    <3> QED
      BY <1>0, <1>2, <3>1 DEF ReturnedIsWhole
  <2>5. \A k \in DOMAIN ns : ns[k] \in ToSet(ns)
    BY DEF ToSet
  <2>6. Len(ns) \in Nat /\ DOMAIN ns = 1..Len(ns)
    BY <2>1
  <2> HIDE DEF ns
  <2>7. ss \in Seq(Seq(TreeNode)) /\ Len(ss) = Len(ns) /\ \A k \in DOMAIN ns : ss[k] = list[ns[k]]
    <3>1. \A k \in DOMAIN ns : list[ns[k]] \in Seq(TreeNode)
      BY <2>4, <2>5 DEF IsTree
    <3> QED
      BY <2>6, <3>1
  <2> HIDE DEF ss
  <2>8. \A k \in DOMAIN ns : IsTree(ns[k], Found, ss[k])
    BY <2>4, <2>5, <2>7
  <2>9. \A q \in Found : q \in Under(p) /\ q # p => \E c \in Below(p) \cap Found : q \in Under(c)
    <3> SUFFICES ASSUME NEW q \in Found, q \in Under(p), q # p
                 PROVE  \E c \in Below(p) \cap Found : q \in Under(c)
      OBVIOUS
    <3>1. PICK c \in Below(p) : get[c] = "found" /\ q \in Under(c)
      BY DEF Lineage
    <3> QED
      BY <3>1, BelowFact DEF Found
  <2>10. IsTree(p, Found, <<Node(p)>> \o FlattenSeq(ss))
    BY <2>1, <2>2, <2>3, <2>7, <2>8, <2>9, TreeFact
  <2>11. Settled(p)
    <3> SUFFICES ASSUME NEW q \in Under(p) \cap Found, NEW r \in Below(q)
                 PROVE  get[r] \in {"found", "missing"}
      BY DEF Settled
    <3>1. CASE q = p
      <4>1. r \in Paths /\ get[r] \notin {"none", "reading"}
        BY <1>0, <3>1, BelowFact DEF CallsHaveReads
      <4> QED
        BY <1>2, <4>1 DEF FailuresAreErrors, TypeOK
    <3>2. CASE q # p
      <4>1. PICK c \in Below(p) \cap Found : q \in Under(c)
        BY <2>9, <3>2
      <4>2. Settled(c)
        BY <2>2, <2>4, <4>1
      <4> QED
        BY <4>1, <4>2 DEF Settled
    <3> QED
      BY <3>1, <3>2
  <2>12. s = <<Node(p)>> \o FlattenSeq(ss) /\ s \in Seq(TreeNode)
    BY <1>2, <2>10 DEF IsTree
  <2> HIDE DEF s
  <2> QED
    BY <1>0, <2>10, <2>11, <2>12, ReturnStep
<1> QED
  BY <1>1, <1>2

LEMMA TreeDoneStep == IInv /\ TreeDone => IInv'
<1> SUFFICES ASSUME IInv, TreeDone PROVE IInv'
  OBVIOUS
<1> USE DEF IInv
<1>0. /\ field = "descending" /\ frame[<< >>] = "returned" /\ field' = "returned"
      /\ answer' = IF errs THEN << >> ELSE list[<< >>]
      /\ UNCHANGED <<get, frame, nodes, list, errs>>
      /\ << >> \in Paths
  BY RootIsPath DEF TreeDone
<1>1. ~errs => list[<< >>] # << >>
  BY <1>0 DEF ReturnedIsWhole, IsTree
<1>2. TypeOK'
  BY <1>0 DEF TypeOK
<1>3. ReadsHaveCall' /\ CallsHaveReads' /\ NodesAreFound'
  BY <1>0 DEF ReadsHaveCall, CallsHaveReads, NodesAreFound
<1>4. Lineage' /\ FailuresAreErrors' /\ Found' = Found
  BY <1>0 DEF Lineage, FailuresAreErrors, Found
<1>5. ReturnedIsWhole'
  BY <1>0, <1>4 DEF ReturnedIsWhole, Settled
<1>6. AnswerIsList'
  BY <1>0, <1>1 DEF AnswerIsList
<1> QED
  BY <1>2, <1>3, <1>4, <1>5, <1>6

(* Sorting keeps the resources of a list, and puts them in order. *)
LEMMA SortFact ==
  ASSUME NEW p \in Paths, NEW s \in Seq(Below(p)), NEW t \in StableSort(s),
         \A m, n \in DOMAIN s : m # n => s[m] # s[n]
  PROVE  /\ t \in Seq(Below(p)) /\ ToSet(t) = ToSet(s)
         /\ \A m, n \in DOMAIN t : m # n => t[m] # t[n]
         /\ \A m, n \in DOMAIN t : m < n => Rank[At(t[m])] <= Rank[At(t[n])]
<1> DEFINE D == DOMAIN s
<1>0. Len(s) \in Nat /\ D = 1..Len(s) /\ \A k \in D : s[k] \in Below(p)
  OBVIOUS
<1> HIDE DEF D
<1>1. PICK f \in Bijection(D, D) : /\ t = [k \in D |-> s[f[k]]]
                                   /\ \A j, k \in D : j < k => Less(s, f[j], f[k])
  BY Zenon DEF StableSort, D
<1>2. /\ f \in [D -> D] /\ \A j, k \in D : f[j] = f[k] => j = k
      /\ \A j \in D : \E k \in D : f[k] = j
  BY <1>1 DEF Bijection, Injection, Surjection, IsInjective
<1>3. \A k \in D : f[k] \in D /\ t[k] = s[f[k]]
  BY <1>1, <1>2
<1>4. t \in Seq(Below(p)) /\ DOMAIN t = D
  <2>1. t = [k \in 1..Len(s) |-> s[f[k]]]
    BY <1>0, <1>1
  <2>2. \A k \in 1..Len(s) : s[f[k]] \in Below(p)
    BY <1>0, <1>3
  <2> QED
    BY <1>0, <2>1, <2>2
<1>5. ToSet(t) = ToSet(s)
  <2>1. ToSet(t) = {t[k] : k \in D} /\ ToSet(s) = {s[k] : k \in D}
    BY <1>4 DEF ToSet, D
  <2> QED
    BY <1>2, <1>3, <2>1
<1>6. ASSUME NEW m \in D, NEW n \in D, m # n PROVE t[m] # t[n]
  <2>1. f[m] \in DOMAIN s /\ f[n] \in DOMAIN s /\ f[m] # f[n]
    BY <1>2, <1>3, <1>6 DEF D
  <2> QED
    BY <1>3, <2>1
<1>7. ASSUME NEW m \in D, NEW n \in D, m < n PROVE Rank[At(t[m])] <= Rank[At(t[n])]
  <2>1. \A k \in D : At(s[k]) \in Objs /\ Rank[At(s[k])] \in Nat
    BY <1>0, BelowFact, PathType, ResourceTreeAssumption
  <2>2. Less(s, f[m], f[n])
    BY <1>1, <1>7
  <2>3. Rank[At(s[f[m]])] <= Rank[At(s[f[n]])]
    BY <1>3, <2>1, <2>2 DEF Less
  <2> QED
    BY <1>3, <2>3
<1> QED
  BY <1>4, <1>5, <1>6, <1>7

LEMMA ReadDoneStep ==
  ASSUME IInv, NEW p \in Paths, ReadDone(p)
  PROVE  IInv'
<1> USE DEF IInv
<1>0. /\ frame[p] = "reading" /\ \A q \in Below(p) : get[q] # "reading"
      /\ UNCHANGED <<list, errs, field, answer>>
  BY DEF ReadDone, WaitedForReads
<1>1. PICK sorted \in StableSort(nodes[p]) : nodes' = [nodes EXCEPT ![p] = sorted]
  BY DEF ReadDone
<1>2. /\ nodes[p] \in Seq(Below(p)) /\ ToSet(nodes[p]) = {q \in Below(p) : get[q] = "found"}
      /\ \A m, n \in DOMAIN nodes[p] : m # n => nodes[p][m] # nodes[p][n]
  BY <1>0 DEF TypeOK, NodesAreFound
<1>3. /\ sorted \in Seq(Below(p)) /\ ToSet(sorted) = ToSet(nodes[p])
      /\ \A m, n \in DOMAIN sorted : m # n => sorted[m] # sorted[n]
      /\ \A m, n \in DOMAIN sorted : m < n => Rank[At(sorted[m])] <= Rank[At(sorted[n])]
  BY <1>1, <1>2, SortFact
<1>4. nodes'[p] = sorted /\ \A q \in Paths : q # p => nodes'[q] = nodes[q]
  BY <1>1 DEF TypeOK
<1>5. \A x \in Paths : \A q \in Below(x) : q \in Paths /\ q # << >> /\ Parent(q) = x
  BY BelowFact
<1>6. \A q \in Paths : q # << >> => Parent(q) \in Paths /\ q \in Below(Parent(q))
  BY ParentFact
<1>7. /\ nodes' \in [Paths -> Seq(Paths)] /\ \A q \in Paths : nodes'[q] \in Seq(Below(q))
  <2>1. sorted \in Seq(Paths)
    BY <1>3, <1>5
  <2> QED
    BY <1>1, <1>3, <1>4, <2>1 DEF TypeOK
<1>8. list[p] = << >> /\ get[p] = "found" /\ << >> \in Paths /\ field # "root"
  BY <1>0, RootIsPath DEF ReturnedIsWhole, ReadsHaveCall, AnswerIsList
<1>9. CASE errs
  <2>1. frame' = [frame EXCEPT ![p] = "returned"] /\ UNCHANGED get
    BY <1>9 DEF ReadDone
  <2>2. frame'[p] = "returned" /\ \A q \in Paths : q # p => frame'[q] = frame[q]
    BY <2>1 DEF TypeOK
  <2>3. TypeOK'
    BY <1>0, <1>7, <2>1 DEF TypeOK
  <2>4. ReadsHaveCall'
    <3>1. ASSUME NEW q \in Paths, q # << >>
          PROVE  /\ get[q] = "reading" => frame'[Parent(q)] = "reading"
                 /\ get[q] # "none" => frame'[Parent(q)] # "none"
                 /\ frame'[q] # "none" => frame'[Parent(q)] \in {"collecting", "returned"}
      <4>1. /\ get[q] = "reading" => frame[Parent(q)] = "reading"
            /\ get[q] # "none" => frame[Parent(q)] # "none"
            /\ frame[q] # "none" => frame[Parent(q)] \in {"collecting", "returned"}
        BY <3>1 DEF ReadsHaveCall
      <4>2. Parent(q) \in Paths /\ q \in Below(Parent(q))
        BY <1>6, <3>1
      <4>3. frame'[q] # "none" => frame[q] # "none"
        BY <1>0, <2>2
      <4> QED
        BY <1>0, <2>2, <4>1, <4>2, <4>3
    <3> QED
      BY <1>8, <2>1, <2>2, <3>1 DEF ReadsHaveCall
  <2>5. CallsHaveReads'
    BY <2>1, <2>2 DEF CallsHaveReads
  <2>6. NodesAreFound'
    <3> SUFFICES ASSUME NEW q \in Paths
                 PROVE  /\ frame'[q] = "none" => nodes'[q] = << >>
                        /\ frame'[q] \in {"reading", "collecting"} =>
                             /\ ToSet(nodes'[q]) = {r \in Below(q) : get[r] = "found"}
                             /\ \A m, n \in DOMAIN nodes'[q] : m # n => nodes'[q][m] # nodes'[q][n]
                        /\ frame'[q] = "collecting" =>
                             \A m, n \in DOMAIN nodes'[q] :
                               m < n => Rank[At(nodes'[q][m])] <= Rank[At(nodes'[q][n])]
      BY <2>1 DEF NodesAreFound
    <3>1. CASE q = p
      BY <2>2, <3>1
    <3>2. CASE q # p
      <4>1. nodes'[q] = nodes[q] /\ frame'[q] = frame[q]
        BY <1>4, <2>2, <3>2
      <4> QED
        BY <4>1 DEF NodesAreFound
    <3> QED
      BY <3>1, <3>2
  <2>7. Lineage' /\ FailuresAreErrors' /\ Found' = Found
    BY <1>0, <2>1 DEF Lineage, FailuresAreErrors, Found
  <2>8. ReturnedIsWhole'
    <3>1. \A q \in Paths : Settled(q)' <=> Settled(q)
      BY <2>1, <2>7 DEF Settled
    <3> QED
      BY <1>0, <1>8, <1>9, <2>2, <2>7, <3>1 DEF ReturnedIsWhole
  <2>9. AnswerIsList'
    BY <1>0, <1>8, <2>1, <2>2 DEF AnswerIsList
  <2> QED
    BY <2>3, <2>4, <2>5, <2>6, <2>7, <2>8, <2>9
<1>10. CASE ~errs
  <2> DEFINE S == ToSet(nodes[p])
             f == [frame EXCEPT ![p] = "collecting"]
  <2>1. /\ frame' = [q \in Paths |-> IF q \notin S THEN f[q]
                                     ELSE IF Kind[At(q)] = "other" THEN "leaf" ELSE "reading"]
        /\ get' = [q \in Paths |-> IF q # << >> /\ Parent(q) \in S THEN "reading" ELSE get[q]]
    BY <1>10 DEF ReadDone, Enter
  <2>2. f[p] = "collecting" /\ \A q \in Paths : q # p => f[q] = frame[q]
    BY DEF TypeOK
  <2>3. S = {q \in Below(p) : get[q] = "found"} /\ S \subseteq Paths /\ p \notin S
    <3>1. p \notin Below(p)
      BY <1>5, UnderBelow, UnderSelf
    <3> QED
      BY <1>2, <1>5, <3>1
  <2> HIDE DEF S, f
  <2>4. \A q \in S : frame[q] = "none"
    BY <1>0, <1>5, <2>3 DEF ReadsHaveCall
  <2>5. ASSUME NEW q \in Paths, q # << >>, Parent(q) \in S
        PROVE  get[q] = "none" /\ get'[q] = "reading" /\ frame[q] = "none" /\ q \notin S
    <3>1. frame[Parent(q)] = "none"
      BY <2>4, <2>5
    <3>2. get[q] = "none" /\ frame[q] = "none"
      BY <2>5, <3>1 DEF ReadsHaveCall
    <3> QED
      BY <2>1, <2>3, <2>5, <3>2
  <2>6. \A q \in Paths : get'[q] # get[q] =>
          q # << >> /\ Parent(q) \in S /\ get[q] = "none" /\ get'[q] = "reading"
    BY <2>1, <2>5
  <2>7. /\ frame'[p] = "collecting"
        /\ \A q \in S : frame'[q] \in {"leaf", "reading"} /\ (frame'[q] = "leaf" => Below(q) = {})
        /\ \A q \in Paths : q # p /\ q \notin S => frame'[q] = frame[q]
    <3>1. ASSUME NEW q \in S PROVE Kind[At(q)] = "other" => Below(q) = {}
      <4>1. At(q) \in Objs
        BY <2>3, PathType
      <4>2. Kind[At(q)] = "other" => Refs[At(q)] = << >>
        BY <4>1, ResourceTreeAssumption
      <4> QED
        BY <4>2 DEF Below, NamedRefs
    <3> QED
      BY <2>1, <2>2, <2>3, <3>1
  <2>8. TypeOK'
    <3>1. frame' \in [Paths -> {"none", "reading", "leaf", "collecting", "returned"}]
      <4>1. \A q \in Paths : f[q] \in {"none", "reading", "leaf", "collecting", "returned"}
        BY <2>2 DEF TypeOK
      <4> QED
        BY <2>1, <4>1
    <3>2. get' \in [Paths -> {"none", "reading", "found", "missing", "failed"}]
      BY <2>1 DEF TypeOK
    <3> QED
      BY <1>0, <1>7, <3>1, <3>2 DEF TypeOK
  <2>9. \A q \in Paths : get'[q] = "found" <=> get[q] = "found"
    BY <2>6
  <2>10. ReadsHaveCall'
    <3>1. get'[<< >>] # "reading"
      BY <1>8, <2>6 DEF ReadsHaveCall
    <3>2. ASSUME NEW q \in Paths, frame'[q] # "none" PROVE get'[q] = "found"
      <4>1. q = p \/ q \in S \/ frame[q] # "none"
        BY <2>7, <3>2
      <4> QED
        BY <1>8, <2>3, <2>9, <4>1 DEF ReadsHaveCall
    <3>3. ASSUME NEW q \in Paths, q # << >>
          PROVE  /\ get'[q] = "reading" => frame'[Parent(q)] = "reading"
                 /\ get'[q] # "none" => frame'[Parent(q)] # "none"
                 /\ frame'[q] # "none" => frame'[Parent(q)] \in {"collecting", "returned"}
      <4>1. Parent(q) \in Paths /\ q \in Below(Parent(q))
        BY <1>6, <3>3
      <4>2. CASE Parent(q) \in S
        <5>1. Below(Parent(q)) # {}
          BY <4>1
        <5>2. frame'[Parent(q)] = "reading"
          BY <2>7, <4>2, <5>1
        <5>3. q # p
          <6>1. q = p => Parent(q) = p \/ frame[Parent(q)] # "none"
            BY <1>0, <3>3 DEF ReadsHaveCall
          <6> QED
            BY <2>3, <2>4, <4>2, <6>1
        <5>4. frame'[q] = "none"
          BY <2>5, <2>7, <3>3, <4>2, <5>3
        <5> QED
          BY <5>2, <5>4
      <4>3. CASE Parent(q) = p
        <5>1. get'[q] = get[q] /\ get[q] # "reading"
          BY <1>0, <2>3, <2>6, <4>1, <4>3
        <5> QED
          BY <2>7, <4>3, <5>1
      <4>4. CASE Parent(q) # p /\ Parent(q) \notin S
        <5>1. /\ get'[q] = get[q] /\ frame'[Parent(q)] = frame[Parent(q)]
              /\ q \notin S
          BY <1>5, <2>3, <2>6, <2>7, <4>1, <4>4
        <5>2. frame'[q] # "none" => frame[q] # "none"
          BY <1>0, <2>7, <5>1
        <5> QED
          BY <3>3, <5>1, <5>2 DEF ReadsHaveCall
      <4> QED
        BY <4>2, <4>3, <4>4
    <3> QED
      BY <3>1, <3>2, <3>3 DEF ReadsHaveCall
  <2>11. CallsHaveReads'
    <3> SUFFICES ASSUME NEW x \in Paths
                 PROVE  /\ frame'[x] = "reading" => \A q \in Below(x) : get'[q] # "none"
                        /\ frame'[x] = "collecting" =>
                             \A q \in Below(x) : get'[q] \notin {"none", "reading"}
                        /\ frame'[x] = "leaf" => Below(x) = {}
      BY DEF CallsHaveReads
    <3>1. CASE x \in S
      <4>1. \A q \in Below(x) : get'[q] = "reading"
        BY <1>5, <2>5, <3>1
      <4> QED
        BY <2>7, <3>1, <4>1
    <3>2. CASE x \notin S
      <4>1. \A q \in Below(x) : get'[q] = get[q]
        BY <1>5, <2>6, <3>2
      <4>2. CASE x = p
        BY <1>0, <2>7, <4>1, <4>2 DEF CallsHaveReads
      <4>3. CASE x # p
        BY <2>7, <3>2, <4>1, <4>3 DEF CallsHaveReads
      <4> QED
        BY <4>2, <4>3
    <3> QED
      BY <3>1, <3>2
  <2>12. NodesAreFound'
    <3> SUFFICES ASSUME NEW q \in Paths
                 PROVE  /\ frame'[q] = "none" => nodes'[q] = << >>
                        /\ frame'[q] \in {"reading", "collecting"} =>
                             /\ ToSet(nodes'[q]) = {r \in Below(q) : get'[r] = "found"}
                             /\ \A m, n \in DOMAIN nodes'[q] : m # n => nodes'[q][m] # nodes'[q][n]
                        /\ frame'[q] = "collecting" =>
                             \A m, n \in DOMAIN nodes'[q] :
                               m < n => Rank[At(nodes'[q][m])] <= Rank[At(nodes'[q][n])]
      BY DEF NodesAreFound
    <3>0. {r \in Below(q) : get'[r] = "found"} = {r \in Below(q) : get[r] = "found"}
      BY <1>5, <2>9
    <3>1. CASE q = p
      BY <1>2, <1>3, <1>4, <2>7, <3>0, <3>1
    <3>2. CASE q \in S
      <4>1. nodes'[q] = << >> /\ DOMAIN nodes'[q] = {}
        BY <1>4, <2>3, <2>4, <3>2 DEF NodesAreFound
      <4>2. {r \in Below(q) : get[r] = "found"} = {}
        BY <1>5, <2>5, <3>2
      <4>3. frame'[q] # "collecting"
        BY <2>7, <3>2
      <4> QED
        BY <3>0, <4>1, <4>2, <4>3 DEF ToSet
    <3>3. CASE q # p /\ q \notin S
      <4>1. nodes'[q] = nodes[q] /\ frame'[q] = frame[q]
        BY <1>4, <2>7, <3>3
      <4> QED
        BY <3>0, <4>1 DEF NodesAreFound
    <3> QED
      BY <3>1, <3>2, <3>3
  <2>13. Found' = Found
    BY <2>9 DEF Found
  <2>14. Lineage'
    <3> SUFFICES ASSUME NEW q \in Found, NEW x \in Paths, q \in Under(x), q # x
                 PROVE  \E c \in Below(x) : get'[c] = "found" /\ q \in Under(c)
      BY <2>13 DEF Lineage
    <3> QED
      BY <1>5, <2>9 DEF Lineage
  <2>15. FailuresAreErrors'
    BY <1>0, <2>6 DEF FailuresAreErrors
  <2>16. ReturnedIsWhole'
    <3> SUFFICES ASSUME NEW x \in Paths
                 PROVE  /\ list'[x] # << >> => frame'[x] = "returned"
                        /\ frame'[x] = "returned" /\ (~errs' \/ list'[x] # << >>) =>
                             IsTree(x, Found', list'[x]) /\ Settled(x)'
      BY DEF ReturnedIsWhole
    <3>1. list'[x] # << >> => frame'[x] = "returned"
      BY <1>0, <1>8, <2>4, <2>7 DEF ReturnedIsWhole
    <3>2. ASSUME frame'[x] = "returned", ~errs' \/ list'[x] # << >>
          PROVE  IsTree(x, Found', list'[x]) /\ Settled(x)'
      <4>1. frame[x] = "returned"
        BY <2>7, <3>2
      <4>2. IsTree(x, Found, list[x]) /\ Settled(x)
        BY <1>0, <3>2, <4>1 DEF ReturnedIsWhole
      <4>3. Under(x) \subseteq Paths
        BY DEF Under
      <4>4. \A q \in Paths : get[q] \in {"found", "missing"} => get'[q] = get[q]
        BY <2>6
      <4> QED
        BY <1>0, <2>9, <4>2, <4>3, <4>4, StaysWhole
    <3> QED
      BY <3>1, <3>2
  <2>17. AnswerIsList'
    BY <1>0, <1>8, <2>4, <2>7 DEF AnswerIsList
  <2> QED
    BY <2>8, <2>10, <2>11, <2>12, <2>14, <2>15, <2>16, <2>17
<1> QED
  BY <1>9, <1>10

LEMMA NoClientStep ==
  ASSUME IInv, NEW p \in Paths, NoClient(p)
  PROVE  IInv'
<1>1. /\ \A q \in Below(p) : get[q] = "reading"
      /\ errs' = TRUE
      /\ get' = [q \in Paths |-> IF q \in Below(p) THEN "failed" ELSE get[q]]
      /\ UNCHANGED <<frame, nodes, list, field, answer>>
  BY DEF NoClient
<1>2. get' \in [Paths -> {"none", "reading", "found", "missing", "failed"}]
  BY <1>1 DEF IInv, TypeOK
<1> QED
  BY <1>1, <1>2, ReadsEndStep

LEMMA RefLeftStep ==
  ASSUME IInv, NEW q \in Paths, RefMissing(q) \/ RefFails(q)
  PROVE  IInv'
<1>1. /\ get[q] = "reading"
      /\ \/ get' = [get EXCEPT ![q] = "missing"] /\ errs' = errs
         \/ get' = [get EXCEPT ![q] = "failed"] /\ errs' = TRUE
      /\ UNCHANGED <<frame, nodes, list, field, answer>>
  BY DEF RefMissing, RefFails
<1>2. get \in [Paths -> {"none", "reading", "found", "missing", "failed"}] /\ errs \in BOOLEAN
  BY DEF IInv, TypeOK
<1>3. /\ get' \in [Paths -> {"none", "reading", "found", "missing", "failed"}]
      /\ errs' \in BOOLEAN /\ (errs => errs')
      /\ \A r \in Paths : \/ get'[r] = get[r]
                          \/ get[r] = "reading" /\ get'[r] \in {"missing", "failed"}
      /\ \A r \in Paths : get'[r] = "failed" => get[r] = "failed" \/ errs'
  BY <1>1, <1>2
<1> QED
  BY <1>1, <1>3, ReadsEndStep

LEMMA OtherFailsStep == IInv /\ OtherFails => IInv'
<1> SUFFICES ASSUME IInv, OtherFails PROVE IInv'
  OBVIOUS
<1>1. errs' = TRUE /\ UNCHANGED <<get, frame, nodes, list, field, answer>>
  BY DEF OtherFails
<1>2. get' \in [Paths -> {"none", "reading", "found", "missing", "failed"}]
  BY <1>1 DEF IInv, TypeOK
<1> QED
  BY <1>1, <1>2, ReadsEndStep

LEMMA NextIInv == IInv /\ [Next]_vars => IInv'
<1> SUFFICES ASSUME IInv, [Next]_vars PROVE IInv'
  OBVIOUS
<1>1. CASE RootFails
  BY <1>1, RootFailsStep
<1>2. CASE RootFound
  BY <1>2, RootFoundStep
<1>3. ASSUME NEW q \in Paths, Reads(q) PROVE IInv'
  <2>1. CASE RefFound(q)
    BY <2>1, RefFoundStep
  <2>2. CASE RefMissing(q) \/ RefFails(q)
    BY <2>2, RefLeftStep
  <2> QED
    BY <1>3, <2>1, <2>2 DEF Reads
<1>4. ASSUME NEW p \in Paths, Calls(p) PROVE IInv'
  <2>1. CASE NoClient(p)
    BY <2>1, NoClientStep
  <2>2. CASE ReadDone(p)
    BY <2>2, ReadDoneStep
  <2>3. CASE Leaf(p)
    BY <2>3, LeafStep
  <2>4. CASE Collected(p)
    BY <2>4, CollectedStep
  <2> QED
    BY <1>4, <2>1, <2>2, <2>3, <2>4 DEF Calls
<1>5. CASE TreeDone
  BY <1>5, TreeDoneStep
<1>6. CASE OtherFails
  BY <1>6, OtherFailsStep
<1>7. CASE UNCHANGED vars
  <2>1. UNCHANGED <<frame, nodes, list, field, answer>> /\ get' = get /\ errs' = errs
    BY <1>7 DEF vars
  <2>2. /\ get' \in [Paths -> {"none", "reading", "found", "missing", "failed"}]
        /\ errs' \in BOOLEAN
    BY <2>1 DEF IInv, TypeOK
  <2> QED
    BY <2>1, <2>2, ReadsEndStep
<1> QED
  BY <1>1, <1>2, <1>3, <1>4, <1>5, <1>6, <1>7 DEF Next

-----------------------------------------------------------------------------
(* The theorems                                                            *)

(* The state of the resolver has its type: what a call has read is below   *)
(* it, and what it returns are nodes of the tree (Resources, Resource and  *)
(* getAllDescendant).                                                      *)
THEOREM TypeCorrect == Spec => []TypeOK
<1>1. IInv => TypeOK
  BY DEF IInv
<1> QED
  BY InitIInv, NextIInv, <1>1, PTL DEF Spec

(* crossplaneResourceTree returns the tree of every resource that was      *)
(* found, once each, in an order that the goroutines do not decide, with   *)
(* parents that lead up, or nothing in a response that has errors; for any *)
(* resources, and any references between them that end.                    *)
THEOREM WholeTreeOrNothing == Spec => []WholeTree
BY InitIInv, NextIInv, IInvWholeTree, PTL DEF Spec

-----------------------------------------------------------------------------
(***************************************************************************)
(* The fields of Resolvers                                                 *)
(***************************************************************************)
-----------------------------------------------------------------------------
(* Lists: what is selected, counted and sorted                             *)

LEMMA LeastOfFact ==
  ASSUME NEW T, T \subseteq Nat, T # {}
  PROVE  LeastOf(T) \in T /\ \A m \in T : LeastOf(T) <= m
<1>1. \E n \in T : \A m \in T : n <= m
  BY LeastNat
<1> QED
  BY <1>1, Zenon DEF LeastOf

(* The elements at some indexes of a list are as many as the indexes. *)
LEMMA PickedCount ==
  ASSUME NEW listed, NEW A \in SUBSET DOMAIN listed, IsFiniteSet(A),
         \A i, j \in A : listed[i] = listed[j] => i = j
  PROVE  /\ IsFiniteSet({listed[i] : i \in A})
         /\ Cardinality({listed[i] : i \in A}) = Cardinality(A)
<1> DEFINE T == {listed[i] : i \in A}
           g == [i \in A |-> listed[i]]
<1>1. g \in Bijection(A, T)
  BY DEF Bijection, Injection, Surjection, IsInjective
<1> HIDE DEF T, g
<1>2. IsFiniteSet(T) /\ Cardinality(T) = Cardinality(A)
  BY <1>1, FS_Bijection DEF ExistsBijection
<1> QED
  BY <1>2 DEF T

(* What an informer lists: each object once, at an index up to their number. *)
LEMMA ListFact ==
  ASSUME IsFiniteSet(world), NEW listed \in Lists
  PROVE  /\ Cardinality(world) \in Nat
         /\ listed \in Seq(world) /\ Len(listed) = Cardinality(world)
         /\ DOMAIN listed = 1..Cardinality(world)
         /\ \A i, j \in DOMAIN listed : listed[i] = listed[j] => i = j
         /\ \A x \in world : \E i \in DOMAIN listed : listed[i] = x
         /\ ToSet(listed) = world
<1> DEFINE D == 1..Cardinality(world)
<1>1. Cardinality(world) \in Nat
  BY FS_CardinalityType
<1>2. listed \in [D -> world] /\ \A i, j \in D : i # j => listed[i] # listed[j]
  BY DEF Lists, SetToSeqs
<1>3. listed \in Injection(D, world)
  BY <1>2, Zenon DEF Injection, IsInjective
<1>4. IsFiniteSet(D) /\ Cardinality(D) = Cardinality(world)
  BY <1>1, FS_Interval
<1>5. listed \in Surjection(D, world)
  BY <1>3, <1>4, FS_Injection
<1>6. \A x \in world : \E i \in D : listed[i] = x
  BY <1>5 DEF Surjection
<1>7. listed \in Seq(world) /\ Len(listed) = Cardinality(world) /\ DOMAIN listed = D
  BY <1>1, <1>2
<1> QED
  BY <1>1, <1>2, <1>6, <1>7 DEF ToSet

(* The places of the elements that are kept are the numbers from 1 on, and *)
(* an element is behind those that come before it.                         *)
LEMMA PlaceFact ==
  ASSUME NEW listed, NEW at \in SUBSET DOMAIN listed, IsFiniteSet(at), at \subseteq Nat,
         NEW rank, \A i \in at : rank[listed[i]] \in Int
  PROVE  /\ Cardinality(at) \in Nat
         /\ \A i \in at : Place(listed, at, rank, i) \in 1..Cardinality(at)
         /\ \A i, j \in at : Before(listed, rank, i, j) =>
              Place(listed, at, rank, i) < Place(listed, at, rank, j)
         /\ \A n \in 1..Cardinality(at) : \E i \in at : Place(listed, at, rank, i) = n
         /\ \A i, j \in at : Place(listed, at, rank, i) = Place(listed, at, rank, j) => i = j
<1> DEFINE Upto(i) == {j \in at : j = i \/ Before(listed, rank, j, i)}
           m == Cardinality(at)
           p == [i \in at |-> Cardinality(Upto(i))]
<1>1. m \in Nat
  BY FS_CardinalityType
<1>2. ASSUME NEW i \in at PROVE IsFiniteSet(Upto(i)) /\ Cardinality(Upto(i)) \in 1..m
  <2>1. Upto(i) \in SUBSET at /\ i \in Upto(i)
    OBVIOUS
  <2> HIDE DEF Upto
  <2>2. IsFiniteSet(Upto(i)) /\ Cardinality(Upto(i)) <= m
    BY <2>1, FS_Subset
  <2>3. Cardinality(Upto(i)) \in Nat /\ Cardinality(Upto(i)) # 0
    BY <2>1, <2>2, FS_CardinalityType, FS_EmptySet
  <2> QED
    BY <1>1, <2>2, <2>3
<1>3. ASSUME NEW i \in at, NEW j \in at, Before(listed, rank, i, j)
      PROVE  Cardinality(Upto(i)) < Cardinality(Upto(j))
  <2>1. Upto(i) \subseteq Upto(j)
    <3> SUFFICES ASSUME NEW k \in at, Before(listed, rank, k, i)
                 PROVE  Before(listed, rank, k, j)
      BY <1>3
    <3> QED
      BY <1>3 DEF Before
  <2>2. j \in Upto(j) /\ j \notin Upto(i)
    BY <1>3 DEF Before
  <2> HIDE DEF Upto
  <2>3. /\ Cardinality(Upto(i)) <= Cardinality(Upto(j))
        /\ Cardinality(Upto(i)) # Cardinality(Upto(j))
    BY <1>2, <2>1, <2>2, FS_Subset
  <2> QED
    BY <1>2, <2>3
<1>4. ASSUME NEW i \in at, NEW j \in at, i # j
      PROVE  Before(listed, rank, i, j) \/ Before(listed, rank, j, i)
  BY <1>4 DEF Before
<1> HIDE DEF Upto
<1>5. ASSUME NEW i \in at, NEW j \in at, Cardinality(Upto(i)) = Cardinality(Upto(j))
      PROVE  i = j
  BY <1>1, <1>2, <1>3, <1>4, <1>5
<1>6. p \in Injection(at, 1..m)
  BY <1>2, <1>5 DEF Injection, IsInjective
<1>7. IsFiniteSet(1..m) /\ Cardinality(1..m) = m
  BY <1>1, FS_Interval
<1>8. p \in Surjection(at, 1..m)
  BY <1>6, <1>7, FS_Injection
<1>9. \A n \in 1..m : \E i \in at : p[i] = n
  BY <1>8 DEF Surjection
<1>10. \A i \in at : Place(listed, at, rank, i) = Cardinality(Upto(i))
  BY DEF Place, Upto
<1> QED
  BY <1>1, <1>2, <1>3, <1>5, <1>9, <1>10

(* Ranks are comparable for what is kept. *)
Comparable(rank, keep) == \A x \in keep : rank[x] \in Int

(* sort.Stable of what is kept has each element that is kept once, in the  *)
(* order of the ranks.                                                     *)
LEMMA SortedFact ==
  ASSUME IsFiniteSet(world), NEW listed \in Lists, NEW keep \in SUBSET world,
         NEW rank, Comparable(rank, keep)
  PROVE  LET s == Sorted(listed, keep, rank)
             at == Kept(listed, keep)
         IN  /\ s \in Seq(keep) /\ Len(s) = Cardinality(at) /\ Len(s) \in Nat
             /\ DOMAIN s = 1..Len(s)
             /\ ToSet(s) = keep
             /\ IsInjective(s)
             /\ \A m, n \in DOMAIN s : m < n => rank[s[m]] <= rank[s[n]]
             /\ \A n \in DOMAIN s : \E i \in at : s[n] = listed[i] /\ Place(listed, at, rank, i) = n
<1> DEFINE at == Kept(listed, keep)
           s == Sorted(listed, keep, rank)
           c == Cardinality(at)
           idx == [n \in 1..c |-> CHOOSE i \in at : Place(listed, at, rank, i) = n]
<1>1. /\ Cardinality(world) \in Nat /\ DOMAIN listed = 1..Cardinality(world)
      /\ \A i, j \in DOMAIN listed : listed[i] = listed[j] => i = j
      /\ \A x \in world : \E i \in DOMAIN listed : listed[i] = x
  BY ListFact
<1>2. at \in SUBSET DOMAIN listed /\ at \subseteq Nat /\ \A i \in at : listed[i] \in keep
  BY <1>1 DEF Kept
<1>3. IsFiniteSet(at)
  <2>1. IsFiniteSet(1..Cardinality(world))
    BY <1>1, FS_Interval
  <2> QED
    BY <1>1, <1>2, <2>1, FS_Subset
<1>4. \A i \in at : rank[listed[i]] \in Int
  BY <1>2 DEF Comparable
<1> HIDE DEF at
<1>5. /\ c \in Nat
      /\ \A i \in at : Place(listed, at, rank, i) \in 1..c
      /\ \A i, j \in at : Before(listed, rank, i, j) =>
           Place(listed, at, rank, i) < Place(listed, at, rank, j)
      /\ \A n \in 1..c : \E i \in at : Place(listed, at, rank, i) = n
      /\ \A i, j \in at : Place(listed, at, rank, i) = Place(listed, at, rank, j) => i = j
  BY <1>2, <1>3, <1>4, PlaceFact
<1>6. \A n \in 1..c : idx[n] \in at /\ Place(listed, at, rank, idx[n]) = n
  BY <1>5
<1>7. s = [n \in 1..c |-> listed[idx[n]]]
  BY DEF Sorted, at
<1> HIDE DEF c, idx, s
<1>8. s \in [1..c -> keep] /\ DOMAIN s = 1..c /\ \A n \in 1..c : s[n] = listed[idx[n]]
  BY <1>2, <1>6, <1>7
<1>9. s \in Seq(keep) /\ Len(s) = c
  BY <1>5, <1>8
<1>10. ToSet(s) = keep
  <2>1. ASSUME NEW x \in keep PROVE \E n \in 1..c : s[n] = x
    <3>1. PICK i \in DOMAIN listed : listed[i] = x
      BY <1>1
    <3>2. i \in at
      BY <3>1 DEF at, Kept
    <3>3. idx[Place(listed, at, rank, i)] = i
      BY <1>5, <1>6, <3>2
    <3> QED
      BY <1>5, <1>8, <3>1, <3>2, <3>3
  <2> QED
    BY <1>8, <2>1 DEF ToSet
<1>11. IsInjective(s)
  <2> SUFFICES ASSUME NEW m \in 1..c, NEW n \in 1..c, s[m] = s[n] PROVE m = n
    BY <1>8 DEF IsInjective
  <2>1. idx[m] = idx[n]
    BY <1>1, <1>2, <1>6, <1>8
  <2> QED
    BY <1>6, <2>1
<1>12. ASSUME NEW m \in 1..c, NEW n \in 1..c, m < n PROVE rank[s[m]] <= rank[s[n]]
  <2>1. ~Before(listed, rank, idx[n], idx[m])
    BY <1>5, <1>6, <1>12
  <2>2. rank[listed[idx[m]]] \in Int /\ rank[listed[idx[n]]] \in Int
    BY <1>4, <1>6
  <2> QED
    BY <1>8, <2>1, <2>2 DEF Before
<1> QED
  BY <1>5, <1>6, <1>8, <1>9, <1>10, <1>11, <1>12 DEF c, s, at

(* The place of an element that is kept, if no other has its rank, is the  *)
(* number of the elements that are not above it: in any list it is the same. *)
LEMMA PlaceByRank ==
  ASSUME IsFiniteSet(world), NEW listed \in Lists, NEW keep \in SUBSET world,
         NEW rank, Comparable(rank, keep),
         \A x, y \in keep : rank[x] = rank[y] => x = y,
         NEW i \in Kept(listed, keep)
  PROVE  Place(listed, Kept(listed, keep), rank, i) =
           Cardinality({x \in keep : rank[x] <= rank[listed[i]]})
<1> DEFINE at == Kept(listed, keep)
           U == {j \in at : j = i \/ Before(listed, rank, j, i)}
           R == {x \in keep : rank[x] <= rank[listed[i]]}
<1>1. /\ Cardinality(world) \in Nat /\ DOMAIN listed = 1..Cardinality(world)
      /\ \A j, k \in DOMAIN listed : listed[j] = listed[k] => j = k
      /\ \A x \in world : \E j \in DOMAIN listed : listed[j] = x
  BY ListFact
<1>2. \A j \in at : j \in DOMAIN listed /\ j \in Nat /\ listed[j] \in keep /\ rank[listed[j]] \in Int
  BY <1>1 DEF Kept, Comparable
<1>3. \A j \in at : j \in U <=> rank[listed[j]] <= rank[listed[i]]
  <2> SUFFICES ASSUME NEW j \in at
               PROVE  j = i \/ Before(listed, rank, j, i) <=> rank[listed[j]] <= rank[listed[i]]
    OBVIOUS
  <2>1. rank[listed[j]] = rank[listed[i]] => j = i
    BY <1>1, <1>2
  <2> QED
    BY <1>2, <2>1 DEF Before
<1>4. R = {listed[j] : j \in U}
  <2>1. ASSUME NEW x \in R PROVE \E j \in U : x = listed[j]
    <3>1. PICK j \in DOMAIN listed : listed[j] = x
      BY <1>1
    <3>2. j \in at
      BY <3>1 DEF Kept
    <3> QED
      BY <1>3, <3>1, <3>2
  <2>2. ASSUME NEW j \in U PROVE listed[j] \in R
    BY <1>2, <1>3
  <2> QED
    BY <2>1, <2>2
<1>5. U \in SUBSET DOMAIN listed
  BY <1>2
<1>6. IsFiniteSet(U)
  <2>1. IsFiniteSet(1..Cardinality(world))
    BY <1>1, FS_Interval
  <2> QED
    BY <1>1, <1>5, <2>1, FS_Subset
<1> HIDE DEF U
<1>7. Cardinality({listed[j] : j \in U}) = Cardinality(U)
  <2>1. \A j, k \in U : listed[j] = listed[k] => j = k
    BY <1>1, <1>5
  <2> QED
    BY <1>5, <1>6, <2>1, PickedCount
<1> QED
  BY <1>4, <1>7 DEF Place, U

(* If no two that are kept have the same rank, they are in the same order  *)
(* whatever the list was.                                                  *)
LEMMA SortedSame ==
  ASSUME IsFiniteSet(world), NEW l1 \in Lists, NEW l2 \in Lists,
         NEW keep \in SUBSET world, NEW rank, Comparable(rank, keep),
         \A x, y \in keep : rank[x] = rank[y] => x = y
  PROVE  Sorted(l1, keep, rank) = Sorted(l2, keep, rank)
<1> DEFINE s1 == Sorted(l1, keep, rank)
           s2 == Sorted(l2, keep, rank)
           NotAbove(x) == {y \in keep : rank[y] <= rank[x]}
<1>1. IsFiniteSet(keep)
  BY FS_Subset
<1>2. ASSUME NEW listed \in Lists
      PROVE  Cardinality(Kept(listed, keep)) = Cardinality(keep)
  <2>1. /\ Sorted(listed, keep, rank) \in Seq(keep) /\ ToSet(Sorted(listed, keep, rank)) = keep
        /\ Len(Sorted(listed, keep, rank)) = Cardinality(Kept(listed, keep))
        /\ Len(Sorted(listed, keep, rank)) \in Nat
        /\ DOMAIN Sorted(listed, keep, rank) = 1..Len(Sorted(listed, keep, rank))
        /\ IsInjective(Sorted(listed, keep, rank))
    BY SortedFact
  <2> DEFINE s == Sorted(listed, keep, rank)
  <2>2. IsFiniteSet(DOMAIN s) /\ Cardinality(DOMAIN s) = Len(s)
    BY <2>1, FS_Interval
  <2> DEFINE D == DOMAIN s
  <2>3. /\ D \in SUBSET DOMAIN s /\ IsFiniteSet(D)
        /\ \A m, n \in D : s[m] = s[n] => m = n
    BY <2>1, <2>2 DEF IsInjective
  <2> HIDE DEF s, D
  <2>4. Cardinality({s[n] : n \in D}) = Cardinality(D)
    BY <2>3, PickedCount
  <2> QED
    BY <2>1, <2>2, <2>4 DEF ToSet, s, D
<1>3. ASSUME NEW listed \in Lists, NEW n \in 1..Cardinality(keep)
      PROVE  /\ Sorted(listed, keep, rank)[n] \in keep
             /\ Cardinality(NotAbove(Sorted(listed, keep, rank)[n])) = n
  <2>1. PICK i \in Kept(listed, keep) :
          Sorted(listed, keep, rank)[n] = listed[i] /\ Place(listed, Kept(listed, keep), rank, i) = n
    BY <1>2, SortedFact
  <2>2. listed[i] \in keep
    BY DEF Kept
  <2> QED
    BY <2>1, <2>2, PlaceByRank
<1>4. ASSUME NEW x \in keep, NEW y \in keep, rank[x] < rank[y]
      PROVE  Cardinality(NotAbove(x)) # Cardinality(NotAbove(y))
  <2>1. rank[x] \in Int /\ rank[y] \in Int /\ \A z \in keep : rank[z] \in Int
    BY DEF Comparable
  <2>2. NotAbove(x) \in SUBSET NotAbove(y) /\ NotAbove(y) \in SUBSET keep
    BY <1>4, <2>1
  <2>3. y \in NotAbove(y) /\ y \notin NotAbove(x)
    BY <1>4, <2>1
  <2> HIDE DEF NotAbove
  <2>4. IsFiniteSet(NotAbove(y))
    BY <1>1, <2>2, FS_Subset
  <2> QED
    BY <2>2, <2>3, <2>4, FS_Subset
<1>5. \A n \in 1..Cardinality(keep) : s1[n] = s2[n]
  <2> SUFFICES ASSUME NEW n \in 1..Cardinality(keep) PROVE s1[n] = s2[n]
    OBVIOUS
  <2>1. /\ s1[n] \in keep /\ s2[n] \in keep
        /\ Cardinality(NotAbove(s1[n])) = Cardinality(NotAbove(s2[n]))
    BY <1>3
  <2>2. ~(rank[s1[n]] < rank[s2[n]]) /\ ~(rank[s2[n]] < rank[s1[n]])
    <3> HIDE DEF NotAbove, s1, s2
    <3> QED
      BY <1>4, <2>1
  <2>3. rank[s1[n]] \in Int /\ rank[s2[n]] \in Int
    BY <2>1 DEF Comparable
  <2> QED
    BY <2>1, <2>2, <2>3
<1>6. /\ s1 \in Seq(keep) /\ Len(s1) = Cardinality(keep)
      /\ s2 \in Seq(keep) /\ Len(s2) = Cardinality(keep)
  BY <1>2, SortedFact
<1> HIDE DEF s1, s2
<1>7. s1 = s2
  BY <1>5, <1>6
<1> QED
  BY <1>7 DEF s1, s2

(* The first that fits is one of those that fit, and there is none only if *)
(* no object fits.                                                         *)
LEMMA FirstOfFact ==
  ASSUME IsFiniteSet(world), NEW listed \in Lists, NEW fits \in SUBSET world
  PROVE  \/ fits = {} /\ FirstOf(listed, fits) = Answer(<< >>)
         \/ \E x \in fits : FirstOf(listed, fits) = Answer(<<x>>)
<1> DEFINE at == Kept(listed, fits)
<1>1. /\ DOMAIN listed \subseteq Nat
      /\ \A x \in world : \E i \in DOMAIN listed : listed[i] = x
  BY ListFact
<1>2. at \subseteq Nat /\ at = {} <=> fits = {}
  BY <1>1 DEF Kept
<1>3. CASE at = {}
  BY <1>2, <1>3 DEF FirstOf
<1>4. CASE at # {}
  <2>1. LeastOf(at) \in at
    BY <1>1, <1>4, LeastOfFact DEF Kept
  <2>2. listed[LeastOf(at)] \in fits
    BY <2>1 DEF Kept
  <2> QED
    BY <1>4, <2>2 DEF FirstOf
<1> QED
  BY <1>3, <1>4

(* What is shown of all events: the list up to some index, which is not    *)
(* behind Cap, and is the last one only if a limit is not met before.      *)
IsPrefixTo(listed, shown, k) ==
  /\ Len(shown) = k
  /\ \A n \in 1..k : shown[n] = listed[n]
  /\ k <= Cap
  /\ k = Len(listed) \/ k = Cap \/ Warnings(listed, k) >= Target

LEMMA LimitFact ==
  ASSUME NEW S, NEW listed \in Seq(S)
  PROVE  /\ Limit(listed) \in Seq(S)
         /\ \E k \in 0..Len(listed) : IsPrefixTo(listed, Limit(listed), k)
<1> DEFINE stops == {n \in DOMAIN listed : n >= Cap \/ Warnings(listed, n) >= Target}
<1>1. Len(listed) \in Nat /\ DOMAIN listed = 1..Len(listed) /\ Cap \in Nat /\ Cap # 0
  BY ResolversAssumption
<1>2. CASE stops = {}
  <2>1. Limit(listed) = listed
    BY <1>2 DEF Limit
  <2>2. Len(listed) <= Cap
    <3>1. Len(listed) = 0 \/ Len(listed) \in DOMAIN listed
      BY <1>1
    <3> QED
      BY <1>1, <1>2, <3>1
  <2>3. IsPrefixTo(listed, Limit(listed), Len(listed)) /\ Len(listed) \in 0..Len(listed)
    BY <1>1, <2>1, <2>2 DEF IsPrefixTo
  <2> QED
    BY <2>1, <2>3
<1>3. CASE stops # {}
  <2> DEFINE k == LeastOf(stops)
  <2>1. k \in stops /\ \A m \in stops : k <= m
    <3>1. stops \subseteq Nat
      BY <1>1
    <3> HIDE DEF stops
    <3> QED
      BY <1>3, <3>1, LeastOfFact
  <2>2. k \in 1..Len(listed) /\ (k >= Cap \/ Warnings(listed, k) >= Target)
    BY <1>1, <2>1
  <2>3. Limit(listed) = SubSeq(listed, 1, k)
    BY <1>3 DEF Limit
  <2>4. k <= Cap
    <3>1. Cap \in 1..Len(listed) => Cap \in stops
      BY <1>1
    <3> HIDE DEF k, stops
    <3> QED
      BY <1>1, <2>1, <2>2, <3>1
  <2> HIDE DEF k, stops
  <2>5. /\ SubSeq(listed, 1, k) \in Seq(S) /\ Len(SubSeq(listed, 1, k)) = k
        /\ \A n \in 1..k : SubSeq(listed, 1, k)[n] = listed[n]
    BY <1>1, <2>2
  <2>6. k = Cap \/ Warnings(listed, k) >= Target
    BY <1>1, <2>2, <2>4
  <2>7. IsPrefixTo(listed, SubSeq(listed, 1, k), k)
    BY <2>4, <2>5, <2>6 DEF IsPrefixTo
  <2>8. k \in 0..Len(listed)
    BY <1>1, <2>2
  <2> QED
    BY <2>3, <2>5, <2>7, <2>8
<1> QED
  BY <1>2, <1>3

-----------------------------------------------------------------------------
(* IDs and their strings                                                   *)

Token == STRING \cup {Sep}

(* One part of a string, its separator and the rest. *)
LEMMA PartFact ==
  ASSUME NEW p \in Seq(Token), NEW r \in Seq(Token)
  PROVE  /\ p \o <<Sep>> \o r \in Seq(Token)
         /\ Len(p \o <<Sep>> \o r) = Len(p) + 1 + Len(r)
         /\ \A n \in 1..Len(p) : (p \o <<Sep>> \o r)[n] = p[n]
         /\ (p \o <<Sep>> \o r)[Len(p) + 1] = Sep
         /\ \A n \in 1..Len(r) : (p \o <<Sep>> \o r)[Len(p) + 1 + n] = r[n]
<1>1. Sep \in Token
  BY DEF Token
<1> DEFINE h == p \o <<Sep>>
<1>2. /\ h \in Seq(Token) /\ Len(h) = Len(p) + 1 /\ Len(p) \in Nat /\ Len(r) \in Nat
      /\ \A n \in 1..Len(p) : h[n] = p[n]
      /\ h[Len(p) + 1] = Sep
  BY <1>1
<1> HIDE DEF h
<1>3. /\ h \o r \in Seq(Token) /\ Len(h \o r) = Len(h) + Len(r)
      /\ \A n \in 1..Len(h) : (h \o r)[n] = h[n]
      /\ \A n \in 1..Len(r) : (h \o r)[Len(h) + n] = r[n]
  BY <1>2
<1>4. /\ \A n \in 1..Len(p) : n \in 1..Len(h) /\ h[n] = p[n]
      /\ Len(p) + 1 \in 1..Len(h) /\ h[Len(p) + 1] = Sep
  BY <1>2
<1>5. /\ \A n \in 1..Len(p) : (h \o r)[n] = p[n]
      /\ (h \o r)[Len(p) + 1] = Sep
      /\ \A n \in 1..Len(r) : (h \o r)[Len(p) + 1 + n] = r[n]
  BY <1>2, <1>3, <1>4
<1> QED
  BY <1>2, <1>3, <1>5 DEF h

(* The string of an ID, token by token: s consists of a, k, m and x, with  *)
(* separators between them at p1, p2 and p3.                               *)
Consists(s, a, k, m, x, p1, p2, p3) ==
  /\ s \in Seq(Token) /\ Len(s) = p3 + Len(x)
  /\ \A n \in 1..Len(a) : s[n] = a[n]
  /\ s[p1] = Sep
  /\ \A n \in 1..Len(k) : s[p1 + n] = k[n]
  /\ s[p2] = Sep
  /\ \A n \in 1..Len(m) : s[p2 + n] = m[n]
  /\ s[p3] = Sep
  /\ \A n \in 1..Len(x) : s[p3 + n] = x[n]

LEMMA StringFact ==
  ASSUME NEW a \in Seq(Token), NEW k \in Seq(Token), NEW m \in Seq(Token),
         NEW x \in Seq(Token),
         NEW p1, p1 = Len(a) + 1, NEW p2, p2 = p1 + Len(k) + 1,
         NEW p3, p3 = p2 + Len(m) + 1
  PROVE  Consists(a \o <<Sep>> \o k \o <<Sep>> \o m \o <<Sep>> \o x,
                  a, k, m, x, p1, p2, p3)
<1> DEFINE p == a \o <<Sep>> \o k
           q == p \o <<Sep>> \o m
           s == q \o <<Sep>> \o x
<1>1. a \o <<Sep>> \o k \o <<Sep>> \o m \o <<Sep>> \o x = s
  OBVIOUS
<1>5. /\ Len(a) \in Nat /\ Len(k) \in Nat /\ Len(m) \in Nat /\ Len(x) \in Nat
  OBVIOUS
<1> HIDE DEF p, q, s
<1>2. /\ p \in Seq(Token) /\ Len(p) = Len(a) + 1 + Len(k)
      /\ \A n \in 1..Len(a) : p[n] = a[n]
      /\ p[Len(a) + 1] = Sep
      /\ \A n \in 1..Len(k) : p[Len(a) + 1 + n] = k[n]
  BY PartFact DEF p
<1>3. /\ q \in Seq(Token) /\ Len(q) = Len(p) + 1 + Len(m)
      /\ \A n \in 1..Len(p) : q[n] = p[n]
      /\ q[Len(p) + 1] = Sep
      /\ \A n \in 1..Len(m) : q[Len(p) + 1 + n] = m[n]
  BY <1>2, PartFact DEF q
<1>4. /\ s \in Seq(Token) /\ Len(s) = Len(q) + 1 + Len(x)
      /\ \A n \in 1..Len(q) : s[n] = q[n]
      /\ s[Len(q) + 1] = Sep
      /\ \A n \in 1..Len(x) : s[Len(q) + 1 + n] = x[n]
  BY <1>3, PartFact DEF s
<1>6. Len(p) + 1 = p2 /\ Len(q) + 1 = p3 /\ Len(a) + 1 = p1 /\ Len(s) = p3 + Len(x)
  BY <1>2, <1>3, <1>4, <1>5
<1>7. \A n \in 1..Len(p) : n \in 1..Len(q) /\ s[n] = p[n]
  BY <1>2, <1>3, <1>4, <1>5
<1>8. /\ \A n \in 1..Len(a) : s[n] = a[n]
      /\ s[p1] = Sep
      /\ \A n \in 1..Len(k) : s[p1 + n] = k[n]
  <2>1. \A n \in 1..Len(a) : n \in 1..Len(p)
    BY <1>2, <1>5
  <2>2. Len(a) + 1 \in 1..Len(p)
    BY <1>2, <1>5
  <2>3. \A n \in 1..Len(k) : Len(a) + 1 + n \in 1..Len(p)
    BY <1>2, <1>5
  <2> QED
    BY <1>2, <1>6, <1>7, <2>1, <2>2, <2>3
<1>9. /\ s[p2] = Sep
      /\ \A n \in 1..Len(m) : s[p2 + n] = m[n]
  <2>1. Len(p) + 1 \in 1..Len(q) /\ \A n \in 1..Len(m) : Len(p) + 1 + n \in 1..Len(q)
    BY <1>2, <1>3, <1>5
  <2> QED
    BY <1>3, <1>4, <1>6, <2>1
<1>10. s[p3] = Sep /\ \A n \in 1..Len(x) : s[p3 + n] = x[n]
  BY <1>4, <1>6
<1> QED
  BY <1>1, <1>4, <1>6, <1>8, <1>9, <1>10 DEF Consists

(* Three places of the string have a separator, and further ones if the    *)
(* name has one.                                                           *)
SeparatedAt(s, x, p1, p2, p3) ==
  /\ IsFiniteSet(Separators(s))
  /\ p1 \in Nat /\ p2 \in Nat /\ p3 \in Nat /\ p1 < p2 /\ p2 < p3
  /\ {p1, p2, p3} \subseteq Separators(s)
  /\ Sep \notin ToSet(x) => Separators(s) = {p1, p2, p3}
  /\ Sep \in ToSet(x) => \E i \in Separators(s) : i \notin {p1, p2, p3}

LEMMA SeparatorsFact ==
  ASSUME NEW a \in Seq(Token), NEW k \in Seq(Token), NEW m \in Seq(Token),
         NEW x \in Seq(Token),
         NEW p1, p1 = Len(a) + 1, NEW p2, p2 = p1 + Len(k) + 1,
         NEW p3, p3 = p2 + Len(m) + 1,
         NEW s, Consists(s, a, k, m, x, p1, p2, p3),
         Sep \notin ToSet(a) \cup ToSet(k) \cup ToSet(m)
  PROVE  SeparatedAt(s, x, p1, p2, p3)
<1>1. /\ Len(a) \in Nat /\ Len(k) \in Nat /\ Len(m) \in Nat /\ Len(x) \in Nat
      /\ DOMAIN a = 1..Len(a) /\ DOMAIN k = 1..Len(k) /\ DOMAIN m = 1..Len(m)
      /\ DOMAIN x = 1..Len(x)
  OBVIOUS
<1>2. p1 \in Nat /\ p2 \in Nat /\ p3 \in Nat /\ 0 < p1 /\ p1 < p2 /\ p2 < p3
  BY <1>1
<1>3. DOMAIN s = 1..Len(s) /\ Len(s) \in Nat /\ Len(s) = p3 + Len(x)
  BY DEF Consists
<1>4. IsFiniteSet(Separators(s))
  <2>1. IsFiniteSet(1..Len(s))
    BY <1>3, FS_Interval
  <2>2. Separators(s) \in SUBSET (1..Len(s))
    BY <1>3 DEF Separators
  <2> QED
    BY <2>1, <2>2, FS_Subset
<1>5. {p1, p2, p3} \subseteq Separators(s)
  BY <1>1, <1>2, <1>3 DEF Separators, Consists
<1>6. /\ \A n \in 1..Len(a) : a[n] # Sep
      /\ \A n \in 1..Len(k) : k[n] # Sep
      /\ \A n \in 1..Len(m) : m[n] # Sep
  BY <1>1 DEF ToSet
<1>7. ASSUME NEW i \in Separators(s), i \notin {p1, p2, p3}
      PROVE  Sep \in ToSet(x)
  <2>1. i \in 1..Len(s) /\ s[i] = Sep
    BY <1>3 DEF Separators
  <2>2. i \notin 1..Len(a)
    BY <1>6, <2>1 DEF Consists
  <2>3. i - p1 \notin 1..Len(k)
    <3>1. p1 + (i - p1) = i
      BY <1>2, <2>1
    <3>2. ASSUME NEW n \in 1..Len(k) PROVE s[p1 + n] # Sep
      <4>1. s[p1 + n] = k[n]
        BY DEF Consists
      <4> QED
        BY <1>6, <4>1
    <3> QED
      BY <2>1, <3>1, <3>2
  <2>4. i - p2 \notin 1..Len(m)
    <3>1. p2 + (i - p2) = i
      BY <1>2, <2>1
    <3>2. ASSUME NEW n \in 1..Len(m) PROVE s[p2 + n] # Sep
      <4>1. s[p2 + n] = m[n]
        BY DEF Consists
      <4> QED
        BY <1>6, <4>1
    <3> QED
      BY <2>1, <3>1, <3>2
  <2>5. i > p3
    BY <1>1, <1>2, <1>7, <2>1, <2>2, <2>3, <2>4
  <2>6. i - p3 \in 1..Len(x) /\ i = p3 + (i - p3)
    BY <1>1, <1>2, <1>3, <2>1, <2>5
  <2>7. x[i - p3] = Sep
    BY <2>1, <2>6 DEF Consists
  <2> QED
    BY <1>1, <2>6, <2>7 DEF ToSet
<1>8. ASSUME Sep \in ToSet(x)
      PROVE  \E i \in Separators(s) : i \notin {p1, p2, p3}
  <2>1. PICK n \in 1..Len(x) : x[n] = Sep
    BY <1>1, <1>8 DEF ToSet
  <2>2. p3 + n \in 1..Len(s) /\ p3 + n > p3
    BY <1>1, <1>2, <1>3, <2>1
  <2>3. s[p3 + n] = Sep
    BY <2>1 DEF Consists
  <2>4. p3 + n \in Separators(s)
    BY <1>3, <2>2, <2>3 DEF Separators
  <2>5. p3 + n \notin {p1, p2, p3}
    BY <1>2, <2>2
  <2> QED
    BY <2>4, <2>5
<1> QED
  BY <1>2, <1>4, <1>5, <1>7, <1>8 DEF SeparatedAt

(* A slice of a string that agrees with another string is that string. *)
LEMMA SliceFact ==
  ASSUME NEW s \in Seq(Token), NEW p \in Seq(Token), NEW l \in Nat, NEW r,
         r = l + Len(p), r <= Len(s), \A n \in 1..Len(p) : s[l + n] = p[n]
  PROVE  SubSeq(s, l + 1, r) = p
<1> DEFINE t == SubSeq(s, l + 1, r)
<1>1. Len(p) \in Nat /\ Len(s) \in Nat /\ r \in Nat
  OBVIOUS
<1>2. t \in Seq(Token) /\ Len(t) = Len(p)
  BY <1>1
<1>3. ASSUME NEW n \in 1..Len(p) PROVE t[n] = p[n]
  <2>1. t[n] = s[(l + 1) + n - 1]
    BY <1>1
  <2>2. (l + 1) + n - 1 = l + n
    BY <1>1
  <2> QED
    BY <2>1, <2>2
<1> HIDE DEF t
<1>4. t = p
  BY <1>2, <1>3
<1> QED
  BY <1>4 DEF t

LEMMA OneMore ==
  ASSUME NEW A, IsFiniteSet(A), NEW x, x \notin A
  PROVE  IsFiniteSet(A \cup {x}) /\ Cardinality(A \cup {x}) = Cardinality(A) + 1
BY FS_AddElement

(* Three separators are found in their order. *)
LEMMA ThreeFact ==
  ASSUME NEW p1 \in Nat, NEW p2 \in Nat, NEW p3 \in Nat, p1 < p2, p2 < p3,
         NEW T, IsFiniteSet(T), {p1, p2, p3} \subseteq T
  PROVE  /\ Cardinality(T) = 3 => T = {p1, p2, p3}
         /\ T = {p1, p2, p3} =>
              /\ Cardinality(T) = 3
              /\ \A f : f = (CHOOSE g \in [1..3 -> T] : g[1] < g[2] /\ g[2] < g[3])
                          => f[1] = p1 /\ f[2] = p2 /\ f[3] = p3
<1>1. IsFiniteSet({p1, p2, p3}) /\ Cardinality({p1, p2, p3}) = 3
  <2>1. IsFiniteSet({p1}) /\ Cardinality({p1}) = 1
    BY FS_Singleton
  <2>2. IsFiniteSet({p1} \cup {p2}) /\ Cardinality({p1} \cup {p2}) = 2
    <3>1. p2 \notin {p1}
      OBVIOUS
    <3> QED
      BY <2>1, <3>1, OneMore
  <2>3. /\ IsFiniteSet(({p1} \cup {p2}) \cup {p3})
        /\ Cardinality(({p1} \cup {p2}) \cup {p3}) = 3
    <3> DEFINE A == {p1} \cup {p2}
    <3>1. p3 \notin A /\ IsFiniteSet(A) /\ Cardinality(A) = 2
      BY <2>2
    <3> HIDE DEF A
    <3>2. IsFiniteSet(A \cup {p3}) /\ Cardinality(A \cup {p3}) = 3
      BY <3>1, OneMore
    <3> QED
      BY <3>2 DEF A
  <2>4. ({p1} \cup {p2}) \cup {p3} = {p1, p2, p3}
    OBVIOUS
  <2> QED
    BY <2>3, <2>4
<1>2. Cardinality(T) = 3 => T = {p1, p2, p3}
  <2>1. {p1, p2, p3} \in SUBSET T
    OBVIOUS
  <2> QED
    BY <1>1, <2>1, FS_Subset
<1>3. ASSUME T = {p1, p2, p3}
      PROVE  \A f : f = (CHOOSE g \in [1..3 -> T] : g[1] < g[2] /\ g[2] < g[3])
                      => f[1] = p1 /\ f[2] = p2 /\ f[3] = p3
  <2> DEFINE Rises(g) == g[1] < g[2] /\ g[2] < g[3]
             h == [n \in 1..3 |-> IF n = 1 THEN p1 ELSE IF n = 2 THEN p2 ELSE p3]
             f == CHOOSE g \in [1..3 -> T] : Rises(g)
  <2>1. h \in [1..3 -> T] /\ Rises(h)
    BY <1>3
  <2> HIDE DEF h
  <2>2. f \in [1..3 -> T] /\ Rises(f)
    <3> HIDE DEF Rises
    <3> QED
      BY <2>1, Zenon
  <2> HIDE DEF f
  <2>3. f[1] \in T /\ f[2] \in T /\ f[3] \in T
    BY <2>2
  <2>4. f[1] = p1 /\ f[2] = p2 /\ f[3] = p3
    BY <1>3, <2>2, <2>3
  <2> QED
    BY <2>4 DEF f
<1> QED
  BY <1>1, <1>2, <1>3

(* A record that ReferenceID makes: strings, with separators in the name   *)
(* at most.                                                                *)
IsID(id) ==
  /\ id.av \in Seq(Token) /\ id.kind \in Seq(Token) /\ id.ns \in Seq(Token)
  /\ id.name \in Seq(Token)
  /\ Sep \notin ToSet(id.av) \cup ToSet(id.kind) \cup ToSet(id.ns)

(* An ID is read back from its string, unless its name has a separator:    *)
(* then what is read is no ID.                                             *)
LEMMA ParseFact ==
  ASSUME NEW id, IsID(id)
  PROVE  ParseReferenceID(String(id)) =
           IF Sep \in ToSet(id.name) THEN Malformed
           ELSE [av |-> id.av, kind |-> id.kind, ns |-> id.ns, name |-> id.name]
<1> DEFINE a == id.av
           k == id.kind
           m == id.ns
           x == id.name
           p1 == Len(a) + 1
           p2 == p1 + Len(k) + 1
           p3 == p2 + Len(m) + 1
           s == String(id)
           at == CHOOSE f \in [1..3 -> Separators(s)] : f[1] < f[2] /\ f[2] < f[3]
<1>1. /\ a \in Seq(Token) /\ k \in Seq(Token) /\ m \in Seq(Token) /\ x \in Seq(Token)
      /\ Sep \notin ToSet(a) \cup ToSet(k) \cup ToSet(m)
  BY DEF IsID
<1>2. s = a \o <<Sep>> \o k \o <<Sep>> \o m \o <<Sep>> \o x
  BY DEF String
<1>3. ParseReferenceID(s) =
        IF Cardinality(Separators(s)) # 3 THEN Malformed
        ELSE [av   |-> SubSeq(s, 1, at[1] - 1),
              kind |-> SubSeq(s, at[1] + 1, at[2] - 1),
              ns   |-> SubSeq(s, at[2] + 1, at[3] - 1),
              name |-> SubSeq(s, at[3] + 1, Len(s))]
  BY DEF ParseReferenceID
<1>4. p1 = Len(a) + 1 /\ p2 = p1 + Len(k) + 1 /\ p3 = p2 + Len(m) + 1
  OBVIOUS
<1> HIDE DEF a, k, m, x, s, p1, p2, p3
<1>5. Consists(s, a, k, m, x, p1, p2, p3)
  BY <1>1, <1>2, <1>4, StringFact
<1>11. SeparatedAt(s, x, p1, p2, p3)
  BY <1>1, <1>4, <1>5, SeparatorsFact
<1>6. /\ IsFiniteSet(Separators(s))
      /\ p1 \in Nat /\ p2 \in Nat /\ p3 \in Nat /\ p1 < p2 /\ p2 < p3
      /\ {p1, p2, p3} \subseteq Separators(s)
      /\ Sep \notin ToSet(x) => Separators(s) = {p1, p2, p3}
      /\ Sep \in ToSet(x) => \E i \in Separators(s) : i \notin {p1, p2, p3}
  BY <1>11 DEF SeparatedAt
<1>7. CASE Sep \in ToSet(x)
  <2>1. Cardinality(Separators(s)) # 3
    BY <1>6, <1>7, ThreeFact
  <2> QED
    BY <1>3, <1>7, <2>1 DEF s, x
<1>8. CASE Sep \notin ToSet(x)
  <2>1. /\ Cardinality(Separators(s)) = 3
        /\ \A f : f = at => f[1] = p1 /\ f[2] = p2 /\ f[3] = p3
    BY <1>6, <1>8, ThreeFact
  <2>2. at[1] = p1 /\ at[2] = p2 /\ at[3] = p3
    BY <2>1
  <2>3. /\ Len(a) \in Nat /\ Len(k) \in Nat /\ Len(m) \in Nat /\ Len(x) \in Nat
        /\ s \in Seq(Token) /\ Len(s) = p3 + Len(x)
    BY <1>1, <1>5 DEF Consists
  <2>4. SubSeq(s, 1, p1 - 1) = a
    <3>1. p1 - 1 = Len(a) /\ Len(a) <= Len(s)
      BY <1>4, <2>3
    <3>2. \A n \in 1..Len(a) : s[n] = a[n]
      BY <1>5 DEF Consists
    <3> QED
      BY <1>1, <2>3, <3>1, <3>2, SliceFact
  <2>5. SubSeq(s, p1 + 1, p2 - 1) = k
    <3>1. p2 - 1 = p1 + Len(k) /\ p1 + Len(k) <= Len(s)
      BY <1>4, <1>6, <2>3
    <3>2. \A n \in 1..Len(k) : s[p1 + n] = k[n]
      BY <1>5 DEF Consists
    <3> QED
      BY <1>1, <1>6, <2>3, <3>1, <3>2, SliceFact
  <2>6. SubSeq(s, p2 + 1, p3 - 1) = m
    <3>1. p3 - 1 = p2 + Len(m) /\ p2 + Len(m) <= Len(s)
      BY <1>4, <1>6, <2>3
    <3>2. \A n \in 1..Len(m) : s[p2 + n] = m[n]
      BY <1>5 DEF Consists
    <3> QED
      BY <1>1, <1>6, <2>3, <3>1, <3>2, SliceFact
  <2>7. SubSeq(s, p3 + 1, Len(s)) = x
    <3>1. \A n \in 1..Len(x) : s[p3 + n] = x[n]
      BY <1>5 DEF Consists
    <3> QED
      BY <1>1, <1>6, <2>3, <3>1, SliceFact
  <2> QED
    BY <1>3, <1>8, <2>1, <2>2, <2>4, <2>5, <2>6, <2>7 DEF s, a, k, m, x
<1> QED
  BY <1>7, <1>8

-----------------------------------------------------------------------------
(* The inductive invariant of the answers                                  *)

(* A client asks the fields of a kind, or for an ID that it was given. *)
IsQuestion(q) ==
  \/ q \in Fields
  \/ /\ kind = "resource"
     /\ \E x \in Objects["resource"] :
          q = [f |-> "kubernetesResource", id |-> String(ReferenceID(x))]

(* The definition that was looked up, by its name or in a list. *)
IsDefinition(of, a) ==
  \/ \E x \in world : /\ x.name = Guess(of)
                      /\ a = IF x.defines = of THEN Answer(<<x>>) ELSE Answer(<< >>)
  \/ \E l \in Lists : a = FirstOf(l, {x \in world : x.defines = of})

(* What the goroutines of Owners or Objects have put together. *)
IsGathered(f, a) ==
  /\ f \in {"owners", "objects"}
  /\ a.nodes \in Seq(Objects[kind]) /\ a.total = Len(a.nodes) /\ IsInjective(a.nodes)
  /\ a.err = NoError =>
       {x.name : x \in ToSet(a.nodes)} = {ObjectRefs[i].name : i \in Followed(f)}

(* a is an answer to q for some order in which the cache lists the objects *)
(* that exist: this is what page keeps, and every property follows from it. *)
IsAnswer(q, a) ==
  \/ a = Failed("server")
  \/ q.f = "revisions" /\ \E l \in Lists : a = Revisions(q.uid, l)
  \/ q.f = "activeRevision" /\ \E l \in Lists : a = ActiveRevision(q.uid, l)
  \/ q.f = "packageRevisions" /\ \E l \in Lists : a = PackageRevisions(q.owner, q.active, l)
  \/ q.f = "definitions" /\ \E l \in Lists : a = Definitions(q.revision, q.dangling, l)
  \/ q.f = "definition" /\ IsDefinition(q.of, a)
  \/ q.f = "definitionOfXR" /\ \E l \in Lists : a = FirstOf(l, {x \in world : x.defines = q.of})
  \/ q.f = "definitionOfClaim" /\ \E l \in Lists : a = FirstOf(l, {x \in world : x.claims = q.of})
  \/ q.f = "kubernetesResources" /\ \E l \in Lists : a = KubernetesResources(q.ns, l)
  \/ q.f = "definedResources" /\ \E l \in Lists : a = DefinedResources(l)
  \/ q.f = "definedByXRD" /\ \E l \in Lists : a = DefinedByXRD(q.ready, q.ns, l)
  \/ q.f = "kubernetesResource" /\ a = KubernetesResource(ParseReferenceID(q.id))
  \/ q.f = "allEvents" /\ \E l \in Lists : a = AllEvents(l)
  \/ q.f = "eventsOf" /\ \E l \in Lists : a = EventsOf(q.ref, l)
  \/ q.f = "controller" /\ a = Controller
  \/ q.f = "referent" /\ a = Referent(q.name, q.lenient)
  \/ IsGathered(q.f, a)

PageOK ==
  /\ IsFiniteSet(DOMAIN page) /\ Cardinality(DOMAIN page) <= MaxAsked
  /\ \A q \in DOMAIN page : IsQuestion(q) /\ IsAnswer(q, page[q])

(* What has been there since a definition was asked for defines the kind. *)
LookupIsFaithful ==
  /\ kind = "definition"
  /\ lookup \in [step : {"get", "list"}, of : GroupKinds, kept : SUBSET world]
  /\ \A x \in lookup.kept : x.defines = lookup.of

GatherState ==
  [step : {"gather"}, of : {"owners", "objects"}, kept : SUBSET world,
   todo : SUBSET DOMAIN ObjectRefs, nodes : Seq(Objects[kind]),
   err : {NoError, "server", "model", "not found"}]

(* The references whose goroutines are done. *)
Gathered == Followed(lookup.of) \ lookup.todo

(* Each node is of a reference of its own; what was there all the time and *)
(* is referred to is among them, unless the server has failed; and if      *)
(* there is no error they are all there.                                   *)
GatherIsFaithful ==
  /\ kind = "referent"
  /\ lookup \in GatherState
  /\ lookup.todo \subseteq Followed(lookup.of)
  /\ IsInjective(lookup.nodes)
  /\ \A x \in ToSet(lookup.nodes) : \E i \in Gathered : x.name = ObjectRefs[i].name
  /\ lookup.err = NoError =>
       \A i \in Gathered : \E x \in ToSet(lookup.nodes) : x.name = ObjectRefs[i].name
  /\ lookup.err # "server" =>
       \A x \in lookup.kept, i \in Gathered :
         /\ ObjectRefs[i].name = x.name
         /\ lookup.of = "owners" => Models(x)
         => x \in ToSet(lookup.nodes)

QueryInv ==
  /\ kind \in Kinds
  /\ world \subseteq Objects[kind]
  /\ NamesUnique(world)
  /\ PageOK
  /\ lookup = Idle \/ LookupIsFaithful \/ GatherIsFaithful

-----------------------------------------------------------------------------
(* A step that changes no object leaves an answer what it is.              *)

LEMMA ListsStay ==
  ASSUME UNCHANGED <<kind, world>>
  PROVE  /\ Lists' = Lists
         /\ ByID' = ByID /\ ByIDReversed' = ByIDReversed /\ ByTime' = ByTime
BY DEF Lists, ByID, ByIDReversed, ByTime

LEMMA ConnectionsStay ==
  ASSUME UNCHANGED <<kind, world>>
  PROVE  /\ \A l, u : Revisions(u, l)' = Revisions(u, l)
         /\ \A l, o, b : PackageRevisions(o, b, l)' = PackageRevisions(o, b, l)
         /\ \A l, r, b : Definitions(r, b, l)' = Definitions(r, b, l)
         /\ \A l, r, n : DefinedByXRD(r, n, l)' = DefinedByXRD(r, n, l)
         /\ \A l, n : KubernetesResources(n, l)' = KubernetesResources(n, l)
         /\ \A l : DefinedResources(l)' = DefinedResources(l)
<1>1. \A l, k : Connection(l, k)' = Connection(l, k)
  BY ListsStay DEF Connection
<1>2. \A n : InNamespace(n)' = InNamespace(n)
  BY DEF InNamespace
<1>3. \A l, u : Revisions(u, l)' = Revisions(u, l)
  BY ListsStay DEF Revisions, Connection
<1>4. \A l, o, b : PackageRevisions(o, b, l)' = PackageRevisions(o, b, l)
  BY ListsStay DEF PackageRevisions, Connection
<1>5. \A l, r, b : Definitions(r, b, l)' = Definitions(r, b, l)
  BY ListsStay DEF Definitions, Connection
<1>6. \A l, r, n : DefinedByXRD(r, n, l)' = DefinedByXRD(r, n, l)
  BY ListsStay DEF DefinedByXRD, Connection, InNamespace
<1>7. \A l, n : KubernetesResources(n, l)' = KubernetesResources(n, l)
  BY ListsStay DEF KubernetesResources, Connection, InNamespace
<1>8. \A l : DefinedResources(l)' = DefinedResources(l)
  BY ListsStay DEF DefinedResources, Connection
<1> QED
  BY <1>3, <1>4, <1>5, <1>6, <1>7, <1>8

LEMMA OthersStay ==
  ASSUME UNCHANGED <<kind, world>>
  PROVE  /\ \A l, u : ActiveRevision(u, l)' = ActiveRevision(u, l)
         /\ \A l : AllEvents(l)' = AllEvents(l)
         /\ \A l, r : EventsOf(r, l)' = EventsOf(r, l)
         /\ \A id : KubernetesResource(id)' = KubernetesResource(id)
         /\ \A n, b : Referent(n, b)' = Referent(n, b)
         /\ Controller' = Controller
         /\ \A of, a : IsDefinition(of, a)' <=> IsDefinition(of, a)
         /\ \A f, a : IsGathered(f, a)' <=> IsGathered(f, a)
<1>1. \A l, u : ActiveRevision(u, l)' = ActiveRevision(u, l)
  BY DEF ActiveRevision
<1>2. \A l : AllEvents(l)' = AllEvents(l)
  BY ListsStay DEF AllEvents
<1>3. \A l, r : EventsOf(r, l)' = EventsOf(r, l)
  BY ListsStay DEF EventsOf
<1>4. \A id : KubernetesResource(id)' = KubernetesResource(id)
  BY DEF KubernetesResource
<1>5. \A n, b : Referent(n, b)' = Referent(n, b)
  BY DEF Referent, Named
<1>6. Controller' = Controller
  BY DEF Controller, Referent, Named
<1>7. \A of, a : IsDefinition(of, a)' <=> IsDefinition(of, a)
  BY ListsStay DEF IsDefinition
<1>8. \A f, a : IsGathered(f, a)' <=> IsGathered(f, a)
  BY DEF IsGathered
<1> QED
  BY <1>1, <1>2, <1>3, <1>4, <1>5, <1>6, <1>7, <1>8

LEMMA AnswerStays ==
  ASSUME UNCHANGED <<kind, world>>
  PROVE  /\ \A q : IsQuestion(q)' <=> IsQuestion(q)
         /\ \A q, a : IsAnswer(q, a)' <=> IsAnswer(q, a)
<1>1. \A q : IsQuestion(q)' <=> IsQuestion(q)
  BY DEF IsQuestion, Fields
<1>2. ASSUME NEW q, NEW a PROVE IsAnswer(q, a)' <=> IsAnswer(q, a)
  BY ListsStay, ConnectionsStay, OthersStay DEF IsAnswer
<1> QED
  BY <1>1, <1>2

(* An answer to a question of a client is added to the page. *)
LEMMA ReplyStep ==
  ASSUME PageOK, NEW q, NEW a, IsQuestion(q), IsAnswer(q, a), Reply(q, a)
  PROVE  PageOK'
<1> DEFINE D == DOMAIN page
<1>1. IsFiniteSet(D) /\ Cardinality(D) \in Nat /\ Cardinality(D) <= MaxAsked
  BY FS_CardinalityType DEF PageOK
<1>2. /\ UNCHANGED <<kind, world>>
      /\ page' = [p \in D \cup {q} |-> IF p = q THEN a ELSE page[p]]
      /\ q \in D \/ Cardinality(D) < MaxAsked
  BY DEF Reply
<1>3. DOMAIN page' = D \cup {q}
  BY <1>2
<1>4. \A p \in D : IsQuestion(p) /\ IsAnswer(p, page[p])
  BY DEF PageOK
<1> HIDE DEF D
<1>5. IsFiniteSet(D \cup {q}) /\ Cardinality(D \cup {q}) <= MaxAsked
  <2>1. /\ IsFiniteSet(D \cup {q})
        /\ Cardinality(D \cup {q}) = IF q \in D THEN Cardinality(D) ELSE Cardinality(D) + 1
    BY <1>1, FS_AddElement
  <2> QED
    BY <1>1, <1>2, <2>1, ResolversAssumption
<1>6. ASSUME NEW p \in D \cup {q}
      PROVE  IsQuestion(p)' /\ IsAnswer(p, page'[p])
  <2>1. page'[p] = IF p = q THEN a ELSE page[p]
    BY <1>2
  <2>2. IsQuestion(p) /\ IsAnswer(p, page'[p])
    BY <1>4, <2>1
  <2> QED
    BY <1>2, <2>2, AnswerStays
<1> QED
  BY <1>2, <1>3, <1>5, <1>6, AnswerStays DEF PageOK

LEMMA RestStays ==
  ASSUME QueryInv, UNCHANGED <<kind, world>>
  PROVE  /\ kind' \in Kinds /\ world' \subseteq Objects[kind'] /\ NamesUnique(world)'
         /\ UNCHANGED lookup =>
              lookup' = Idle \/ LookupIsFaithful' \/ GatherIsFaithful'
<1>1. NamesUnique(world)'
  BY DEF QueryInv, NamesUnique, SameName
<1>2. UNCHANGED lookup => (LookupIsFaithful => LookupIsFaithful')
  BY DEF LookupIsFaithful
<1>3. UNCHANGED lookup => (GatherIsFaithful => GatherIsFaithful')
  BY DEF GatherIsFaithful, GatherState, Gathered, Followed
<1> QED
  BY <1>1, <1>2, <1>3 DEF QueryInv

(* A field is answered, and what is being looked up goes on or ends. *)
LEMMA AskStep ==
  ASSUME QueryInv, NEW q, NEW a, IsQuestion(q), IsAnswer(q, a), Reply(q, a),
         UNCHANGED lookup \/ lookup' = Idle
  PROVE  QueryInv'
<1>1. UNCHANGED <<kind, world>>
  BY DEF Reply
<1>2. PageOK'
  BY ReplyStep DEF QueryInv
<1> QED
  BY <1>1, <1>2, RestStays DEF QueryInv, Idle

(* What is being looked up changes, and nothing else. *)
LEMMA LookupStep ==
  ASSUME QueryInv, UNCHANGED <<kind, world, page>>,
         LookupIsFaithful' \/ GatherIsFaithful'
  PROVE  QueryInv'
<1>1. PageOK'
  BY AnswerStays DEF QueryInv, PageOK
<1> QED
  BY <1>1, RestStays DEF QueryInv

LEMMA RevisionStep ==
  ASSUME QueryInv, AskRevisions \/ AskActiveRevision \/ AskPackageRevisions
  PROVE  QueryInv'
<1>1. CASE AskRevisions
  <2>1. PICK uid \in UIDs, listed \in Lists :
          Reply([f |-> "revisions", uid |-> uid], Revisions(uid, listed))
    BY <1>1 DEF AskRevisions
  <2>2. IsQuestion([f |-> "revisions", uid |-> uid])
    BY <1>1 DEF AskRevisions, IsQuestion, Fields
  <2>3. IsAnswer([f |-> "revisions", uid |-> uid], Revisions(uid, listed))
    BY DEF IsAnswer
  <2> QED
    BY <1>1, <2>1, <2>2, <2>3, AskStep DEF AskRevisions
<1>2. CASE AskActiveRevision
  <2>1. PICK uid \in UIDs, listed \in Lists :
          Reply([f |-> "activeRevision", uid |-> uid], ActiveRevision(uid, listed))
    BY <1>2 DEF AskActiveRevision
  <2>2. IsQuestion([f |-> "activeRevision", uid |-> uid])
    BY <1>2 DEF AskActiveRevision, IsQuestion, Fields
  <2>3. IsAnswer([f |-> "activeRevision", uid |-> uid], ActiveRevision(uid, listed))
    BY DEF IsAnswer
  <2> QED
    BY <1>2, <2>1, <2>2, <2>3, AskStep DEF AskActiveRevision
<1>3. CASE AskPackageRevisions
  <2>1. PICK owner \in Owners \cup {None}, active \in BOOLEAN, listed \in Lists :
          Reply([f |-> "packageRevisions", owner |-> owner, active |-> active],
                PackageRevisions(owner, active, listed))
    BY <1>3 DEF AskPackageRevisions
  <2> DEFINE q == [f |-> "packageRevisions", owner |-> owner, active |-> active]
  <2>2. IsQuestion(q)
    BY <1>3 DEF AskPackageRevisions, IsQuestion, Fields
  <2>3. IsAnswer(q, PackageRevisions(owner, active, listed))
    BY DEF IsAnswer
  <2> QED
    BY <1>3, <2>1, <2>2, <2>3, AskStep DEF AskPackageRevisions
<1> QED
  BY <1>1, <1>2, <1>3

LEMMA DefinitionStep ==
  ASSUME QueryInv, AskDefinitions \/ AskXRD \/ AskClaimXRD
  PROVE  QueryInv'
<1>1. CASE AskDefinitions
  <2>1. PICK revision \in Owners \cup {None}, dangling \in BOOLEAN, listed \in Lists :
          Reply([f |-> "definitions", revision |-> revision, dangling |-> dangling],
                Definitions(revision, dangling, listed))
    BY <1>1 DEF AskDefinitions
  <2> DEFINE q == [f |-> "definitions", revision |-> revision, dangling |-> dangling]
  <2>2. IsQuestion(q)
    BY <1>1 DEF AskDefinitions, IsQuestion, Fields
  <2>3. IsAnswer(q, Definitions(revision, dangling, listed))
    BY DEF IsAnswer
  <2> QED
    BY <1>1, <2>1, <2>2, <2>3, AskStep DEF AskDefinitions
<1>2. CASE AskXRD
  <2>1. PICK gk \in GroupKinds, listed \in Lists :
          Reply([f |-> "definitionOfXR", of |-> gk],
                FirstOf(listed, {x \in world : x.defines = gk}))
    BY <1>2 DEF AskXRD
  <2> DEFINE q == [f |-> "definitionOfXR", of |-> gk]
  <2>2. IsQuestion(q)
    BY <1>2 DEF AskXRD, IsQuestion, Fields
  <2>3. IsAnswer(q, FirstOf(listed, {x \in world : x.defines = gk}))
    BY DEF IsAnswer
  <2> QED
    BY <1>2, <2>1, <2>2, <2>3, AskStep DEF AskXRD
<1>3. CASE AskClaimXRD
  <2>1. PICK gk \in GroupKinds, listed \in Lists :
          Reply([f |-> "definitionOfClaim", of |-> gk],
                FirstOf(listed, {x \in world : x.claims = gk}))
    BY <1>3 DEF AskClaimXRD
  <2> DEFINE q == [f |-> "definitionOfClaim", of |-> gk]
  <2>2. IsQuestion(q)
    BY <1>3 DEF AskClaimXRD, IsQuestion, Fields
  <2>3. IsAnswer(q, FirstOf(listed, {x \in world : x.claims = gk}))
    BY DEF IsAnswer
  <2> QED
    BY <1>3, <2>1, <2>2, <2>3, AskStep DEF AskClaimXRD
<1> QED
  BY <1>1, <1>2, <1>3

LEMMA ResourceStep ==
  ASSUME QueryInv,
         AskKubernetesResources \/ AskDefinedResources \/ AskDefinedByXRD \/ AskBack
  PROVE  QueryInv'
<1>1. CASE AskKubernetesResources
  <2>1. PICK ns \in Namespaces \cup {AllNamespaces}, listed \in Lists :
          Reply([f |-> "kubernetesResources", ns |-> ns], KubernetesResources(ns, listed))
    BY <1>1 DEF AskKubernetesResources
  <2> DEFINE q == [f |-> "kubernetesResources", ns |-> ns]
  <2>2. IsQuestion(q)
    BY <1>1 DEF AskKubernetesResources, IsQuestion, Fields
  <2>3. IsAnswer(q, KubernetesResources(ns, listed))
    BY DEF IsAnswer
  <2> QED
    BY <1>1, <2>1, <2>2, <2>3, AskStep DEF AskKubernetesResources
<1>2. CASE AskDefinedResources
  <2>1. PICK listed \in Lists : Reply([f |-> "definedResources"], DefinedResources(listed))
    BY <1>2 DEF AskDefinedResources
  <2> DEFINE q == [f |-> "definedResources"]
  <2>2. IsQuestion(q)
    BY <1>2 DEF AskDefinedResources, IsQuestion, Fields
  <2>3. IsAnswer(q, DefinedResources(listed))
    BY DEF IsAnswer
  <2> QED
    BY <1>2, <2>1, <2>2, <2>3, AskStep DEF AskDefinedResources
<1>3. CASE AskDefinedByXRD
  <2>1. PICK ready \in {None, "true", "false"},
             ns \in Namespaces \cup {AllNamespaces}, listed \in Lists :
          Reply([f |-> "definedByXRD", ready |-> ready, ns |-> ns],
                DefinedByXRD(ready, ns, listed))
    BY <1>3 DEF AskDefinedByXRD
  <2> DEFINE q == [f |-> "definedByXRD", ready |-> ready, ns |-> ns]
  <2>2. IsQuestion(q)
    BY <1>3 DEF AskDefinedByXRD, IsQuestion, Fields
  <2>3. IsAnswer(q, DefinedByXRD(ready, ns, listed))
    BY DEF IsAnswer
  <2> QED
    BY <1>3, <2>1, <2>2, <2>3, AskStep DEF AskDefinedByXRD
<1>4. CASE AskBack
  <2>1. PICK x \in Objects["resource"] :
          Reply([f |-> "kubernetesResource", id |-> String(ReferenceID(x))],
                KubernetesResource(ParseReferenceID(String(ReferenceID(x)))))
    BY <1>4 DEF AskBack
  <2> DEFINE q == [f |-> "kubernetesResource", id |-> String(ReferenceID(x))]
  <2>2. IsQuestion(q)
    BY <1>4 DEF AskBack, IsQuestion
  <2>3. IsAnswer(q, KubernetesResource(ParseReferenceID(String(ReferenceID(x)))))
    BY DEF IsAnswer
  <2> QED
    BY <1>4, <2>1, <2>2, <2>3, AskStep DEF AskBack
<1> QED
  BY <1>1, <1>2, <1>3, <1>4

LEMMA EventStep ==
  ASSUME QueryInv, AskEvents
  PROVE  QueryInv'
<1>1. PICK listed \in Lists :
        \/ Reply([f |-> "allEvents"], AllEvents(listed))
        \/ \E ref \in References :
             Reply([f |-> "eventsOf", ref |-> ref], EventsOf(ref, listed))
  BY DEF AskEvents
<1>2. CASE Reply([f |-> "allEvents"], AllEvents(listed))
  <2> DEFINE q == [f |-> "allEvents"]
  <2>1. IsQuestion(q)
    BY DEF AskEvents, IsQuestion, Fields
  <2>2. IsAnswer(q, AllEvents(listed))
    BY DEF IsAnswer
  <2> QED
    BY <1>2, <2>1, <2>2, AskStep DEF AskEvents
<1>3. ASSUME NEW ref \in References,
             Reply([f |-> "eventsOf", ref |-> ref], EventsOf(ref, listed))
      PROVE  QueryInv'
  <2> DEFINE q == [f |-> "eventsOf", ref |-> ref]
  <2>1. IsQuestion(q)
    BY DEF AskEvents, IsQuestion, Fields
  <2>2. IsAnswer(q, EventsOf(ref, listed))
    BY DEF IsAnswer
  <2> QED
    BY <1>3, <2>1, <2>2, AskStep DEF AskEvents
<1> QED
  BY <1>1, <1>2, <1>3

LEMMA ReferentStep ==
  ASSUME QueryInv, AskReferent
  PROVE  QueryInv'
<1>1. CASE Reply([f |-> "controller"], Controller)
  <2> DEFINE q == [f |-> "controller"]
  <2>1. IsQuestion(q)
    BY DEF AskReferent, IsQuestion, Fields
  <2>2. IsAnswer(q, Controller)
    BY DEF IsAnswer
  <2> QED
    BY <1>1, <2>1, <2>2, AskStep DEF AskReferent
<1>2. ASSUME NEW name \in Names, NEW lenient \in BOOLEAN,
             Reply([f |-> "referent", name |-> name, lenient |-> lenient],
                   Referent(name, lenient))
      PROVE  QueryInv'
  <2> DEFINE q == [f |-> "referent", name |-> name, lenient |-> lenient]
  <2>1. IsQuestion(q)
    BY DEF AskReferent, IsQuestion, Fields
  <2>2. IsAnswer(q, Referent(name, lenient))
    BY DEF IsAnswer
  <2> QED
    BY <1>2, <2>1, <2>2, AskStep DEF AskReferent
<1> QED
  BY <1>1, <1>2 DEF AskReferent

LEMMA LookedUp ==
  ASSUME QueryInv, lookup.step \in {"get", "list"}
  PROVE  LookupIsFaithful
<1>1. lookup # Idle
  BY DEF Idle
<1>2. ASSUME GatherIsFaithful PROVE FALSE
  <2>1. lookup.step \in {"gather"}
    BY <1>2 DEF GatherIsFaithful, GatherState
  <2> QED
    BY <2>1
<1> QED
  BY <1>1, <1>2 DEF QueryInv

LEMMA GatheredUp ==
  ASSUME QueryInv, lookup.step = "gather"
  PROVE  GatherIsFaithful
BY DEF QueryInv, Idle, LookupIsFaithful

LEMMA FinishStep ==
  ASSUME QueryInv, lookup.step \in {"get", "list"}, NEW a, Finish(a),
         IsAnswer([f |-> "definition", of |-> lookup.of], a)
  PROVE  QueryInv'
<1> DEFINE q == [f |-> "definition", of |-> lookup.of]
<1>1. kind = "definition" /\ lookup.of \in GroupKinds
  BY LookedUp DEF LookupIsFaithful
<1>2. IsQuestion(q)
  BY <1>1 DEF IsQuestion, Fields
<1>3. Reply(q, a) /\ lookup' = Idle
  BY DEF Finish
<1> HIDE DEF q
<1>4. IsAnswer(q, a)
  BY DEF q
<1> QED
  BY <1>2, <1>3, <1>4, AskStep

LEMMA LookStep ==
  ASSUME QueryInv,
         AskDefinition \/ GetDefinition \/ NoSuchDefinition \/ ListDefinitions
  PROVE  QueryInv'
<1>1. CASE AskDefinition
  <2>1. PICK gk \in GroupKinds :
          lookup' = [step |-> "get", of |-> gk, kept |-> {x \in world : x.defines = gk}]
    BY <1>1 DEF AskDefinition
  <2>2. kind = "definition" /\ UNCHANGED <<kind, world, page>>
    BY <1>1 DEF AskDefinition
  <2>3. LookupIsFaithful'
    BY <2>1, <2>2 DEF LookupIsFaithful
  <2> QED
    BY <2>2, <2>3, LookupStep
<1>2. CASE GetDefinition
  <2>1. lookup.step = "get"
    BY <1>2 DEF GetDefinition, Looking
  <2>2. PICK x \in world :
          /\ x.name = Guess(lookup.of)
          /\ Finish(IF x.defines = lookup.of THEN Answer(<<x>>) ELSE Answer(<< >>))
    BY <1>2 DEF GetDefinition
  <2> DEFINE a == IF x.defines = lookup.of THEN Answer(<<x>>) ELSE Answer(<< >>)
             q == [f |-> "definition", of |-> lookup.of]
  <2>3. IsDefinition(lookup.of, a)
    BY <2>2 DEF IsDefinition
  <2>4. IsAnswer(q, a)
    BY <2>3 DEF IsAnswer
  <2> HIDE DEF a
  <2>5. Finish(a)
    BY <2>2 DEF a
  <2> QED
    BY <2>1, <2>4, <2>5, FinishStep
<1>3. CASE NoSuchDefinition
  <2>1. lookup.step = "get" /\ UNCHANGED <<kind, world, page>>
    BY <1>3 DEF NoSuchDefinition, Looking
  <2>2. lookup' = [lookup EXCEPT !.step = "list"]
    BY <1>3 DEF NoSuchDefinition
  <2>3. LookupIsFaithful'
    BY <2>1, <2>2, LookedUp DEF LookupIsFaithful
  <2> QED
    BY <2>1, <2>3, LookupStep
<1>4. CASE ListDefinitions
  <2>1. lookup.step = "list"
    BY <1>4 DEF ListDefinitions, Looking
  <2>2. PICK listed \in Lists : Finish(FirstOf(listed, {x \in world : x.defines = lookup.of}))
    BY <1>4 DEF ListDefinitions
  <2> DEFINE a == FirstOf(listed, {x \in world : x.defines = lookup.of})
             q == [f |-> "definition", of |-> lookup.of]
  <2>3. IsDefinition(lookup.of, a)
    BY DEF IsDefinition
  <2>4. IsAnswer(q, a)
    BY <2>3 DEF IsAnswer
  <2> HIDE DEF a
  <2>5. Finish(a)
    BY <2>2 DEF a
  <2> QED
    BY <2>1, <2>4, <2>5, FinishStep
<1> QED
  BY <1>1, <1>2, <1>3, <1>4

LEMMA AppendIsSeq ==
  ASSUME NEW S, NEW s \in Seq(S), NEW x \in S
  PROVE  Append(s, x) \in Seq(S)
OBVIOUS

(* What a goroutine of Owners or Objects does: it appends the object that  *)
(* is there now, or reports an error.                                      *)
LEMMA AppendStep ==
  ASSUME QueryInv, NEW i, Gathering(i), NEW x \in world, x.name = ObjectRefs[i].name,
         lookup' = [lookup EXCEPT !.todo = @ \ {i}, !.nodes = Append(@, x)],
         UNCHANGED <<kind, world, page>>
  PROVE  GatherIsFaithful'
<1>1. /\ GatherIsFaithful /\ i \in lookup.todo
      /\ world \subseteq Objects[kind] /\ NamesUnique(world)
  BY GatheredUp DEF Gathering, QueryInv
<1> DEFINE o == lookup.nodes
           n == lookup'.nodes
<1>2. /\ o \in Seq(Objects[kind]) /\ lookup.todo \subseteq Followed(lookup.of)
      /\ IsInjective(o) /\ lookup.kept \subseteq world
      /\ kind = "referent" /\ lookup \in GatherState
  BY <1>1 DEF GatherIsFaithful, GatherState
<1>3. /\ lookup'.of = lookup.of /\ lookup'.kept = lookup.kept /\ lookup'.err = lookup.err
      /\ lookup'.todo = lookup.todo \ {i} /\ n = Append(o, x)
  BY <1>2 DEF GatherState
<1>4. x \in Objects[kind]
  BY <1>1
<1>5. lookup' \in GatherState'
  <2>1. Append(o, x) \in Seq(Objects[kind])
    BY <1>2, <1>4, AppendIsSeq
  <2> HIDE DEF o
  <2>2. lookup' = [lookup EXCEPT !.todo = @ \ {i}, !.nodes = Append(o, x)]
    BY DEF o
  <2> QED
    BY <1>2, <2>1, <2>2 DEF GatherState
<1>6. Gathered' = Gathered \cup {i}
  BY <1>1, <1>2, <1>3 DEF Gathered, Followed
<1>7. ToSet(n) = ToSet(o) \cup {x}
  BY <1>2, <1>3, <1>4 DEF ToSet
<1>8. x \notin ToSet(o)
  <2> SUFFICES ASSUME x \in ToSet(o) PROVE FALSE
    OBVIOUS
  <2>1. PICK j \in Gathered : x.name = ObjectRefs[j].name
    BY <1>1 DEF GatherIsFaithful
  <2>2. i \in DOMAIN ObjectRefs /\ j \in DOMAIN ObjectRefs
    BY <1>1, <1>2 DEF Gathered, Followed
  <2>3. i = j
    BY <2>1, <2>2, ResolversAssumption
  <2> QED
    BY <1>1, <2>1, <2>3 DEF Gathered
<1>9. IsInjective(n)
  <2> SUFFICES ASSUME NEW k \in 1..(Len(o) + 1), NEW m \in 1..(Len(o) + 1), n[k] = n[m]
               PROVE  k = m
    BY <1>2, <1>3, <1>4 DEF IsInjective
  <2>1. \A l \in 1..Len(o) : n[l] = o[l] /\ o[l] \in ToSet(o)
    BY <1>2, <1>3, <1>4 DEF ToSet
  <2>2. n[Len(o) + 1] = x
    BY <1>2, <1>3, <1>4
  <2>3. Len(o) \in Nat /\ \A l, j \in 1..Len(o) : o[l] = o[j] => l = j
    BY <1>2 DEF IsInjective
  <2> HIDE DEF n, o
  <2> QED
    BY <1>8, <2>1, <2>2, <2>3
<1>10. ASSUME NEW y \in ToSet(n)
       PROVE  \E j \in Gathered' : y.name = ObjectRefs[j].name
  <2>1. CASE y = x
    BY <1>6, <2>1
  <2>2. CASE y \in ToSet(o)
    BY <1>1, <1>6, <2>2 DEF GatherIsFaithful
  <2> QED
    BY <1>7, <2>1, <2>2
<1>11. ASSUME lookup'.err = NoError, NEW j \in Gathered'
       PROVE  \E y \in ToSet(n) : y.name = ObjectRefs[j].name
  <2>1. CASE j = i
    BY <1>7, <2>1
  <2>2. CASE j \in Gathered
    BY <1>1, <1>3, <1>7, <1>11, <2>2 DEF GatherIsFaithful
  <2> QED
    BY <1>6, <2>1, <2>2
<1>12. ASSUME lookup'.err # "server", NEW y \in lookup'.kept, NEW j \in Gathered',
              ObjectRefs[j].name = y.name, lookup'.of = "owners" => Models(y)
       PROVE  y \in ToSet(n)
  <2>1. CASE j = i
    <3>1. y \in world /\ y.name = x.name
      BY <1>2, <1>3, <1>12, <2>1
    <3>2. y = x
      BY <1>1, <1>2, <3>1 DEF NamesUnique, SameName
    <3> QED
      BY <1>7, <3>2
  <2>2. CASE j \in Gathered
    BY <1>1, <1>3, <1>7, <1>12, <2>2 DEF GatherIsFaithful
  <2> QED
    BY <1>6, <2>1, <2>2
<1>13. lookup'.todo \subseteq Followed(lookup'.of)
  BY <1>2, <1>3
<1> HIDE DEF n, o
<1>14. /\ kind' = "referent" /\ Followed(lookup.of)' = Followed(lookup'.of)
       /\ n = lookup'.nodes
  BY <1>2 DEF Followed, n
<1> QED
  BY <1>5, <1>9, <1>10, <1>11, <1>12, <1>13, <1>14 DEF GatherIsFaithful

LEMMA ErrsStep ==
  ASSUME QueryInv, NEW i, Gathering(i), NEW e \in {"server", "model", "not found"}, Errs(i, e),
         UNCHANGED <<kind, world, page>>,
         e # "server" => \A x \in world : x.name = ObjectRefs[i].name =>
                           lookup.of = "owners" /\ ~Models(x)
  PROVE  GatherIsFaithful'
<1>1. /\ GatherIsFaithful /\ i \in lookup.todo
  BY GatheredUp DEF Gathering, QueryInv
<1>2. /\ lookup.todo \subseteq Followed(lookup.of)
      /\ IsInjective(lookup.nodes) /\ lookup.kept \subseteq world
      /\ kind = "referent" /\ lookup \in GatherState
  BY <1>1 DEF GatherIsFaithful, GatherState
<1>3. /\ lookup'.of = lookup.of /\ lookup'.kept = lookup.kept /\ lookup'.nodes = lookup.nodes
      /\ lookup'.err = (IF lookup.err = "server" THEN "server" ELSE e)
      /\ lookup'.todo = lookup.todo \ {i}
  BY <1>2 DEF GatherState, Errs
<1>4. lookup' \in GatherState'
  BY <1>2 DEF GatherState, Errs
<1>5. Gathered' = Gathered \cup {i}
  BY <1>1, <1>2, <1>3 DEF Gathered, Followed
<1>6. lookup'.err # NoError
  BY <1>3 DEF NoError
<1>7. ASSUME lookup'.err # "server", NEW y \in lookup'.kept, NEW j \in Gathered',
             ObjectRefs[j].name = y.name, lookup'.of = "owners" => Models(y)
      PROVE  y \in ToSet(lookup'.nodes)
  <2>1. CASE j = i
    BY <1>2, <1>3, <1>7, <2>1
  <2>2. CASE j \in Gathered
    BY <1>1, <1>3, <1>7, <2>2 DEF GatherIsFaithful
  <2> QED
    BY <1>5, <2>1, <2>2
<1>8. \A y \in ToSet(lookup'.nodes) : \E j \in Gathered' : y.name = ObjectRefs[j].name
  BY <1>1, <1>3, <1>5 DEF GatherIsFaithful
<1>9. /\ lookup'.todo \subseteq Followed(lookup'.of) /\ IsInjective(lookup'.nodes)
      /\ kind' = "referent"
  BY <1>2, <1>3
<1> QED
  BY <1>4, <1>6, <1>7, <1>8, <1>9 DEF GatherIsFaithful

LEMMA GatherStep ==
  ASSUME QueryInv,
         \/ AskReferents \/ ReferentsRead
         \/ \E i \in DOMAIN ObjectRefs : ReadReferent(i) \/ ReferentMissing(i)
  PROVE  QueryInv'
<1>1. CASE AskReferents
  <2>1. PICK f \in {"owners", "objects"} :
          lookup' = [step |-> "gather", of |-> f, kept |-> world,
                     todo |-> Followed(f), nodes |-> << >>, err |-> NoError]
    BY <1>1 DEF AskReferents
  <2>2. kind = "referent" /\ UNCHANGED <<kind, world, page>>
    BY <1>1 DEF AskReferents
  <2>3. /\ lookup'.of = f /\ lookup'.kept = world /\ lookup'.todo = Followed(f)
        /\ lookup'.nodes = << >> /\ lookup'.err = NoError
    BY <2>1
  <2>4. lookup' \in GatherState'
    BY <2>1, <2>2 DEF GatherState, NoError, Followed
  <2>5. Gathered' = {}
    BY <2>3 DEF Gathered, Followed
  <2>6. ToSet(lookup'.nodes) = {} /\ IsInjective(lookup'.nodes)
    BY <2>3 DEF ToSet, IsInjective
  <2>7. lookup'.todo \subseteq Followed(lookup'.of)
    BY <2>3
  <2>8. GatherIsFaithful'
    BY <2>2, <2>4, <2>5, <2>6, <2>7 DEF GatherIsFaithful, Followed
  <2> QED
    BY <2>2, <2>8, LookupStep
<1>2. CASE ReferentsRead
  <2> DEFINE q == [f |-> lookup.of]
             a == [Answer(lookup.nodes) EXCEPT !.err = lookup.err]
  <2>1. lookup.todo = {} /\ Reply(q, a) /\ lookup' = Idle /\ GatherIsFaithful
    BY <1>2, GatheredUp DEF ReferentsRead
  <2>2. kind = "referent" /\ lookup.of \in {"owners", "objects"}
    BY <2>1 DEF GatherIsFaithful, GatherState
  <2>3. IsQuestion(q)
    BY <2>2 DEF IsQuestion, Fields
  <2>4. /\ a.nodes = lookup.nodes /\ a.total = Len(lookup.nodes) /\ a.err = lookup.err
    BY DEF Answer
  <2>5. Gathered = Followed(lookup.of)
    BY <2>1 DEF Gathered
  <2> HIDE DEF a
  <2>6. IsGathered(lookup.of, a)
    <3>1. a.nodes \in Seq(Objects[kind]) /\ a.total = Len(a.nodes) /\ IsInjective(a.nodes)
      BY <2>1, <2>4 DEF GatherIsFaithful, GatherState
    <3>2. \A x \in ToSet(a.nodes) : \E i \in Followed(lookup.of) : x.name = ObjectRefs[i].name
      BY <2>1, <2>4, <2>5 DEF GatherIsFaithful
    <3>3. a.err = NoError =>
            \A i \in Followed(lookup.of) : \E x \in ToSet(a.nodes) : x.name = ObjectRefs[i].name
      BY <2>1, <2>4, <2>5 DEF GatherIsFaithful
    <3> QED
      BY <2>2, <3>1, <3>2, <3>3 DEF IsGathered
  <2>7. IsAnswer(q, a)
    BY <2>6 DEF IsAnswer
  <2> QED
    BY <2>1, <2>3, <2>7, AskStep
<1>3. ASSUME NEW i \in DOMAIN ObjectRefs, ReadReferent(i) PROVE QueryInv'
  <2>1. Gathering(i) /\ UNCHANGED <<kind, world, page>>
    BY <1>3 DEF ReadReferent
  <2>2. PICK x \in Named(ObjectRefs[i].name) :
          IF lookup.of = "owners" /\ ~Models(x) THEN Errs(i, "model")
          ELSE lookup' = [lookup EXCEPT !.todo = @ \ {i}, !.nodes = Append(@, x)]
    BY <1>3 DEF ReadReferent
  <2>3. x \in world /\ x.name = ObjectRefs[i].name
    BY DEF Named
  <2>4. CASE lookup.of = "owners" /\ ~Models(x)
    <3>1. kind = "referent" /\ NamesUnique(world)
      BY <2>1, GatheredUp DEF Gathering, GatherIsFaithful, QueryInv
    <3>2. \A y \in world : y.name = ObjectRefs[i].name => y = x
      BY <2>3, <3>1 DEF NamesUnique, SameName
    <3>3. GatherIsFaithful'
      BY <2>1, <2>2, <2>4, <3>2, ErrsStep
    <3> QED
      BY <2>1, <3>3, LookupStep
  <2>5. CASE ~(lookup.of = "owners" /\ ~Models(x))
    <3>1. GatherIsFaithful'
      BY <2>1, <2>2, <2>3, <2>5, AppendStep
    <3> QED
      BY <2>1, <3>1, LookupStep
  <2> QED
    BY <2>4, <2>5
<1>4. ASSUME NEW i \in DOMAIN ObjectRefs, ReferentMissing(i) PROVE QueryInv'
  <2>1. /\ Gathering(i) /\ UNCHANGED <<kind, world, page>>
        /\ Errs(i, "not found") /\ Named(ObjectRefs[i].name) = {}
    BY <1>4 DEF ReferentMissing
  <2>2. \A x \in world : x.name # ObjectRefs[i].name
    BY <2>1 DEF Named
  <2>3. GatherIsFaithful'
    BY <2>1, <2>2, ErrsStep
  <2> QED
    BY <2>1, <2>3, LookupStep
<1> QED
  BY <1>1, <1>2, <1>3, <1>4

LEMMA FailStep ==
  ASSUME QueryInv, AskFails
  PROVE  QueryInv'
<1>1. \A q : IsAnswer(q, Failed("server"))
  BY DEF IsAnswer
<1>2. ASSUME NEW q \in Fields \cup DOMAIN page, Reply(q, Failed("server")), UNCHANGED lookup
      PROVE  QueryInv'
  <2>1. IsQuestion(q)
    BY DEF IsQuestion, QueryInv, PageOK
  <2> QED
    BY <1>1, <1>2, <2>1, AskStep
<1>3. CASE (Looking("get") \/ Looking("list")) /\ Finish(Failed("server"))
  BY <1>1, <1>3, FinishStep DEF Looking
<1>4. ASSUME NEW i, Gathering(i), Errs(i, "server"), UNCHANGED <<kind, world, page>>
      PROVE  QueryInv'
  <2>1. GatherIsFaithful'
    BY <1>4, ErrsStep
  <2> QED
    BY <1>4, <2>1, LookupStep
<1> QED
  BY <1>2, <1>3, <1>4 DEF AskFails

(* The objects change: the page is empty, and what has been there since a  *)
(* lookup began gets less.                                                 *)
LEMMA ChangeStep ==
  ASSUME QueryInv, Change
  PROVE  QueryInv'
<1>1. /\ UNCHANGED kind /\ NamesUnique(world') /\ page' = << >>
      /\ lookup' = IF lookup = Idle THEN Idle ELSE [lookup EXCEPT !.kept = @ \cap world']
  BY DEF Change
<1>2. kind' \in Kinds /\ world' \subseteq Objects[kind']
  BY DEF Change, QueryInv
<1>3. NamesUnique(world)'
  BY <1>1 DEF NamesUnique, SameName
<1>4. PageOK'
  <2>1. DOMAIN page' = {}
    BY <1>1
  <2>2. IsFiniteSet({}) /\ Cardinality({}) = 0
    BY FS_EmptySet
  <2> QED
    BY <2>1, <2>2, ResolversAssumption DEF PageOK
<1>5. CASE lookup = Idle
  BY <1>1, <1>2, <1>3, <1>4, <1>5 DEF QueryInv, Idle
<1>6. CASE lookup # Idle /\ LookupIsFaithful
  <2>1. lookup' = [lookup EXCEPT !.kept = @ \cap world']
    BY <1>1, <1>6
  <2>2. LookupIsFaithful'
    BY <1>1, <1>6, <2>1 DEF LookupIsFaithful
  <2> QED
    BY <1>2, <1>3, <1>4, <2>2 DEF QueryInv
<1>7. CASE lookup # Idle /\ GatherIsFaithful
  <2>1. lookup' = [lookup EXCEPT !.kept = @ \cap world']
    BY <1>1, <1>7
  <2>2. lookup \in GatherState /\ kind' = "referent"
    BY <1>1, <1>7 DEF GatherIsFaithful
  <2>3. /\ lookup'.of = lookup.of /\ lookup'.kept \subseteq lookup.kept
        /\ lookup'.nodes = lookup.nodes
        /\ lookup'.err = lookup.err /\ lookup'.todo = lookup.todo
    BY <2>1, <2>2 DEF GatherState
  <2>4. lookup' \in GatherState'
    BY <1>1, <2>1, <2>2 DEF GatherState
  <2>5. Gathered' = Gathered
    BY <2>3 DEF Gathered, Followed
  <2>6. GatherIsFaithful'
    BY <1>7, <2>2, <2>3, <2>4, <2>5 DEF GatherIsFaithful, Followed
  <2> QED
    BY <1>2, <1>3, <1>4, <2>6 DEF QueryInv
<1> QED
  BY <1>5, <1>6, <1>7 DEF QueryInv

LEMMA QueryInitInv ==
  ASSUME QueryInit
  PROVE  QueryInv
<1>1. DOMAIN page = {} /\ IsFiniteSet({}) /\ Cardinality({}) = 0
  BY FS_EmptySet DEF QueryInit
<1>2. PageOK
  BY <1>1, ResolversAssumption DEF PageOK
<1> QED
  BY <1>2 DEF QueryInit, QueryInv

LEMMA QueryNextInv ==
  ASSUME QueryInv, [QueryNext]_queryVars
  PROVE  QueryInv'
<1>1. CASE UNCHANGED queryVars
  <2>1. PageOK'
    BY <1>1, AnswerStays DEF queryVars, QueryInv, PageOK
  <2> QED
    BY <1>1, <2>1, RestStays DEF queryVars, QueryInv
<1>2. CASE AskRevisions \/ AskActiveRevision \/ AskPackageRevisions
  BY <1>2, RevisionStep
<1>3. CASE AskDefinitions \/ AskXRD \/ AskClaimXRD
  BY <1>3, DefinitionStep
<1>4. CASE AskDefinition \/ GetDefinition \/ NoSuchDefinition \/ ListDefinitions
  BY <1>4, LookStep
<1>5. CASE AskKubernetesResources \/ AskDefinedResources \/ AskDefinedByXRD \/ AskBack
  BY <1>5, ResourceStep
<1>6. CASE AskEvents
  BY <1>6, EventStep
<1>7. CASE AskReferent
  BY <1>7, ReferentStep
<1>8. CASE \/ AskReferents \/ ReferentsRead
           \/ \E i \in DOMAIN ObjectRefs : ReadReferent(i) \/ ReferentMissing(i)
  BY <1>8, GatherStep
<1>9. CASE AskFails
  BY <1>9, FailStep
<1>10. CASE Change
  BY <1>10, ChangeStep
<1> QED
  BY <1>1, <1>2, <1>3, <1>4, <1>5, <1>6, <1>7, <1>8, <1>9, <1>10 DEF QueryNext

(* Every answer on the page is one that the objects of now can give, for   *)
(* some order of the cache's lists, and what is looked up or gathered      *)
(* accounts for all that has been there since it began.                    *)
THEOREM QueryInvariant == QuerySpec => []QueryInv
<1>1. QueryInit => QueryInv
  BY QueryInitInv
<1>2. QueryInv /\ [QueryNext]_queryVars => QueryInv'
  BY QueryNextInv
<1> QED
  BY <1>1, <1>2, PTL DEF QuerySpec

-----------------------------------------------------------------------------
(* What an answer shows                                                    *)

LEMMA WorldFact ==
  ASSUME QueryInv
  PROVE  /\ IsFiniteSet(world) /\ Nil \notin Objects[kind]
         /\ kind # "referent" => Comparable(ByID, world) /\ Comparable(ByIDReversed, world)
         /\ kind = "event" => Comparable(ByTime, world)
<1>1. kind \in Kinds /\ world \subseteq Objects[kind]
  BY DEF QueryInv
<1>2. IsFiniteSet(Objects[kind]) /\ Nil \notin Objects[kind]
  BY <1>1, ResolversAssumption
<1>3. IsFiniteSet(world)
  BY <1>1, <1>2, FS_Subset
<1>4. ASSUME kind # "referent", NEW x \in world
      PROVE  ByID[x] \in Int /\ ByIDReversed[x] \in Int
  <2>1. x.key \in Int
    BY <1>1, <1>4, ResolversAssumption
  <2> QED
    BY <1>1, <2>1 DEF ByID, ByIDReversed
<1>5. ASSUME kind = "event", NEW x \in world PROVE ByTime[x] \in Int
  <2>1. x.time \in Int
    BY <1>1, <1>5, ResolversAssumption
  <2> QED
    BY <1>1, <2>1 DEF ByTime
<1> QED
  BY <1>2, <1>3, <1>4, <1>5 DEF Comparable

(* The fields of each kind of objects. *)
QuestionOf(q, k) ==
  CASE k = "revision" -> q.f \in {"revisions", "activeRevision", "packageRevisions"}
    [] k = "definition" -> q.f \in {"definitions", "definitionOfXR", "definitionOfClaim",
                                    "definition"}
    [] k = "resource" -> q.f \in {"kubernetesResources", "definedResources", "definedByXRD",
                                  "kubernetesResource"}
    [] k = "event" -> q.f \in {"allEvents", "eventsOf"}
    [] k = "referent" -> q.f \in {"owners", "objects", "controller", "referent"}

LEMMA QuestionFact ==
  ASSUME QueryInv, NEW q, IsQuestion(q)
  PROVE  QuestionOf(q, kind)
<1>1. kind \in Kinds
  BY DEF QueryInv
<1>2. CASE kind = "revision"
  BY <1>2 DEF IsQuestion, Fields, QuestionOf
<1>3. CASE kind = "definition"
  BY <1>3 DEF IsQuestion, Fields, QuestionOf
<1>4. CASE kind = "resource"
  BY <1>4 DEF IsQuestion, Fields, QuestionOf
<1>5. CASE kind = "event"
  BY <1>5 DEF IsQuestion, Fields, QuestionOf
<1>6. CASE kind = "referent"
  BY <1>6 DEF IsQuestion, Fields, QuestionOf
<1> QED
  BY <1>1, <1>2, <1>3, <1>4, <1>5, <1>6 DEF Kinds

(* An answer that shows objects that exist, each once, and counts them. *)
IsPlain(a) ==
  /\ a.nodes \in Seq(world) /\ a.total = Len(a.nodes) /\ IsInjective(a.nodes)
  /\ ToSet(a.nodes) \subseteq world

LEMMA PlainFact ==
  ASSUME IsFiniteSet(world)
  PROVE  /\ \A e : /\ IsPlain(Failed(e)) /\ Failed(e).err = e
                    /\ ToSet(Failed(e).nodes) = {}
         /\ IsPlain(Answer(<< >>)) /\ Answer(<< >>).err = NoError
         /\ ToSet(Answer(<< >>).nodes) = {}
         /\ \A x \in world : /\ IsPlain(Answer(<<x>>)) /\ Answer(<<x>>).err = NoError
                             /\ ToSet(Answer(<<x>>).nodes) = {x}
         /\ \A l \in Lists, k \in SUBSET world : \A r : Comparable(r, k) =>
              /\ IsPlain(Answer(Sorted(l, k, r))) /\ Answer(Sorted(l, k, r)).err = NoError
              /\ ToSet(Answer(Sorted(l, k, r)).nodes) = k
<1>1. \A e : IsPlain(Failed(e)) /\ Failed(e).err = e /\ ToSet(Failed(e).nodes) = {}
  BY DEF IsPlain, Failed, IsInjective, ToSet
<1>2. /\ IsPlain(Answer(<< >>)) /\ Answer(<< >>).err = NoError
      /\ ToSet(Answer(<< >>).nodes) = {}
  BY DEF IsPlain, Answer, IsInjective, ToSet
<1>3. ASSUME NEW x \in world
      PROVE  /\ IsPlain(Answer(<<x>>)) /\ Answer(<<x>>).err = NoError
             /\ ToSet(Answer(<<x>>).nodes) = {x}
  BY DEF IsPlain, Answer, IsInjective, ToSet
<1>4. ASSUME NEW l \in Lists, NEW k \in SUBSET world, NEW r, Comparable(r, k)
      PROVE  /\ IsPlain(Answer(Sorted(l, k, r))) /\ Answer(Sorted(l, k, r)).err = NoError
             /\ ToSet(Answer(Sorted(l, k, r)).nodes) = k
  <2> DEFINE s == Sorted(l, k, r)
  <2>1. s \in Seq(k) /\ Len(s) \in Nat /\ DOMAIN s = 1..Len(s) /\ ToSet(s) = k /\ IsInjective(s)
    BY <1>4, SortedFact
  <2> HIDE DEF s
  <2>2. s \in Seq(world)
    BY <2>1
  <2>3. /\ IsPlain(Answer(s)) /\ Answer(s).err = NoError
        /\ ToSet(Answer(s).nodes) = k
    BY <2>1, <2>2 DEF IsPlain, Answer
  <2> QED
    BY <2>3 DEF s
<1> QED
  BY <1>1, <1>2, <1>3, <1>4

(* What a field that filters a list shows is what fits. *)
LEMMA ConnectionFact ==
  ASSUME QueryInv, kind # "referent", NEW l \in Lists, NEW k \in SUBSET world
  PROVE  LET a == Connection(l, k)
         IN  IsPlain(a) /\ a.err = NoError /\ ToSet(a.nodes) = k
<1>1. Comparable(ByID, k)
  BY WorldFact DEF Comparable
<1> QED
  BY <1>1, WorldFact, PlainFact DEF Connection

LEMMA FirstPlain ==
  ASSUME QueryInv, NEW l \in Lists, NEW fits \in SUBSET world
  PROVE  LET a == FirstOf(l, fits)
         IN  /\ IsPlain(a) /\ a.err = NoError /\ ToSet(a.nodes) \subseteq fits
             /\ ToSet(a.nodes) = {} => fits = {}
             /\ a.nodes = << >> => fits = {}
<1>1. IsFiniteSet(world)
  BY WorldFact
<1>2. \/ fits = {} /\ FirstOf(l, fits) = Answer(<< >>)
      \/ \E x \in fits : FirstOf(l, fits) = Answer(<<x>>)
  BY <1>1, FirstOfFact
<1>3. \A x : Answer(<<x>>).nodes # << >>
  BY DEF Answer
<1>4. CASE fits = {} /\ FirstOf(l, fits) = Answer(<< >>)
  BY <1>1, <1>4, PlainFact
<1>5. ASSUME NEW x \in fits, FirstOf(l, fits) = Answer(<<x>>)
      PROVE  LET a == FirstOf(l, fits)
             IN  /\ IsPlain(a) /\ a.err = NoError /\ ToSet(a.nodes) \subseteq fits
                 /\ ToSet(a.nodes) = {} => fits = {}
                 /\ a.nodes = << >> => fits = {}
  BY <1>1, <1>3, <1>5, PlainFact
<1> QED
  BY <1>2, <1>4, <1>5

LEMMA ReferentFact ==
  ASSUME QueryInv, NEW name, NEW lenient
  PROVE  LET a == Referent(name, lenient)
         IN  /\ IsPlain(a)
             /\ \A x \in ToSet(a.nodes) : x \in world /\ x.name = name
<1>1. IsFiniteSet(world)
  BY WorldFact
<1>2. CASE Named(name) = {}
  <2>1. Referent(name, lenient) \in {Answer(<< >>), Failed("not found")}
    BY <1>2 DEF Referent
  <2>2. IsPlain(Answer(<< >>)) /\ ToSet(Answer(<< >>).nodes) = {}
    BY <1>1, PlainFact
  <2>3. IsPlain(Failed("not found")) /\ ToSet(Failed("not found").nodes) = {}
    BY <1>1, PlainFact
  <2> QED
    BY <2>1, <2>2, <2>3
<1>3. CASE Named(name) # {}
  <2> DEFINE x == CHOOSE y \in Named(name) : TRUE
  <2>1. x \in Named(name)
    BY <1>3
  <2>2. Referent(name, lenient) = Answer(<<x>>)
    BY <1>3 DEF Referent
  <2> HIDE DEF x
  <2> QED
    BY <1>1, <2>1, <2>2, PlainFact DEF Named
<1> QED
  BY <1>2, <1>3

LEMMA ControllerFact ==
  ASSUME QueryInv
  PROVE  /\ IsPlain(Controller)
         /\ Controller.err = NoError => \A x \in ToSet(Controller.nodes) :
              Models(x) /\ \E i \in DOMAIN ObjectRefs : x.name = ObjectRefs[i].name
<1> DEFINE at == {i \in DOMAIN ObjectRefs : ObjectRefs[i].controller}
           a == Referent(ObjectRefs[LeastOf(at)].name, FALSE)
<1>1. IsFiniteSet(world)
  BY WorldFact
<1>2. CASE at = {}
  <2>1. Controller = Answer(<< >>)
    BY <1>2 DEF Controller
  <2> QED
    BY <1>1, <2>1, PlainFact
<1>3. CASE at # {}
  <2>1. IsPlain(a) /\ \A x \in ToSet(a.nodes) : x.name = ObjectRefs[LeastOf(at)].name
    BY ReferentFact
  <2>2. LeastOf(at) \in at
    <3>1. DOMAIN ObjectRefs \subseteq Nat
      BY ResolversAssumption
    <3> QED
      BY <1>3, <3>1, LeastOfFact
  <2>3. Controller = IF \A x \in ToSet(a.nodes) : Models(x) THEN a ELSE Failed("model")
    BY <1>3 DEF Controller
  <2> HIDE DEF at
  <2>4. CASE \A x \in ToSet(a.nodes) : Models(x)
    <3>1. Controller = a
      BY <2>3, <2>4
    <3>2. LeastOf(at) \in DOMAIN ObjectRefs
      BY <2>2 DEF at
    <3> QED
      BY <2>1, <2>4, <3>1, <3>2
  <2>5. CASE ~\A x \in ToSet(a.nodes) : Models(x)
    <3>1. Controller = Failed("model")
      BY <2>3, <2>5
    <3> QED
      BY <3>1, <1>1, PlainFact DEF NoError
  <2> QED
    BY <2>4, <2>5
<1> QED
  BY <1>2, <1>3

(* What the fields of revisions and of definitions show. *)
LEMMA RevisionsShown ==
  ASSUME QueryInv, NEW q, IsQuestion(q), NEW a, IsAnswer(q, a), kind = "revision"
  PROVE  /\ IsPlain(a)
         /\ a.err = NoError =>
              /\ q.f = "revisions" => ToSet(a.nodes) = {x \in world : ControlledBy(x, q.uid)}
              /\ q.f = "activeRevision" =>
                   LET fits == {x \in world : x.active /\ ControlledBy(x, q.uid)}
                   IN  /\ ToSet(a.nodes) \subseteq fits
                       /\ ToSet(a.nodes) = {} => fits = {}
              /\ q.f = "packageRevisions" =>
                   ToSet(a.nodes) = {x \in world : /\ q.owner = None \/ ContainsID(x, q.owner)
                                                   /\ q.active => x.active}
<1>1. q.f \in {"revisions", "activeRevision", "packageRevisions"}
  BY QuestionFact DEF QuestionOf
<1>2. CASE a = Failed("server")
  BY <1>2, WorldFact, PlainFact DEF NoError
<1>3. CASE q.f = "revisions" /\ \E l \in Lists : a = Revisions(q.uid, l)
  <2>1. {x \in world : ControlledBy(x, q.uid)} \in SUBSET world
    OBVIOUS
  <2> QED
    BY <1>3, <2>1, ConnectionFact DEF Revisions
<1>4. CASE q.f = "activeRevision" /\ \E l \in Lists : a = ActiveRevision(q.uid, l)
  <2> DEFINE fits == {x \in world : x.active /\ ControlledBy(x, q.uid)}
  <2>1. fits \in SUBSET world /\ \E l \in Lists : a = FirstOf(l, fits)
    BY <1>4 DEF ActiveRevision
  <2>2. /\ IsPlain(a) /\ ToSet(a.nodes) \subseteq fits
        /\ ToSet(a.nodes) = {} => fits = {}
    <3> HIDE DEF fits
    <3> QED
      BY <2>1, FirstPlain
  <2> QED
    BY <1>4, <2>2
<1>5. CASE q.f = "packageRevisions" /\ \E l \in Lists : a = PackageRevisions(q.owner, q.active, l)
  <2> DEFINE fits == {x \in world : /\ q.owner = None \/ ContainsID(x, q.owner)
                                    /\ q.active => x.active}
  <2>1. PICK l \in Lists : a = Connection(l, fits)
    BY <1>5 DEF PackageRevisions
  <2>2. fits \in SUBSET world
    OBVIOUS
  <2>3. IsPlain(a) /\ ToSet(a.nodes) = fits
    <3> HIDE DEF fits
    <3> QED
      BY <2>1, <2>2, ConnectionFact
  <2> QED
    BY <1>5, <2>3
<1> QED
  BY <1>1, <1>2, <1>3, <1>4, <1>5 DEF IsAnswer, IsGathered

LEMMA DefinitionsShown ==
  ASSUME QueryInv, NEW q, IsQuestion(q), NEW a, IsAnswer(q, a), kind = "definition"
  PROVE  /\ IsPlain(a)
         /\ a.err = NoError /\ q.f = "definitions" =>
              ToSet(a.nodes) = {x \in world : /\ ~(q.dangling /\ ContainsCR(x))
                                              /\ q.revision = None \/ ContainsID(x, q.revision)}
<1>1. q.f \in {"definitions", "definitionOfXR", "definitionOfClaim", "definition"}
  BY QuestionFact DEF QuestionOf
<1>2. CASE a = Failed("server")
  BY <1>2, WorldFact, PlainFact DEF NoError
<1>3. CASE q.f = "definitions" /\ \E l \in Lists : a = Definitions(q.revision, q.dangling, l)
  <2> DEFINE fits == {x \in world : /\ ~(q.dangling /\ ContainsCR(x))
                                    /\ q.revision = None \/ ContainsID(x, q.revision)}
  <2>1. PICK l \in Lists : a = Connection(l, fits)
    BY <1>3 DEF Definitions
  <2>2. fits \in SUBSET world
    OBVIOUS
  <2>3. IsPlain(a) /\ ToSet(a.nodes) = fits
    <3> HIDE DEF fits
    <3> QED
      BY <2>1, <2>2, ConnectionFact
  <2> QED
    BY <1>3, <2>3
<1>4. CASE q.f = "definition" /\ IsDefinition(q.of, a)
  <2>1. CASE \E l \in Lists : a = FirstOf(l, {x \in world : x.defines = q.of})
    <3>1. {x \in world : x.defines = q.of} \in SUBSET world
      OBVIOUS
    <3> QED
      BY <1>4, <2>1, <3>1, FirstPlain
  <2>2. CASE \E x \in world : a = IF x.defines = q.of THEN Answer(<<x>>) ELSE Answer(<< >>)
    BY <1>4, <2>2, WorldFact, PlainFact
  <2> QED
    BY <1>4, <2>1, <2>2 DEF IsDefinition
<1>5. ASSUME \/ \E l \in Lists : a = FirstOf(l, {x \in world : x.defines = q.of})
             \/ \E l \in Lists : a = FirstOf(l, {x \in world : x.claims = q.of})
      PROVE  IsPlain(a)
  <2>1. PICK l \in Lists, fits \in SUBSET world : a = FirstOf(l, fits)
    <3>1. {x \in world : x.defines = q.of} \in SUBSET world /\ {x \in world : x.claims = q.of} \in SUBSET world
      OBVIOUS
    <3> QED
      BY <1>5, <3>1
  <2> QED
    BY <2>1, FirstPlain
<1>6. CASE q.f \in {"definitionOfXR", "definitionOfClaim"}
  BY <1>2, <1>5, <1>6 DEF IsAnswer, IsGathered
<1> QED
  BY <1>1, <1>2, <1>3, <1>4, <1>6 DEF IsAnswer, IsGathered

(* An answer that may show nil, but not without an error. *)
IsTold(a) ==
  /\ a.total = Len(a.nodes) /\ IsInjective(a.nodes)
  /\ ToSet(a.nodes) \subseteq {Nil} \cup world
  /\ a.err = NoError => Nil \notin ToSet(a.nodes)

LEMMA PlainIsTold ==
  ASSUME QueryInv, NEW a, IsPlain(a)
  PROVE  IsTold(a)
BY WorldFact DEF IsPlain, IsTold, QueryInv

LEMMA KubernetesResourcesFact ==
  ASSUME QueryInv, kind = "resource", NEW ns, NEW l \in Lists
  PROVE  LET a == KubernetesResources(ns, l)
         IN  /\ IsPlain(a)
             /\ a.err = NoError => ToSet(a.nodes) = InNamespace(ns)
<1> DEFINE k == Modelled(InNamespace(ns))
           c == Connection(l, k)
           a == KubernetesResources(ns, l)
<1>1. k \in SUBSET world
  BY DEF Modelled, InNamespace
<1> HIDE DEF k
<1>2. IsPlain(c) /\ ToSet(c.nodes) = k
  BY <1>1, ConnectionFact
<1>3. a = [c EXCEPT !.err = IF k = InNamespace(ns) THEN NoError ELSE "model"]
  BY DEF KubernetesResources, k
<1>4. c = [nodes |-> c.nodes, total |-> c.total, err |-> c.err]
  BY DEF Connection, Answer
<1> HIDE DEF c, a
<1>5. /\ a.nodes = c.nodes /\ a.total = c.total
      /\ a.err = (IF k = InNamespace(ns) THEN NoError ELSE "model")
  BY <1>3, <1>4
<1>6. IsPlain(a) /\ (a.err = NoError => ToSet(a.nodes) = InNamespace(ns))
  BY <1>2, <1>5 DEF IsPlain, NoError
<1> QED
  BY <1>6 DEF a

LEMMA DefinedResourcesFact ==
  ASSUME QueryInv, kind = "resource", NEW l \in Lists
  PROVE  LET a == DefinedResources(l)
         IN  /\ IsTold(a)
             /\ a.err = NoError => ToSet(a.nodes) = world
<1> DEFINE a == DefinedResources(l)
<1>1. CASE Modelled(world) = world
  <2>1. a = Connection(l, world)
    BY <1>1 DEF DefinedResources
  <2> HIDE DEF a
  <2>2. IsPlain(a) /\ ToSet(a.nodes) = world
    BY <2>1, ConnectionFact
  <2>3. IsTold(a) /\ ToSet(a.nodes) = world
    BY <2>2, PlainIsTold
  <2> QED
    BY <2>3 DEF a
<1>2. CASE Modelled(world) # world /\ Len(l) > 1
  <2>1. a = Failed("panic")
    BY <1>2 DEF DefinedResources
  <2> HIDE DEF a
  <2>2. IsPlain(a) /\ a.err # NoError
    BY <2>1, WorldFact, PlainFact DEF NoError
  <2>3. IsTold(a) /\ a.err # NoError
    BY <2>2, PlainIsTold
  <2> QED
    BY <2>3 DEF a
<1>3. CASE Modelled(world) # world /\ ~(Len(l) > 1)
  <2>1. a = [nodes |-> <<Nil>>, total |-> 1, err |-> "model"]
    BY <1>3 DEF DefinedResources
  <2> HIDE DEF a
  <2>2. /\ a.err # NoError /\ a.nodes = <<Nil>> /\ a.total = 1
    BY <2>1 DEF NoError
  <2>3. ToSet(a.nodes) = {Nil} /\ IsInjective(a.nodes) /\ Len(a.nodes) = 1
    BY <2>2 DEF ToSet, IsInjective
  <2>4. IsTold(a) /\ a.err # NoError
    BY <2>2, <2>3 DEF IsTold
  <2> QED
    BY <2>4 DEF a
<1> QED
  BY <1>1, <1>2, <1>3

LEMMA KubernetesResourceFact ==
  ASSUME QueryInv, NEW id
  PROVE  IsPlain(KubernetesResource(id))
<1> DEFINE found == {x \in world : /\ x.av = id.av /\ x.kind = id.kind
                                   /\ x.ns = id.ns /\ x.name = id.name}
           y == CHOOSE x \in found : TRUE
<1>1. found # {} => y \in found
  OBVIOUS
<1>2. \/ \E e : KubernetesResource(id) = Failed(e)
      \/ found # {} /\ KubernetesResource(id) = Answer(<<y>>)
  BY DEF KubernetesResource
<1>3. y \in found => y \in world
  OBVIOUS
<1> HIDE DEF y, found
<1> QED
  BY <1>1, <1>2, <1>3, WorldFact, PlainFact

LEMMA ResourcesShown ==
  ASSUME QueryInv, NEW q, IsQuestion(q), NEW a, IsAnswer(q, a), kind = "resource"
  PROVE  /\ IsTold(a)
         /\ a.err = NoError =>
              /\ q.f = "kubernetesResources" => ToSet(a.nodes) = InNamespace(q.ns)
              /\ q.f = "definedResources" => ToSet(a.nodes) = world
              /\ q.f = "definedByXRD" =>
                   ToSet(a.nodes) = {x \in InNamespace(q.ns) : ReadyMatches(q.ready, x)}
<1>1. q.f \in {"kubernetesResources", "definedResources", "definedByXRD", "kubernetesResource"}
  BY QuestionFact DEF QuestionOf
<1>2. CASE a = Failed("server")
  BY <1>2, WorldFact, PlainFact, PlainIsTold DEF NoError
<1>3. CASE q.f = "kubernetesResources" /\ \E l \in Lists : a = KubernetesResources(q.ns, l)
  BY <1>3, KubernetesResourcesFact, PlainIsTold
<1>4. CASE q.f = "definedResources" /\ \E l \in Lists : a = DefinedResources(l)
  BY <1>4, DefinedResourcesFact
<1>5. CASE q.f = "definedByXRD" /\ \E l \in Lists : a = DefinedByXRD(q.ready, q.ns, l)
  <2> DEFINE fits == {x \in InNamespace(q.ns) : ReadyMatches(q.ready, x)}
  <2>1. fits \in SUBSET world /\ \E l \in Lists : a = Connection(l, fits)
    BY <1>5 DEF DefinedByXRD, InNamespace
  <2>2. IsPlain(a) /\ ToSet(a.nodes) = fits
    <3> HIDE DEF fits
    <3> QED
      BY <2>1, ConnectionFact
  <2> QED
    BY <1>5, <2>2, PlainIsTold
<1>6. CASE q.f = "kubernetesResource" /\ a = KubernetesResource(ParseReferenceID(q.id))
  BY <1>6, KubernetesResourceFact, PlainIsTold
<1> QED
  BY <1>1, <1>2, <1>3, <1>4, <1>5, <1>6 DEF IsAnswer, IsGathered

(* The oldest events are shown, and as many as are called for. *)
IsFilled(a) ==
  /\ a.total <= Cap
  /\ \A x \in ToSet(a.nodes), y \in world \ ToSet(a.nodes) : x.time <= y.time
  /\ \/ ToSet(a.nodes) = world
     \/ a.total = Cap
     \/ Cardinality({x \in ToSet(a.nodes) : x.warning}) >= Target

LEMMA AllEventsFact ==
  ASSUME QueryInv, kind = "event", NEW l \in Lists
  PROVE  IsPlain(AllEvents(l)) /\ IsFilled(AllEvents(l))
<1> DEFINE s == Sorted(l, world, ByTime)
           t == Limit(s)
           a == AllEvents(l)
<1>1. /\ s \in Seq(world) /\ Len(s) \in Nat /\ DOMAIN s = 1..Len(s) /\ ToSet(s) = world
      /\ IsInjective(s)
      /\ \A m, n \in DOMAIN s : m < n => ByTime[s[m]] <= ByTime[s[n]]
  BY WorldFact, SortedFact
<1>2. a.nodes = t /\ a.total = Len(t)
  BY DEF AllEvents, Answer
<1> HIDE DEF s
<1>3. t \in Seq(world) /\ \E k \in 0..Len(s) : IsPrefixTo(s, t, k)
  BY <1>1, LimitFact
<1> HIDE DEF t, a
<1>4. PICK k \in 0..Len(s) : IsPrefixTo(s, t, k)
  BY <1>3
<1>5. /\ DOMAIN t = 1..k /\ Len(t) = k /\ k \in Nat
      /\ \A n \in 1..k : t[n] = s[n] /\ n \in DOMAIN s
      /\ k <= Cap
      /\ k = Len(s) \/ k = Cap \/ Warnings(s, k) >= Target
  <2>1. k \in Nat /\ k <= Len(s)
    BY <1>1
  <2>2. Len(t) = k /\ DOMAIN t = 1..k
    BY <1>3, <1>4 DEF IsPrefixTo
  <2>3. \A n \in 1..k : n \in DOMAIN s
    BY <1>1, <2>1
  <2> QED
    BY <1>4, <2>1, <2>2, <2>3 DEF IsPrefixTo
<1>6. IsInjective(t)
  BY <1>1, <1>5 DEF IsInjective
<1>7. ToSet(t) \subseteq world
  BY <1>1, <1>5 DEF ToSet
<1>8. ASSUME NEW x \in ToSet(t), NEW y \in world \ ToSet(t)
      PROVE  x.time <= y.time
  <2>1. PICK n \in 1..k : x = s[n]
    BY <1>5 DEF ToSet
  <2>2. PICK m \in DOMAIN s : y = s[m]
    BY <1>1 DEF ToSet
  <2>3. m \notin 1..k
    BY <1>5, <2>2 DEF ToSet
  <2>4. n < m /\ n \in DOMAIN s
    <3>1. m \in Nat /\ m >= 1 /\ k \in Nat
      <4>1. m \in 1..Len(s) /\ Len(s) \in Nat
        BY <1>1
      <4> QED
        BY <1>5, <4>1
    <3> QED
      BY <1>5, <2>3, <3>1
  <2>5. ByTime[x] <= ByTime[y]
    BY <1>1, <2>1, <2>2, <2>4
  <2>6. ByTime[x] = x.time /\ ByTime[y] = y.time
    BY <1>7 DEF ByTime, QueryInv
  <2> QED
    BY <2>5, <2>6
<1>9. CASE k = Len(s)
  <2>1. ToSet(t) = world
    BY <1>1, <1>5, <1>9 DEF ToSet
  <2> QED
    BY <1>2, <1>3, <1>5, <1>6, <1>7, <1>8, <2>1 DEF IsPlain, IsFilled, a
<1>10. CASE k = Cap
  BY <1>2, <1>3, <1>5, <1>6, <1>7, <1>8, <1>10 DEF IsPlain, IsFilled, a
<1>11. CASE Warnings(s, k) >= Target
  <2> DEFINE W == {m \in 1..k : s[m].warning}
  <2>1. W \in SUBSET DOMAIN s
    BY <1>5
  <2>2. IsFiniteSet(W)
    <3>1. IsFiniteSet(1..k)
      BY <1>5, FS_Interval
    <3> QED
      BY <3>1, FS_Subset
  <2>3. \A i, j \in W : s[i] = s[j] => i = j
    BY <1>1, <2>1 DEF IsInjective
  <2>4. Cardinality({s[m] : m \in W}) = Cardinality(W)
    <3> HIDE DEF W
    <3> QED
      BY <2>1, <2>2, <2>3, PickedCount
  <2>5. {x \in ToSet(t) : x.warning} = {s[m] : m \in W}
    BY <1>5 DEF ToSet
  <2>6. Cardinality({x \in ToSet(t) : x.warning}) >= Target
    BY <1>11, <2>4, <2>5 DEF Warnings
  <2> QED
    BY <1>2, <1>3, <1>5, <1>6, <1>7, <1>8, <2>6 DEF IsPlain, IsFilled, a
<1> QED
  BY <1>5, <1>9, <1>10, <1>11

LEMMA EventsShown ==
  ASSUME QueryInv, NEW q, IsQuestion(q), NEW a, IsAnswer(q, a), kind = "event"
  PROVE  /\ IsPlain(a)
         /\ a.err = NoError =>
              /\ q.f = "eventsOf" => ToSet(a.nodes) = {e \in world : Involves(e, q.ref)}
              /\ q.f = "allEvents" => IsFilled(a)
<1>1. q.f \in {"allEvents", "eventsOf"}
  BY QuestionFact DEF QuestionOf
<1>2. CASE a = Failed("server")
  BY <1>2, WorldFact, PlainFact DEF NoError
<1>3. CASE q.f = "allEvents" /\ \E l \in Lists : a = AllEvents(l)
  BY <1>3, AllEventsFact
<1>4. CASE q.f = "eventsOf" /\ \E l \in Lists : a = EventsOf(q.ref, l)
  <2> DEFINE fits == {e \in world : Involves(e, q.ref)}
  <2>1. fits \in SUBSET world /\ \E l \in Lists : a = Answer(Sorted(l, fits, ByIDReversed))
    BY <1>4 DEF EventsOf
  <2>2. Comparable(ByIDReversed, fits)
    BY WorldFact DEF Comparable
  <2>3. IsPlain(a) /\ ToSet(a.nodes) = fits
    <3> HIDE DEF fits
    <3> QED
      BY <2>1, <2>2, WorldFact, PlainFact
  <2> QED
    BY <1>4, <2>3
<1> QED
  BY <1>1, <1>2, <1>3, <1>4 DEF IsAnswer, IsGathered

LEMMA ReferentsShown ==
  ASSUME QueryInv, NEW q, IsQuestion(q), NEW a, IsAnswer(q, a), kind = "referent"
  PROVE  /\ q.f \notin {"owners", "objects"} => IsPlain(a)
         /\ q.f \in {"owners", "objects"} =>
              /\ a.total = Len(a.nodes) /\ IsInjective(a.nodes)
              /\ ToSet(a.nodes) \subseteq Objects[kind]
         /\ a.err = NoError =>
              /\ q.f \in {"owners", "objects"} =>
                   {x.name : x \in ToSet(a.nodes)} = {ObjectRefs[i].name : i \in Followed(q.f)}
              /\ q.f = "controller" => \A x \in ToSet(a.nodes) :
                   \E i \in DOMAIN ObjectRefs : x.name = ObjectRefs[i].name
<1>1. q.f \in {"owners", "objects", "controller", "referent"}
  BY QuestionFact DEF QuestionOf
<1>2. CASE a = Failed("server")
  <2>1. IsPlain(a) /\ a.err # NoError
    BY <1>2, WorldFact, PlainFact DEF NoError
  <2>2. /\ a.total = Len(a.nodes) /\ IsInjective(a.nodes)
        /\ ToSet(a.nodes) \subseteq Objects[kind]
    BY <2>1 DEF IsPlain, QueryInv
  <2> QED
    BY <2>1, <2>2
<1>3. CASE q.f = "controller" /\ a = Controller
  BY <1>3, ControllerFact
<1>4. CASE q.f = "referent" /\ a = Referent(q.name, q.lenient)
  BY <1>4, ReferentFact
<1>5. CASE q.f \in {"owners", "objects"} /\ IsGathered(q.f, a)
  <2>1. ToSet(a.nodes) \subseteq Objects[kind]
    BY <1>5 DEF IsGathered, ToSet
  <2> QED
    BY <1>5, <2>1 DEF IsGathered
<1> QED
  BY <1>1, <1>2, <1>3, <1>4, <1>5 DEF IsAnswer, IsGathered

(* What is true of every answer. *)
LEMMA WellFormed ==
  ASSUME QueryInv, NEW q, IsQuestion(q), NEW a, IsAnswer(q, a)
  PROVE  /\ a.total = Len(a.nodes)
         /\ IsInjective(a.nodes)
         /\ ToSet(a.nodes) \subseteq {Nil} \cup (IF q.f \in {"owners", "objects"}
                                                 THEN Objects[kind] ELSE world)
         /\ a.err = NoError => Nil \notin ToSet(a.nodes)
<1>1. kind \in Kinds /\ QuestionOf(q, kind)
  BY QuestionFact DEF QueryInv
<1>2. CASE kind # "referent"
  <2>1. IsTold(a)
    BY <1>1, <1>2, RevisionsShown, DefinitionsShown, ResourcesShown, EventsShown, PlainIsTold
       DEF Kinds
  <2>2. q.f \notin {"owners", "objects"}
    BY <1>1, <1>2 DEF QuestionOf, Kinds
  <2> QED
    BY <2>1, <2>2 DEF IsTold
<1>3. CASE kind = "referent" /\ q.f \notin {"owners", "objects"}
  <2>1. IsTold(a)
    BY <1>3, ReferentsShown, PlainIsTold
  <2> QED
    BY <1>3, <2>1 DEF IsTold
<1>4. CASE kind = "referent" /\ q.f \in {"owners", "objects"}
  BY <1>4, ReferentsShown, WorldFact
<1> QED
  BY <1>2, <1>3, <1>4

-----------------------------------------------------------------------------
(* The properties                                                          *)

LEMMA InvQueryTypeOK ==
  ASSUME QueryInv
  PROVE  QueryTypeOK
<1>1. /\ kind \in Kinds /\ world \subseteq Objects[kind]
      /\ Cardinality(DOMAIN page) <= MaxAsked
      /\ \A q \in DOMAIN page : IsQuestion(q) /\ IsAnswer(q, page[q])
  BY DEF QueryInv, PageOK
<1>2. ASSUME NEW q \in DOMAIN page
      PROVE  /\ q.f # "kubernetesResource" => q \in Fields
             /\ page[q].total = Len(page[q].nodes)
             /\ IsInjective(page[q].nodes)
             /\ Shown(q) \subseteq {Nil} \cup (IF q.f \in {"owners", "objects"}
                                              THEN Objects[kind] ELSE world)
             /\ Succeeded(q) => Nil \notin Shown(q)
  <2>1. IsQuestion(q) /\ IsAnswer(q, page[q])
    BY <1>1
  <2>2. q.f # "kubernetesResource" => q \in Fields
    BY <2>1 DEF IsQuestion
  <2> QED
    BY <2>1, <2>2, WellFormed DEF Shown, Succeeded
<1>3. LookupIsFaithful => /\ kind = "definition"
                          /\ lookup.step \in {"get", "list"} /\ lookup.of \in GroupKinds
                          /\ lookup.kept \subseteq world
  BY DEF LookupIsFaithful
<1>4. GatherIsFaithful => /\ kind = "referent"
                          /\ lookup.step = "gather" /\ lookup.kept \subseteq world
                          /\ lookup.todo \subseteq Followed(lookup.of)
                          /\ ToSet(lookup.nodes) \subseteq Objects[kind]
  <2> SUFFICES ASSUME GatherIsFaithful
               PROVE  /\ lookup.step = "gather" /\ lookup.kept \subseteq world
                      /\ ToSet(lookup.nodes) \subseteq Objects[kind]
    BY DEF GatherIsFaithful
  <2>1. /\ lookup.step \in {"gather"} /\ lookup.kept \subseteq world
        /\ lookup.nodes \in Seq(Objects[kind])
    BY DEF GatherIsFaithful, GatherState
  <2>2. ToSet(lookup.nodes) \subseteq Objects[kind]
    BY <2>1 DEF ToSet
  <2> QED
    BY <2>1, <2>2
<1> QED
  BY <1>1, <1>2, <1>3, <1>4 DEF QueryTypeOK, QueryInv

(* Answers are of fields that were asked, show objects that exist, each    *)
(* once, and count what they show (QueryTypeOK).                           *)
THEOREM AnswersAreTyped == QuerySpec => []QueryTypeOK
BY QueryInvariant, InvQueryTypeOK, PTL

(* What the answers on the page are. *)
LEMMA OnPage ==
  ASSUME QueryInv, NEW q \in DOMAIN page
  PROVE  IsQuestion(q) /\ IsAnswer(q, page[q]) /\ QuestionOf(q, kind) /\ kind \in Kinds
BY QuestionFact DEF QueryInv, PageOK

LEMMA InvMissingIsReported ==
  ASSUME QueryInv
  PROVE  MissingIsReported
<1> SUFFICES ASSUME NEW q \in DOMAIN page, Succeeded(q)
             PROVE  /\ q.f = "kubernetesResources" => Shown(q) = InNamespace(q.ns)
                    /\ q.f = "definedResources" => Shown(q) = world
                    /\ q.f \in {"owners", "objects"} =>
                         {x.name : x \in Shown(q)} = {ObjectRefs[i].name : i \in Followed(q.f)}
  BY DEF MissingIsReported, InNamespace
<1>1. /\ IsQuestion(q) /\ IsAnswer(q, page[q]) /\ QuestionOf(q, kind) /\ kind \in Kinds
      /\ page[q].err = NoError
  BY OnPage DEF Succeeded
<1>2. q.f \in {"kubernetesResources", "definedResources"} => kind = "resource"
  BY <1>1 DEF QuestionOf, Kinds
<1>3. q.f \in {"owners", "objects"} => kind = "referent"
  BY <1>1 DEF QuestionOf, Kinds
<1> QED
  BY <1>1, <1>2, <1>3, ResourcesShown, ReferentsShown DEF Shown

(* What an answer without an error leaves out is nothing that was asked    *)
(* for: what cannot be modelled, or is not there, is reported.  No claim   *)
(* is made for cached cluster scoped resources if a namespace is given.    *)
THEOREM NothingIsMissingUnreported == QuerySpec => []MissingIsReported
BY QueryInvariant, InvMissingIsReported, PTL

LEMMA InvRevisionsAgree ==
  ASSUME QueryInv
  PROVE  RevisionsAgree
<1> SUFFICES ASSUME NEW p \in DOMAIN page, NEW q \in DOMAIN page,
                    Succeeded(p), Succeeded(q), p.f = "revisions"
             PROVE  /\ q.f = "activeRevision" /\ q.uid = p.uid =>
                         /\ Shown(q) \subseteq {x \in Shown(p) : x.active}
                         /\ Shown(q) = {} => \A x \in Shown(p) : ~x.active
                    /\ q.f = "packageRevisions" =>
                         \A x \in Shown(p) :
                           /\ \E r \in ToSet(x.owners) : q.owner = r.id /\ r.uid = p.uid
                           /\ q.active => x.active
                           => x \in Shown(q)
  BY DEF RevisionsAgree
<1>1. /\ IsQuestion(p) /\ IsAnswer(p, page[p]) /\ QuestionOf(p, kind) /\ kind \in Kinds
      /\ IsQuestion(q) /\ IsAnswer(q, page[q])
      /\ page[p].err = NoError /\ page[q].err = NoError
  BY OnPage DEF Succeeded
<1>2. kind = "revision"
  BY <1>1 DEF QuestionOf, Kinds
<1>3. Shown(p) = {x \in world : ControlledBy(x, p.uid)}
  BY <1>1, <1>2, RevisionsShown DEF Shown
<1>4. ASSUME q.f = "activeRevision", q.uid = p.uid
      PROVE  /\ Shown(q) \subseteq {x \in Shown(p) : x.active}
             /\ Shown(q) = {} => \A x \in Shown(p) : ~x.active
  <2> DEFINE fits == {x \in world : x.active /\ ControlledBy(x, q.uid)}
  <2>1. Shown(q) \subseteq fits /\ (Shown(q) = {} => fits = {})
    BY <1>1, <1>2, <1>4, RevisionsShown DEF Shown
  <2> QED
    BY <1>3, <1>4, <2>1
<1>5. ASSUME q.f = "packageRevisions", NEW x \in Shown(p), q.active => x.active,
             NEW r \in ToSet(x.owners), q.owner = r.id
      PROVE  x \in Shown(q)
  <2>1. Shown(q) = {y \in world : /\ q.owner = None \/ ContainsID(y, q.owner)
                                  /\ q.active => y.active}
    BY <1>1, <1>2, <1>5, RevisionsShown DEF Shown
  <2>2. ContainsID(x, q.owner)
    BY <1>5 DEF ContainsID
  <2> QED
    BY <1>3, <1>5, <2>1, <2>2
<1> QED
  BY <1>4, <1>5

LEMMA InvOwnershipAgrees ==
  ASSUME QueryInv
  PROVE  OwnershipAgrees
<1> SUFFICES ASSUME NEW p \in DOMAIN page, NEW q \in DOMAIN page,
                    Succeeded(p), Succeeded(q),
                    p.f = "definitions", p.dangling, p.revision = None,
                    q.f = "definitions", ~q.dangling, q.revision \in ConfigRevisions
             PROVE  /\ Shown(p) \cap Shown(q) = {}
                    /\ \A x \in world \ Shown(p) :
                         (\A r \in ToSet(x.owners) : r.id \in ConfigRevisions => r.id = q.revision)
                           => x \in Shown(q)
  BY DEF OwnershipAgrees
<1>1. /\ IsQuestion(p) /\ IsAnswer(p, page[p]) /\ QuestionOf(p, kind) /\ kind \in Kinds
      /\ IsQuestion(q) /\ IsAnswer(q, page[q])
      /\ page[p].err = NoError /\ page[q].err = NoError
  BY OnPage DEF Succeeded
<1>2. kind = "definition"
  BY <1>1 DEF QuestionOf, Kinds
<1>3. Shown(p) = {x \in world : ~ContainsCR(x)}
  <2>1. Shown(p) = {x \in world : /\ ~(p.dangling /\ ContainsCR(x))
                                  /\ p.revision = None \/ ContainsID(x, p.revision)}
    BY <1>1, <1>2, DefinitionsShown DEF Shown
  <2> QED
    BY <2>1
<1>4. Shown(q) = {x \in world : ContainsID(x, q.revision)}
  <2>1. Shown(q) = {x \in world : /\ ~(q.dangling /\ ContainsCR(x))
                                  /\ q.revision = None \/ ContainsID(x, q.revision)}
    BY <1>1, <1>2, DefinitionsShown DEF Shown
  <2>2. q.revision # None
    BY ResolversAssumption
  <2> QED
    BY <2>1, <2>2
<1>5. \A x : ContainsID(x, q.revision) => ContainsCR(x)
  BY DEF ContainsID, ContainsCR
<1>6. ASSUME NEW x, ContainsCR(x),
             \A r \in ToSet(x.owners) : r.id \in ConfigRevisions => r.id = q.revision
      PROVE  ContainsID(x, q.revision)
  BY <1>6 DEF ContainsID, ContainsCR
<1> QED
  BY <1>3, <1>4, <1>5, <1>6

LEMMA InvReadyAgrees ==
  ASSUME QueryInv
  PROVE  ReadyAgrees
<1> SUFFICES ASSUME NEW p \in DOMAIN page, NEW q \in DOMAIN page,
                    Succeeded(p), Succeeded(q),
                    p.f = "definedByXRD", p.ready = "true",
                    q.f = "definedByXRD", q.ready = "false", q.ns = p.ns
             PROVE  /\ Shown(p) \cap Shown(q) = {}
                    /\ Shown(p) \cup Shown(q) = InNamespace(p.ns)
  BY DEF ReadyAgrees
<1>1. /\ IsQuestion(p) /\ IsAnswer(p, page[p]) /\ QuestionOf(p, kind) /\ kind \in Kinds
      /\ IsQuestion(q) /\ IsAnswer(q, page[q])
      /\ page[p].err = NoError /\ page[q].err = NoError
  BY OnPage DEF Succeeded
<1>2. kind = "resource"
  BY <1>1 DEF QuestionOf, Kinds
<1>3. /\ Shown(p) = {x \in InNamespace(p.ns) : ReadyMatches("true", x)}
      /\ Shown(q) = {x \in InNamespace(p.ns) : ReadyMatches("false", x)}
  BY <1>1, <1>2, ResourcesShown DEF Shown
<1>4. \A x : ReadyMatches("false", x) <=> ~ReadyMatches("true", x)
  BY DEF ReadyMatches, None
<1> QED
  BY <1>3, <1>4

LEMMA InvEventsAgree ==
  ASSUME QueryInv
  PROVE  EventsAgree
<1> SUFFICES ASSUME NEW p \in DOMAIN page, NEW q \in DOMAIN page,
                    Succeeded(p), Succeeded(q),
                    p.f = "eventsOf", p.ref.uid # None,
                    q.f = "eventsOf", q.ref = [p.ref EXCEPT !.uid = None]
             PROVE  {e \in Shown(p) : e.about.av = q.ref.av}
                      = {e \in Shown(q) : e.about.uid = p.ref.uid}
  BY DEF EventsAgree
<1>1. /\ IsQuestion(p) /\ IsAnswer(p, page[p]) /\ QuestionOf(p, kind) /\ kind \in Kinds
      /\ IsQuestion(q) /\ IsAnswer(q, page[q])
      /\ page[p].err = NoError /\ page[q].err = NoError
  BY OnPage DEF Succeeded
<1>2. kind = "event" /\ world \subseteq Objects["event"]
  BY <1>1 DEF QuestionOf, Kinds, QueryInv
<1>3. /\ Shown(p) = {e \in world : Involves(e, p.ref)}
      /\ Shown(q) = {e \in world : Involves(e, q.ref)}
  BY <1>1, <1>2, EventsShown DEF Shown
<1>4. p.ref \in Involved
  <2>1. p.ref \in References
    BY <1>1, <1>2 DEF IsQuestion, Fields
  <2>2. ASSUME NEW i \in Involved, p.ref = [i EXCEPT !.uid = None] PROVE FALSE
    BY <2>2, ResolversAssumption
  <2> QED
    BY <2>1, <2>2 DEF References
<1>5. q.ref.uid = None /\ q.ref.av = p.ref.av /\ q.ref.name = p.ref.name
  BY <1>4, ResolversAssumption
<1>6. \A e \in world : e.about.uid = p.ref.uid => e.about.name = p.ref.name
  BY <1>2, <1>4, ResolversAssumption
<1> QED
  BY <1>3, <1>5, <1>6 DEF Involves

LEMMA InvOwnersAgree ==
  ASSUME QueryInv
  PROVE  OwnersAgree
<1> SUFFICES ASSUME NEW p \in DOMAIN page, NEW q \in DOMAIN page,
                    Succeeded(p), Succeeded(q), p.f = "controller", q.f = "owners",
                    NEW x \in Shown(p)
             PROVE  \E y \in Shown(q) : y.name = x.name
  BY DEF OwnersAgree
<1>1. /\ IsQuestion(p) /\ IsAnswer(p, page[p]) /\ QuestionOf(p, kind) /\ kind \in Kinds
      /\ IsQuestion(q) /\ IsAnswer(q, page[q])
      /\ page[p].err = NoError /\ page[q].err = NoError
  BY OnPage DEF Succeeded
<1>2. kind = "referent"
  BY <1>1 DEF QuestionOf, Kinds
<1>3. PICK i \in DOMAIN ObjectRefs : x.name = ObjectRefs[i].name
  BY <1>1, <1>2, ReferentsShown DEF Shown
<1>4. i \in Followed("owners")
  BY DEF Followed
<1>5. {y.name : y \in Shown(q)} = {ObjectRefs[j].name : j \in Followed("owners")}
  BY <1>1, <1>2, ReferentsShown DEF Shown
<1> QED
  BY <1>3, <1>4, <1>5

(* What different fields answer about the same objects agrees: the         *)
(* revisions of a package, who owns a definition, which resources are      *)
(* ready, the events of a resource and of its ID (at the API version of    *)
(* the ID), owners and controller.                                         *)
THEOREM DifferentAnswersAgree == QuerySpec => []AnswersAgree
<1>1. QueryInv => AnswersAgree
  BY InvRevisionsAgree, InvOwnershipAgrees, InvReadyAgrees, InvEventsAgree, InvOwnersAgree
     DEF AnswersAgree
<1> QED
  BY <1>1, QueryInvariant, PTL

LEMMA InvWarningsShown ==
  ASSUME QueryInv
  PROVE  WarningsShown
<1> SUFFICES ASSUME NEW q \in DOMAIN page, Succeeded(q), q.f = "allEvents"
             PROVE  IsFilled(page[q])
  BY DEF WarningsShown, IsFilled, Shown
<1>1. /\ IsQuestion(q) /\ IsAnswer(q, page[q]) /\ QuestionOf(q, kind) /\ kind \in Kinds
      /\ page[q].err = NoError
  BY OnPage DEF Succeeded
<1>2. kind = "event"
  BY <1>1 DEF QuestionOf, Kinds
<1> QED
  BY <1>1, <1>2, EventsShown

(* The oldest events are shown, and one is left out only for the Cap or    *)
(* for the Target: limit never cuts off an event that the view has room    *)
(* for.                                                                    *)
THEOREM EnoughWarningsAreShown == QuerySpec => []WarningsShown
BY QueryInvariant, InvWarningsShown, PTL

(* The namespace that an ID leaves out is one that the resource has not. *)
LEMMA NamespaceKept ==
  ASSUME NEW x \in Objects["resource"]
  PROVE  ReferenceID(x).ns = x.ns
<1>1. CASE TypeOf(x) \in NamespacedTypes
  BY <1>1 DEF ReferenceID
<1>2. CASE TypeOf(x) \notin NamespacedTypes
  <2>1. ClusterScoped(x)
    <3>1. CASE TypeOf(x) \in KnownKinds
      BY <1>2, <3>1, ResolversAssumption
    <3>2. CASE TypeOf(x) \notin KnownKinds
      BY <1>2, <3>2 DEF TypeOf, IsKnown, NamespacedTypes, ProbablyProviderConfig,
         ProbablyComposite, ProbablyManaged
    <3> QED
      BY <3>1, <3>2
  <2> QED
    BY <1>2, <2>1 DEF ReferenceID, ClusterScoped
<1> QED
  BY <1>1, <1>2

LEMMA ResourceID ==
  ASSUME NEW x \in Objects["resource"]
  PROVE  IsID(ReferenceID(x)) /\ Sep \notin ToSet(x.av)
<1>1. /\ x.av \in Seq(STRING) /\ x.kind \in Seq(STRING) /\ x.ns \in Seq(STRING)
      /\ x.name \in Seq(STRING)
      /\ Sep \notin ToSet(x.av) \cup ToSet(x.kind) \cup ToSet(x.ns)
  BY ResolversAssumption
<1>2. \A s \in Seq(STRING) : s \in Seq(Token)
  BY DEF Token
<1>3. /\ ReferenceID(x).av = x.av /\ ReferenceID(x).kind = x.kind
      /\ ReferenceID(x).ns = x.ns /\ ReferenceID(x).name = x.name
  BY NamespaceKept DEF ReferenceID
<1> QED
  BY <1>1, <1>2, <1>3 DEF IsID

LEMMA InvIdLeadsBack ==
  ASSUME QueryInv
  PROVE  IdLeadsBack
<1> SUFFICES ASSUME NEW q \in DOMAIN page, NEW x \in world,
                    q.f = "kubernetesResource", q.id = String(ReferenceID(x)),
                    Models(x), page[q].err # "server"
             PROVE  IF Sep \in ToSet(x.name) THEN page[q].err = "malformed"
                                             ELSE page[q].nodes = <<x>>
  BY DEF IdLeadsBack
<1> DEFINE id == ParseReferenceID(q.id)
<1>1. /\ IsQuestion(q) /\ IsAnswer(q, page[q]) /\ QuestionOf(q, kind) /\ kind \in Kinds
  BY OnPage
<1>2. kind = "resource" /\ x \in Objects["resource"] /\ NamesUnique(world)
  BY <1>1 DEF QuestionOf, Kinds, QueryInv
<1>3. page[q] = KubernetesResource(id)
  BY <1>1 DEF IsAnswer, IsGathered, Failed
<1>4. id = IF Sep \in ToSet(ReferenceID(x).name) THEN Malformed
           ELSE [av |-> ReferenceID(x).av, kind |-> ReferenceID(x).kind,
                 ns |-> ReferenceID(x).ns, name |-> ReferenceID(x).name]
  BY <1>2, ResourceID, ParseFact
<1>5. /\ ReferenceID(x).av = x.av /\ ReferenceID(x).kind = x.kind
      /\ ReferenceID(x).ns = x.ns /\ ReferenceID(x).name = x.name
  BY <1>2, NamespaceKept DEF ReferenceID
<1> HIDE DEF id
<1>6. CASE Sep \in ToSet(x.name)
  BY <1>3, <1>4, <1>5, <1>6 DEF KubernetesResource, Failed
<1>7. CASE Sep \notin ToSet(x.name)
  <2> DEFINE found == {y \in world : /\ y.av = id.av /\ y.kind = id.kind
                                     /\ y.ns = id.ns /\ y.name = id.name}
  <2>1. id.av = x.av /\ id.kind = x.kind /\ id.ns = x.ns /\ id.name = x.name
    BY <1>4, <1>5, <1>7
  <2>2. id # Malformed
    <3>1. Malformed.av = <<Sep>> /\ Sep \in ToSet(<<Sep>>)
      BY DEF Malformed, ToSet
    <3> QED
      BY <1>2, <2>1, <3>1, ResourceID
  <2>3. found = {x}
    BY <1>2, <2>1 DEF NamesUnique, SameName
  <2>4. (CHOOSE y \in found : TRUE) = x
    BY <2>3
  <2>5. KubernetesResource(id) = Answer(<<x>>)
    BY <2>2, <2>3, <2>4 DEF KubernetesResource
  <2> QED
    BY <1>3, <1>7, <2>5 DEF Answer
<1> QED
  BY <1>6, <1>7

(* The ID of a resource leads back to it, for every resource that the API  *)
(* server can have, unless its name has the separator: what ParseReference *)
(* reads then is no ID.                                                    *)
THEOREM IdsLeadBack == QuerySpec => []IdLeadsBack
BY QueryInvariant, InvIdLeadsBack, PTL

-----------------------------------------------------------------------------
(* Answers that are given again                                            *)

LEMMA ConnectionSame ==
  ASSUME QueryInv, kind # "referent", \A x, y \in world : x.key = y.key => x = y,
         NEW l \in Lists, NEW m \in Lists, NEW k \in SUBSET world
  PROVE  /\ Connection(l, k) = Connection(m, k)
         /\ Sorted(l, k, ByIDReversed) = Sorted(m, k, ByIDReversed)
<1>1. IsFiniteSet(world) /\ Comparable(ByID, k) /\ Comparable(ByIDReversed, k)
  BY WorldFact DEF Comparable
<1>2. \A x \in world : ByID[x] = x.key /\ ByIDReversed[x] = -x.key /\ x.key \in Int
  BY ResolversAssumption DEF ByID, ByIDReversed, QueryInv
<1>3. \A x, y \in k : ByID[x] = ByID[y] => x = y
  BY <1>2
<1>4. \A x, y \in k : ByIDReversed[x] = ByIDReversed[y] => x = y
  <2> SUFFICES ASSUME NEW x \in k, NEW y \in k, -x.key = -y.key PROVE x = y
    BY <1>2
  <2> DEFINE i == x.key
             j == y.key
  <2>1. i \in Int /\ j \in Int /\ -i = -j
    BY <1>2
  <2> HIDE DEF i, j
  <2>2. i = j
    BY <2>1
  <2> QED
    BY <2>2 DEF i, j
<1>5. Sorted(l, k, ByID) = Sorted(m, k, ByID)
  BY <1>1, <1>3, SortedSame
<1>6. Sorted(l, k, ByIDReversed) = Sorted(m, k, ByIDReversed)
  BY <1>1, <1>4, SortedSame
<1> QED
  BY <1>5, <1>6 DEF Connection

(* At most one object fits: every list has it as the first one. *)
LEMMA FirstOfSame ==
  ASSUME QueryInv, NEW l \in Lists, NEW m \in Lists, NEW fits \in SUBSET world,
         \A x, y \in fits : x = y
  PROVE  FirstOf(l, fits) = FirstOf(m, fits)
<1>1. IsFiniteSet(world)
  BY WorldFact
<1>2. \/ fits = {} /\ FirstOf(l, fits) = Answer(<< >>)
      \/ \E x \in fits : FirstOf(l, fits) = Answer(<<x>>)
  BY <1>1, FirstOfFact
<1>3. \/ fits = {} /\ FirstOf(m, fits) = Answer(<< >>)
      \/ \E x \in fits : FirstOf(m, fits) = Answer(<<x>>)
  BY <1>1, FirstOfFact
<1>4. CASE fits = {}
  BY <1>2, <1>3, <1>4
<1>5. CASE fits # {}
  <2>1. PICK x \in fits : FirstOf(l, fits) = Answer(<<x>>)
    BY <1>2, <1>5
  <2>2. PICK y \in fits : FirstOf(m, fits) = Answer(<<y>>)
    BY <1>3, <1>5
  <2>3. x = y
    OBVIOUS
  <2> QED
    BY <2>1, <2>2, <2>3
<1> QED
  BY <1>4, <1>5

Repeatable == {NoError, "model"}

LEMMA ServerIsNotRepeatable ==
  /\ Failed("server").err \notin Repeatable
  /\ Failed("panic").err \notin Repeatable
BY DEF Failed, Repeatable, NoError

LEMMA RevisionsSame ==
  ASSUME QueryInv, NEW q, IsQuestion(q), kind = "revision", Ordered(q),
         NEW a, IsAnswer(q, a), a.err \in Repeatable,
         NEW b, IsAnswer(q, b), b.err \in Repeatable
  PROVE  a = b
<1>1. q.f \in {"revisions", "activeRevision", "packageRevisions"}
  BY QuestionFact DEF QuestionOf
<1>2. CASE q.f = "revisions"
  <2> DEFINE fits == {x \in world : ControlledBy(x, q.uid)}
  <2>1. fits \in SUBSET world /\ \A x, y \in world : x.key = y.key => x = y
    BY <1>2 DEF Ordered
  <2>2. (\E l \in Lists : a = Connection(l, fits)) /\ (\E l \in Lists : b = Connection(l, fits))
    BY <1>2, ServerIsNotRepeatable DEF IsAnswer, IsGathered, Revisions
  <2> HIDE DEF fits
  <2> QED
    BY <2>1, <2>2, ConnectionSame
<1>3. CASE q.f = "activeRevision"
  <2> DEFINE fits == {x \in world : x.active /\ ControlledBy(x, q.uid)}
  <2>1. fits \in SUBSET world /\ \A x, y \in fits : x = y
    BY <1>3 DEF Ordered
  <2>2. (\E l \in Lists : a = FirstOf(l, fits)) /\ (\E l \in Lists : b = FirstOf(l, fits))
    BY <1>3, ServerIsNotRepeatable DEF IsAnswer, IsGathered, ActiveRevision
  <2> HIDE DEF fits
  <2> QED
    BY <2>1, <2>2, FirstOfSame
<1>4. CASE q.f = "packageRevisions"
  <2> DEFINE fits == {x \in world : /\ q.owner = None \/ ContainsID(x, q.owner)
                                    /\ q.active => x.active}
  <2>1. fits \in SUBSET world /\ \A x, y \in world : x.key = y.key => x = y
    BY <1>4 DEF Ordered
  <2>2. (\E l \in Lists : a = Connection(l, fits)) /\ (\E l \in Lists : b = Connection(l, fits))
    BY <1>4, ServerIsNotRepeatable DEF IsAnswer, IsGathered, PackageRevisions
  <2> HIDE DEF fits
  <2> QED
    BY <2>1, <2>2, ConnectionSame
<1> QED
  BY <1>1, <1>2, <1>3, <1>4

LEMMA LookupSame ==
  ASSUME QueryInv, NEW of,
         \A x, y \in world : /\ {x.defines, y.defines} = {of} => x = y
                             /\ x.name = Guess(of) => x.defines = of,
         NEW a, IsDefinition(of, a), NEW b, IsDefinition(of, b)
  PROVE  a = b
<1> DEFINE fits == {x \in world : x.defines = of}
<1>1. \A x, y \in fits : x = y
  OBVIOUS
<1>2. ASSUME NEW c, IsDefinition(of, c)
      PROVE  \/ fits = {} /\ c = Answer(<< >>)
             \/ \E x \in fits : c = Answer(<<x>>)
  <2>1. CASE \E x \in world : /\ x.name = Guess(of)
                              /\ c = IF x.defines = of THEN Answer(<<x>>) ELSE Answer(<< >>)
    BY <2>1
  <2>2. CASE \E l \in Lists : c = FirstOf(l, {x \in world : x.defines = of})
    <3>1. fits \in SUBSET world /\ \E l \in Lists : c = FirstOf(l, fits)
      BY <2>2
    <3> HIDE DEF fits
    <3> QED
      BY <3>1, WorldFact, FirstOfFact
  <2> QED
    BY <1>2, <2>1, <2>2 DEF IsDefinition
<1> HIDE DEF fits
<1>3. CASE fits = {}
  BY <1>2, <1>3
<1>4. CASE fits # {}
  <2>1. PICK x \in fits : a = Answer(<<x>>)
    BY <1>2, <1>4
  <2>2. PICK y \in fits : b = Answer(<<y>>)
    BY <1>2, <1>4
  <2>3. x = y
    BY <1>1
  <2> QED
    BY <2>1, <2>2, <2>3
<1> QED
  BY <1>3, <1>4

LEMMA DefinitionsSame ==
  ASSUME QueryInv, NEW q, IsQuestion(q), kind = "definition", Ordered(q),
         NEW a, IsAnswer(q, a), a.err \in Repeatable,
         NEW b, IsAnswer(q, b), b.err \in Repeatable
  PROVE  a = b
<1>1. q.f \in {"definitions", "definitionOfXR", "definitionOfClaim", "definition"}
  BY QuestionFact DEF QuestionOf
<1>2. CASE q.f = "definitions"
  <2> DEFINE fits == {x \in world : /\ ~(q.dangling /\ ContainsCR(x))
                                    /\ q.revision = None \/ ContainsID(x, q.revision)}
  <2>1. fits \in SUBSET world /\ \A x, y \in world : x.key = y.key => x = y
    BY <1>2 DEF Ordered
  <2>2. (\E l \in Lists : a = Connection(l, fits)) /\ (\E l \in Lists : b = Connection(l, fits))
    BY <1>2, ServerIsNotRepeatable DEF IsAnswer, IsGathered, Definitions
  <2> HIDE DEF fits
  <2> QED
    BY <2>1, <2>2, ConnectionSame
<1>3. CASE q.f = "definitionOfXR"
  <2> DEFINE fits == {x \in world : x.defines = q.of}
  <2>1. fits \in SUBSET world /\ \A x, y \in fits : x = y
    BY <1>3 DEF Ordered
  <2>2. (\E l \in Lists : a = FirstOf(l, fits)) /\ (\E l \in Lists : b = FirstOf(l, fits))
    BY <1>3, ServerIsNotRepeatable DEF IsAnswer, IsGathered
  <2> HIDE DEF fits
  <2> QED
    BY <2>1, <2>2, FirstOfSame
<1>4. CASE q.f = "definitionOfClaim"
  <2> DEFINE fits == {x \in world : x.claims = q.of}
  <2>1. fits \in SUBSET world /\ \A x, y \in fits : x = y
    BY <1>4 DEF Ordered
  <2>2. (\E l \in Lists : a = FirstOf(l, fits)) /\ (\E l \in Lists : b = FirstOf(l, fits))
    BY <1>4, ServerIsNotRepeatable DEF IsAnswer, IsGathered
  <2> HIDE DEF fits
  <2> QED
    BY <2>1, <2>2, FirstOfSame
<1>5. CASE q.f = "definition"
  <2>1. \A x, y \in world : /\ {x.defines, y.defines} = {q.of} => x = y
                            /\ x.name = Guess(q.of) => x.defines = q.of
    BY <1>5 DEF Ordered
  <2>2. IsDefinition(q.of, a) /\ IsDefinition(q.of, b)
    BY <1>5, ServerIsNotRepeatable DEF IsAnswer, IsGathered
  <2> QED
    BY <2>1, <2>2, LookupSame
<1> QED
  BY <1>1, <1>2, <1>3, <1>4, <1>5

LEMMA ResourcesSame ==
  ASSUME QueryInv, NEW q, IsQuestion(q), kind = "resource", Ordered(q),
         NEW a, IsAnswer(q, a), a.err \in Repeatable,
         NEW b, IsAnswer(q, b), b.err \in Repeatable
  PROVE  a = b
<1>1. q.f \in {"kubernetesResources", "definedResources", "definedByXRD", "kubernetesResource"}
  BY QuestionFact DEF QuestionOf
<1>2. \A x, y \in world : x.key = y.key => x = y
  BY <1>1 DEF Ordered
<1>3. CASE q.f = "kubernetesResources"
  <2> DEFINE fits == Modelled(InNamespace(q.ns))
             e == IF fits = InNamespace(q.ns) THEN NoError ELSE "model"
  <2>1. fits \in SUBSET world
    BY DEF Modelled, InNamespace
  <2>2. /\ \E l \in Lists : a = [Connection(l, fits) EXCEPT !.err = e]
        /\ \E l \in Lists : b = [Connection(l, fits) EXCEPT !.err = e]
    BY <1>3, ServerIsNotRepeatable DEF IsAnswer, IsGathered, KubernetesResources
  <2> HIDE DEF fits, e
  <2> QED
    BY <1>2, <2>1, <2>2, ConnectionSame
<1>4. CASE q.f = "definedResources"
  <2>1. PICK l \in Lists, m \in Lists : a = DefinedResources(l) /\ b = DefinedResources(m)
    BY <1>4, ServerIsNotRepeatable DEF IsAnswer, IsGathered
  <2>2. Connection(l, world) = Connection(m, world)
    BY <1>2, ConnectionSame
  <2>3. Len(l) = Len(m)
    BY ListFact, WorldFact
  <2> QED
    BY <2>1, <2>2, <2>3 DEF DefinedResources
<1>5. CASE q.f = "definedByXRD"
  <2> DEFINE fits == {x \in InNamespace(q.ns) : ReadyMatches(q.ready, x)}
  <2>1. fits \in SUBSET world
    BY DEF InNamespace
  <2>2. (\E l \in Lists : a = Connection(l, fits)) /\ (\E l \in Lists : b = Connection(l, fits))
    BY <1>5, ServerIsNotRepeatable DEF IsAnswer, IsGathered, DefinedByXRD
  <2> HIDE DEF fits
  <2> QED
    BY <1>2, <2>1, <2>2, ConnectionSame
<1>6. CASE q.f = "kubernetesResource"
  BY <1>6, ServerIsNotRepeatable DEF IsAnswer, IsGathered
<1> QED
  BY <1>1, <1>3, <1>4, <1>5, <1>6

LEMMA EventsSame ==
  ASSUME QueryInv, NEW q, IsQuestion(q), kind = "event", Ordered(q),
         NEW a, IsAnswer(q, a), a.err \in Repeatable,
         NEW b, IsAnswer(q, b), b.err \in Repeatable
  PROVE  a = b
<1>1. q.f \in {"allEvents", "eventsOf"}
  BY QuestionFact DEF QuestionOf
<1>2. CASE q.f = "allEvents"
  <2>1. PICK l \in Lists, m \in Lists : a = AllEvents(l) /\ b = AllEvents(m)
    BY <1>2, ServerIsNotRepeatable DEF IsAnswer, IsGathered
  <2>2. \A x, y \in world : ByTime[x] = ByTime[y] => x = y
    BY <1>2 DEF Ordered, ByTime, QueryInv
  <2>3. Sorted(l, world, ByTime) = Sorted(m, world, ByTime)
    BY <2>2, WorldFact, SortedSame
  <2> QED
    BY <2>1, <2>3 DEF AllEvents
<1>3. CASE q.f = "eventsOf"
  <2> DEFINE fits == {e \in world : Involves(e, q.ref)}
  <2>1. fits \in SUBSET world /\ \A x, y \in world : x.key = y.key => x = y
    BY <1>3 DEF Ordered
  <2>2. /\ \E l \in Lists : a = Answer(Sorted(l, fits, ByIDReversed))
        /\ \E l \in Lists : b = Answer(Sorted(l, fits, ByIDReversed))
    BY <1>3, ServerIsNotRepeatable DEF IsAnswer, IsGathered, EventsOf
  <2> HIDE DEF fits
  <2> QED
    BY <2>1, <2>2, ConnectionSame
<1> QED
  BY <1>1, <1>2, <1>3

LEMMA ReferentsSame ==
  ASSUME QueryInv, NEW q, IsQuestion(q), kind = "referent", Ordered(q),
         NEW a, IsAnswer(q, a), a.err \in Repeatable,
         NEW b, IsAnswer(q, b), b.err \in Repeatable
  PROVE  a = b
<1>1. q.f \in {"owners", "objects", "controller", "referent"}
  BY QuestionFact DEF QuestionOf
<1>2. q.f \notin {"owners", "objects"}
  BY DEF Ordered
<1>3. CASE q.f = "controller"
  BY <1>3, ServerIsNotRepeatable DEF IsAnswer, IsGathered
<1>4. CASE q.f = "referent"
  BY <1>4, ServerIsNotRepeatable DEF IsAnswer, IsGathered
<1> QED
  BY <1>1, <1>2, <1>3, <1>4

LEMMA KindStays ==
  ASSUME QueryNext
  PROVE  UNCHANGED kind
BY DEF QueryNext, AskRevisions, AskActiveRevision, AskPackageRevisions, AskDefinitions,
   AskXRD, AskClaimXRD, AskDefinition, GetDefinition, NoSuchDefinition, ListDefinitions,
   AskKubernetesResources, AskDefinedResources, AskDefinedByXRD, AskBack, AskEvents,
   AskReferent, AskReferents, ReferentsRead, ReadReferent, ReferentMissing, AskFails,
   Change, Reply, Finish

LEMMA AnswerSame ==
  ASSUME QueryInv, NEW q, IsQuestion(q), Ordered(q),
         NEW a, IsAnswer(q, a), a.err \in Repeatable,
         NEW b, IsAnswer(q, b), b.err \in Repeatable
  PROVE  a = b
<1>1. kind \in Kinds
  BY DEF QueryInv
<1> QED
  BY <1>1, RevisionsSame, DefinitionsSame, ResourcesSame, EventsSame, ReferentsSame DEF Kinds

(* A field gives the same answer again while nothing changes, in whatever  *)
(* order the cache lists: what is sorted has one order if no two keys are  *)
(* the same, and one object that fits is the first one in every list.      *)
THEOREM AnswersAreRepeated == QuerySpec => SameAnswer
<1>1. ASSUME QueryInv, QueryInv', QueryNext, world' = world,
             NEW q \in DOMAIN page \cap DOMAIN page', Ordered(q),
             {page[q].err, page'[q].err} \subseteq Repeatable
      PROVE  page'[q] = page[q]
  <2>1. UNCHANGED <<kind, world>>
    BY <1>1, KindStays
  <2>2. IsQuestion(q) /\ IsAnswer(q, page[q])
    BY <1>1 DEF QueryInv, PageOK
  <2>3. IsAnswer(q, page[q])'
    BY <1>1 DEF QueryInv, PageOK
  <2>4. \A r, a : IsAnswer(r, a)' <=> IsAnswer(r, a)
    BY <2>1, AnswerStays
  <2>5. IsAnswer(q, page'[q])
    BY <2>3, <2>4
  <2> QED
    BY <1>1, <2>2, <2>5, AnswerSame
<1>2. QueryInv /\ QueryInv' /\ [QueryNext]_queryVars =>
        [\A q \in DOMAIN page \cap DOMAIN page' :
           /\ world' = world
           /\ Ordered(q)
           /\ {page[q].err, page'[q].err} \subseteq {NoError, "model"}
           => page'[q] = page[q]]_<<world, page>>
  BY <1>1 DEF queryVars, Repeatable
<1> QED
  BY <1>2, QueryInvariant, PTL DEF QuerySpec, SameAnswer

(* The steps that end a lookup. *)
LEMMA LookupEnds ==
  ASSUME QueryInv, QueryNext, lookup # Idle, lookup' = Idle
  PROVE  GetDefinition \/ ListDefinitions \/ ReferentsRead
           \/ ((Looking("get") \/ Looking("list")) /\ Finish(Failed("server")))
<1>1. UNCHANGED lookup => FALSE
  OBVIOUS
<1>2. NoSuchDefinition => FALSE
  <2> SUFFICES ASSUME NoSuchDefinition PROVE FALSE
    OBVIOUS
  <2>1. lookup.step = "get" /\ lookup' = [lookup EXCEPT !.step = "list"]
    BY DEF NoSuchDefinition, Looking
  <2>2. lookup \in [step : {"get", "list"}, of : GroupKinds, kept : SUBSET world]
    BY <2>1, LookedUp DEF LookupIsFaithful
  <2>3. lookup'.step = "list"
    BY <2>1, <2>2
  <2> QED
    BY <2>3 DEF Idle
<1>3. \A i, e : Gathering(i) /\ Errs(i, e) => FALSE
  <2> SUFFICES ASSUME NEW i, NEW e, Gathering(i), Errs(i, e) PROVE FALSE
    OBVIOUS
  <2>1. lookup \in GatherState
    BY GatheredUp DEF Gathering, GatherIsFaithful
  <2>2. lookup'.step = lookup.step
    BY <2>1 DEF Errs, GatherState
  <2> QED
    BY <2>2 DEF Gathering, Idle
<1>4. \A i : ReadReferent(i) => FALSE
  <2> SUFFICES ASSUME NEW i, ReadReferent(i) PROVE FALSE
    OBVIOUS
  <2>1. Gathering(i)
    BY DEF ReadReferent
  <2>2. PICK x \in Named(ObjectRefs[i].name) :
          \/ Errs(i, "model")
          \/ lookup' = [lookup EXCEPT !.todo = @ \ {i}, !.nodes = Append(@, x)]
    BY DEF ReadReferent
  <2>3. lookup \in GatherState
    BY <2>1, GatheredUp DEF Gathering, GatherIsFaithful
  <2>4. CASE lookup' = [lookup EXCEPT !.todo = @ \ {i}, !.nodes = Append(@, x)]
    <3>1. lookup'.step = lookup.step
      BY <2>3, <2>4 DEF GatherState
    <3> QED
      BY <2>1, <3>1 DEF Gathering, Idle
  <2> QED
    BY <1>3, <2>1, <2>2, <2>4
<1>5. Change => FALSE
  <2> SUFFICES ASSUME Change PROVE FALSE
    OBVIOUS
  <2>1. lookup' = [lookup EXCEPT !.kept = @ \cap world']
    BY DEF Change
  <2>2. CASE LookupIsFaithful
    <3>1. lookup \in [step : {"get", "list"}, of : GroupKinds, kept : SUBSET world]
      BY <2>2 DEF LookupIsFaithful
    <3>2. lookup'.step = lookup.step /\ lookup.step \in {"get", "list"}
      BY <2>1, <3>1
    <3> QED
      BY <3>2 DEF Idle
  <2>3. CASE GatherIsFaithful
    <3>1. lookup \in GatherState
      BY <2>3 DEF GatherIsFaithful
    <3>2. lookup'.step = lookup.step /\ lookup.step \in {"gather"}
      BY <2>1, <3>1 DEF GatherState
    <3> QED
      BY <3>2 DEF Idle
  <2> QED
    BY <2>2, <2>3 DEF QueryInv
<1>6. AskDefinition \/ AskReferents => FALSE
  BY DEF AskDefinition, AskReferents
<1>7. AskFails => (Looking("get") \/ Looking("list")) /\ Finish(Failed("server"))
  BY <1>1, <1>3 DEF AskFails
<1>8. \A i : ReferentMissing(i) => FALSE
  BY <1>3 DEF ReferentMissing
<1> QED
  BY <1>1, <1>2, <1>4, <1>5, <1>6, <1>7, <1>8 DEF QueryNext, AskRevisions, AskActiveRevision,
     AskPackageRevisions, AskDefinitions, AskXRD, AskClaimXRD, AskKubernetesResources,
     AskDefinedResources, AskDefinedByXRD, AskBack, AskEvents, AskReferent

(* What a lookup that ends has found. *)
LEMMA DefinitionFoundFact ==
  ASSUME QueryInv, NEW a,
         \/ GetDefinition \/ ListDefinitions
         \/ (Looking("get") \/ Looking("list")) /\ Finish(Failed("server")),
         page'[[f |-> "definition", of |-> lookup.of]] = a
  PROVE  DefinitionFound(a)
<1> DEFINE q == [f |-> "definition", of |-> lookup.of]
<1>1. \A b : Finish(b) => page'[q] = b
  BY DEF Finish, Reply
<1>2. lookup.step \in {"get", "list"}
  BY DEF GetDefinition, ListDefinitions, Looking
<1>3. /\ lookup.kept \subseteq world /\ \A x \in lookup.kept : x.defines = lookup.of
  BY <1>2, LookedUp DEF LookupIsFaithful
<1>4. IsFiniteSet(world)
  BY WorldFact
<1> HIDE DEF q
<1>5. page'[q] = a
  BY DEF q
<1>6. CASE GetDefinition
  <2>1. PICK x \in world :
          /\ x.name = Guess(lookup.of)
          /\ a = IF x.defines = lookup.of THEN Answer(<<x>>) ELSE Answer(<< >>)
    BY <1>1, <1>5, <1>6 DEF GetDefinition
  <2>2. CASE x.defines = lookup.of
    <3>1. a = Answer(<<x>>)
      BY <2>1, <2>2
    <3>2. ToSet(a.nodes) = {x} /\ a.nodes # << >>
      BY <1>4, <3>1, PlainFact DEF Answer
    <3> QED
      BY <2>2, <3>2 DEF DefinitionFound
  <2>3. CASE x.defines # lookup.of
    <3>1. a = Answer(<< >>)
      BY <2>1, <2>3
    <3>2. ToSet(a.nodes) = {}
      BY <1>4, <3>1, PlainFact
    <3> QED
      BY <2>1, <2>3, <3>2 DEF DefinitionFound
  <2> QED
    BY <2>2, <2>3
<1>7. CASE ListDefinitions
  <2> DEFINE fits == {x \in world : x.defines = lookup.of}
  <2>1. fits \in SUBSET world /\ \E l \in Lists : a = FirstOf(l, fits)
    BY <1>1, <1>5, <1>7 DEF ListDefinitions
  <2>2. ToSet(a.nodes) \subseteq fits /\ (a.nodes = << >> => fits = {})
    <3> HIDE DEF fits
    <3> QED
      BY <2>1, FirstPlain
  <2> QED
    BY <1>3, <2>2 DEF DefinitionFound
<1>8. CASE Finish(Failed("server"))
  <2>1. a.err = "server"
    BY <1>1, <1>5, <1>8 DEF Failed
  <2> QED
    BY <2>1 DEF DefinitionFound, NoError
<1> QED
  BY <1>6, <1>7, <1>8

LEMMA ReferentsFoundFact ==
  ASSUME QueryInv, ReferentsRead
  PROVE  ReferentsFound(page'[[f |-> lookup.of]])
<1> DEFINE q == [f |-> lookup.of]
           a == [Answer(lookup.nodes) EXCEPT !.err = lookup.err]
<1>1. lookup.todo = {} /\ GatherIsFaithful
  BY GatheredUp DEF ReferentsRead
<1>2. Reply(q, a)
  BY DEF ReferentsRead
<1>3. page'[q] = a
  <2> HIDE DEF q, a
  <2> QED
    BY <1>2 DEF Reply
<1>4. a.nodes = lookup.nodes /\ a.err = lookup.err
  BY DEF Answer
<1>5. Gathered = Followed(lookup.of)
  BY <1>1 DEF Gathered
<1> HIDE DEF a
<1>6. ReferentsFound(a)
  BY <1>1, <1>4, <1>5 DEF ReferentsFound, GatherIsFaithful
<1> QED
  BY <1>3, <1>6

(* What is there from the start of a lookup to its end is found, whatever  *)
(* comes and goes between its reads: the definition of a kind, unless the  *)
(* guessed name is one of another kind, and each object that Owners and    *)
(* Objects follow.                                                         *)
THEOREM KeptIsFound == QuerySpec => FoundIfKept
<1>1. ASSUME QueryInv, QueryInv', QueryNext, lookup # Idle, lookup' = Idle
      PROVE  /\ \A q \in DOMAIN page' : q.f = "definition" /\ q.of = lookup.of =>
                  DefinitionFound(page'[q])
             /\ \A q \in DOMAIN page' : q.f = lookup.of => ReferentsFound(page'[q])
  <2>1. UNCHANGED kind /\ \A q \in DOMAIN page' : IsQuestion(q)'
    BY <1>1, KindStays DEF QueryInv, PageOK
  <2>2. CASE \/ GetDefinition \/ ListDefinitions
             \/ (Looking("get") \/ Looking("list")) /\ Finish(Failed("server"))
    <3>1. lookup.step \in {"get", "list"}
      BY <2>2 DEF GetDefinition, ListDefinitions, Looking
    <3>2. kind = "definition"
      BY <1>1, <3>1, LookedUp DEF LookupIsFaithful
    <3>3. ASSUME NEW q \in DOMAIN page', q.f = "definition", q.of = lookup.of
          PROVE  DefinitionFound(page'[q])
      <4>1. q \in [f : {"definitionOfXR", "definitionOfClaim", "definition"}, of : GroupKinds]
        BY <2>1, <3>2, <3>3 DEF IsQuestion, Fields
      <4>2. q = [f |-> "definition", of |-> lookup.of]
        BY <3>3, <4>1
      <4> QED
        BY <1>1, <2>2, <4>2, DefinitionFoundFact
    <3>4. \A a : ReferentsFound(a)
      BY <3>1 DEF ReferentsFound
    <3> QED
      BY <3>3, <3>4
  <2>3. CASE ReferentsRead
    <3>1. lookup.step = "gather"
      BY <2>3 DEF ReferentsRead
    <3>2. kind = "referent" /\ lookup.of \in {"owners", "objects"}
      BY <1>1, <3>1, GatheredUp DEF GatherIsFaithful, GatherState
    <3>3. ASSUME NEW q \in DOMAIN page', q.f = lookup.of
          PROVE  ReferentsFound(page'[q])
      <4>1. q \in [f : {"owners", "objects", "controller"}]
        BY <2>1, <3>2, <3>3 DEF IsQuestion, Fields
      <4>2. q = [f |-> lookup.of]
        BY <3>3, <4>1
      <4> QED
        BY <1>1, <2>3, <4>2, ReferentsFoundFact
    <3>4. \A a : DefinitionFound(a)
      BY <3>1 DEF DefinitionFound
    <3> QED
      BY <3>3, <3>4
  <2> QED
    BY <1>1, <2>2, <2>3, LookupEnds
<1>2. QueryInv /\ QueryInv' /\ [QueryNext]_queryVars =>
        [lookup # Idle /\ lookup' = Idle =>
           /\ \A q \in DOMAIN page' : q.f = "definition" /\ q.of = lookup.of =>
                DefinitionFound(page'[q])
           /\ \A q \in DOMAIN page' : q.f = lookup.of => ReferentsFound(page'[q])]_queryVars
  BY <1>1
<1> QED
  BY <1>2, QueryInvariant, PTL DEF QuerySpec, FoundIfKept
=============================================================================
