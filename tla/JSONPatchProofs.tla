--------------------------- MODULE JSONPatchProofs ---------------------------
(***************************************************************************)
(* Proofs about the patches of live queries: that the loop of              *)
(* CreateJSONPatch changes the operations of a patch, for any documents    *)
(* and of any length, but not where it leads, and leaves no pair.          *)
(***************************************************************************)
EXTENDS JSONPatch, WellFoundedInduction, TLAPS

(* Documents and operations without bounds on their size. *)
Docs == [fields : [Fields -> Values \cup {Absent}], items : Seq(Values)]

Operations == [op : {"test", "remove", "add", "replace"}, path : Paths, value : Values]

(* The patch is a sequence, and not too long. *)
IsPatch == patch \in Seq(Operations) /\ Len(patch) <= MaxOps

(* The index starts at the second operation and stops past the last one.   *)
IndexInRange == /\ pc = "diff" => i = 2
                /\ pc = "done" => i > Len(patch)

(* Behind the index there is no pair, also after the slice was shortened.  *)
NoneBehind == \A n \in 2..Len(patch) : n < i => ~SamePair(n)

IInv == TypeOK /\ IsPatch /\ IndexInRange /\ NoneBehind /\ LeadsToData

-----------------------------------------------------------------------------
(* Applying a patch                                                        *)

(* A non-empty set of natural numbers has a least element. *)
LEMMA LeastNat ==
  ASSUME NEW T, T \subseteq Nat, T # {}
  PROVE  \E x \in T : \A y \in T : x <= y
<1>1. PICK x \in T : \A y \in T : ~(<<y, x>> \in OpToRel(<, Nat))
  BY WFMin, NatLessThanWellFounded
<1>2. \A y \in T : ~(y < x)
  BY <1>1 DEF OpToRel
<1> QED
  BY <1>2, SMT

(* f holds what the first n operations make of document x, for n up to m.  *)
Chain(ops, x, m, f) ==
  f = [n \in 0..m |-> IF n = 0 THEN x ELSE Applied(f[n - 1], ops[n])]

(* There is a chain of every length. *)
LEMMA ChainExists ==
  ASSUME NEW ops, NEW x, NEW m \in Nat
  PROVE  \E f : Chain(ops, x, m, f)
<1> DEFINE T == {n \in Nat : ~\E f : Chain(ops, x, n, f)}
<1>1. SUFFICES ASSUME T # {} PROVE FALSE
  OBVIOUS
<1>2. PICK n \in T : \A k \in T : n <= k
  BY <1>1, LeastNat
<1>3. n # 0
  <2>1. Chain(ops, x, 0, [k \in 0..0 |-> x])
    BY DEF Chain
  <2> QED
    BY <2>1
<1>4. n - 1 \in Nat /\ n - 1 \notin T
  BY <1>2, <1>3
<1>5. PICK f : Chain(ops, x, n - 1, f)
  BY <1>4
<1> DEFINE g == [k \in 0..n |-> IF k = n THEN Applied(f[n - 1], ops[n]) ELSE f[k]]
<1>6. ASSUME NEW k \in 0..n
      PROVE  g[k] = IF k = 0 THEN x ELSE Applied(g[k - 1], ops[k])
  <2>1. CASE k = n
    BY <1>3, <2>1
  <2>2. CASE k # n
    <3>1. k \in 0..(n - 1) /\ g[k] = f[k]
      BY <2>2
    <3>2. f[k] = IF k = 0 THEN x ELSE Applied(f[k - 1], ops[k])
      BY <1>5, <3>1 DEF Chain
    <3>3. k # 0 => g[k - 1] = f[k - 1]
      BY <3>1
    <3> QED
      BY <3>1, <3>2, <3>3
  <2> QED
    BY <2>1, <2>2
<1>7. g = [k \in 0..n |-> IF k = 0 THEN x ELSE Applied(g[k - 1], ops[k])]
  BY <1>6
<1> QED
  BY <1>7 DEF Chain

(* Two functions that agree at the start, and go on agreeing. *)
LEMMA StepsAgree ==
  ASSUME NEW m \in Nat, NEW f, NEW g, f[0] = g[0],
         \A n \in 1..m : f[n - 1] = g[n - 1] => f[n] = g[n]
  PROVE  f[m] = g[m]
<1> DEFINE T == {n \in 0..m : f[n] # g[n]}
<1>1. SUFFICES ASSUME T # {} PROVE FALSE
  OBVIOUS
<1>0. T \subseteq Nat
  OBVIOUS
<1>2. PICK n \in T : \A k \in T : n <= k
  <2> HIDE DEF T
  <2> QED
    BY <1>0, <1>1, LeastNat
<1>3. n \in 1..m
  BY <1>2
<1>4. n - 1 \in 0..m /\ n - 1 \notin T
  BY <1>2, <1>3
<1> QED
  BY <1>3, <1>4

(* The documents that ops makes of x, and Apply is the last of them. *)
Made(ops, x) == CHOOSE f : Chain(ops, x, Len(ops), f)

LEMMA ApplyFact ==
  ASSUME NEW ops \in Seq(Operations), NEW x
  PROVE  /\ Apply(ops, x) = Made(ops, x)[Len(ops)]
         /\ Made(ops, x)[0] = x
         /\ \A n \in 1..Len(ops) :
              Made(ops, x)[n] = Applied(Made(ops, x)[n - 1], ops[n])
<1>0. Len(ops) \in Nat
  OBVIOUS
<1>1. Chain(ops, x, Len(ops), Made(ops, x))
  <2>1. \E f : Chain(ops, x, Len(ops), f)
    BY <1>0, ChainExists
  <2> QED
    BY <2>1, Zenon DEF Made
<1>2. Apply(ops, x) = Made(ops, x)[Len(ops)]
  BY Zenon DEF Apply, Made, Chain
<1>3. Made(ops, x)[0] = x
  BY <1>0, <1>1 DEF Chain
<1>4. ASSUME NEW n \in 1..Len(ops)
      PROVE  Made(ops, x)[n] = Applied(Made(ops, x)[n - 1], ops[n])
  <2>1. n \in 0..Len(ops) /\ n # 0
    BY <1>0
  <2> QED
    BY <1>1, <2>1 DEF Chain
<1> QED
  BY <1>2, <1>3, <1>4

LEMMA ApplyEmpty ==
  ASSUME NEW x
  PROVE  Apply(<< >>, x) = x
<1>1. << >> \in Seq(Operations) /\ Len(<< >>) = 0
  OBVIOUS
<1>2. Apply(<< >>, x) = Made(<< >>, x)[Len(<< >>)] /\ Made(<< >>, x)[0] = x
  BY <1>1, ApplyFact, Zenon
<1> QED
  BY <1>1, <1>2, Zenon

LEMMA ApplyOne ==
  ASSUME NEW o \in Operations, NEW x
  PROVE  Apply(<<o>>, x) = Applied(x, o)
<1>1. <<o>> \in Seq(Operations) /\ Len(<<o>>) = 1 /\ <<o>>[1] = o
  OBVIOUS
<1> DEFINE f == Made(<<o>>, x)
<1>2. /\ Apply(<<o>>, x) = f[1]
      /\ f[0] = x
      /\ \A n \in 1..1 : f[n] = Applied(f[n - 1], <<o>>[n])
  BY <1>1, ApplyFact
<1>3. f[1] = Applied(f[1 - 1], <<o>>[1])
  BY <1>2
<1> QED
  BY <1>1, <1>2, <1>3

(* A patch can be applied in two parts. *)
LEMMA ApplyParts ==
  ASSUME NEW p \in Seq(Operations), NEW q \in Seq(Operations), NEW x
  PROVE  Apply(p \o q, x) = Apply(q, Apply(p, x))
<1>0. /\ p \o q \in Seq(Operations)
      /\ Len(p) \in Nat /\ Len(q) \in Nat /\ Len(p \o q) = Len(p) + Len(q)
      /\ \A n \in 1..Len(p) : (p \o q)[n] = p[n]
      /\ \A n \in 1..Len(q) : (p \o q)[Len(p) + n] = q[n]
  OBVIOUS
<1> DEFINE f == Made(p \o q, x)
<1>1. /\ Apply(p \o q, x) = f[Len(p \o q)]
      /\ f[0] = x
      /\ \A n \in 1..Len(p \o q) : f[n] = Applied(f[n - 1], (p \o q)[n])
  BY <1>0, ApplyFact
<1> DEFINE g == Made(p, x)
<1>2. /\ Apply(p, x) = g[Len(p)]
      /\ g[0] = x
      /\ \A n \in 1..Len(p) : g[n] = Applied(g[n - 1], p[n])
  BY ApplyFact
<1> DEFINE h == Made(q, Apply(p, x))
<1>3. /\ Apply(q, Apply(p, x)) = h[Len(q)]
      /\ h[0] = Apply(p, x)
      /\ \A n \in 1..Len(q) : h[n] = Applied(h[n - 1], q[n])
  BY ApplyFact
<1> HIDE DEF f, g, h
<1>4. f[Len(p)] = g[Len(p)]
  <2>1. \A n \in 1..Len(p) : f[n] = Applied(f[n - 1], p[n])
    BY <1>0, <1>1
  <2>2. \A n \in 1..Len(p) : f[n - 1] = g[n - 1] => f[n] = g[n]
    BY <1>2, <2>1
  <2> QED
    BY <1>0, <1>1, <1>2, <2>2, StepsAgree
<1> DEFINE k == [n \in 0..Len(q) |-> f[Len(p) + n]]
<1>5. k[0] = h[0]
  BY <1>0, <1>2, <1>3, <1>4
<1>6. ASSUME NEW n \in 1..Len(q), k[n - 1] = h[n - 1]
      PROVE  k[n] = h[n]
  <2>1. Len(p) + n \in 1..Len(p \o q) /\ k[n] = f[Len(p) + n]
    BY <1>0
  <2>2. k[n - 1] = f[(Len(p) + n) - 1]
    BY <1>0
  <2>3. f[Len(p) + n] = Applied(f[(Len(p) + n) - 1], (p \o q)[Len(p) + n])
    BY <1>1, <2>1
  <2>4. h[n] = Applied(h[n - 1], q[n])
    BY <1>3
  <2> QED
    BY <1>0, <1>6, <2>1, <2>2, <2>3, <2>4
<1>7. k[Len(q)] = h[Len(q)]
  <2> HIDE DEF k
  <2> QED
    BY <1>0, <1>5, <1>6, StepsAgree
<1>8. k[Len(q)] = f[Len(p \o q)]
  BY <1>0
<1> QED
  BY <1>1, <1>3, <1>7, <1>8

-----------------------------------------------------------------------------
(* What an operation does to a document                                    *)

LEMMA InsertFact ==
  ASSUME NEW S, NEW s \in Seq(S), NEW n \in 1..(Len(s) + 1), NEW v \in S
  PROVE  InsertAt(s, n, v) \in Seq(S) /\ Len(InsertAt(s, n, v)) = Len(s) + 1
<1> DEFINE l == SubSeq(s, 1, n - 1)
           r == SubSeq(s, n, Len(s))
<1>1. l \in Seq(S) /\ Len(l) = n - 1
  OBVIOUS
<1>2. r \in Seq(S) /\ Len(r) = Len(s) - n + 1
  OBVIOUS
<1>3. <<v>> \in Seq(S) /\ Len(<<v>>) = 1
  OBVIOUS
<1>4. InsertAt(s, n, v) = (l \o <<v>>) \o r
  BY DEF InsertAt
<1> HIDE DEF l, r
<1>5. l \o <<v>> \in Seq(S) /\ Len(l \o <<v>>) = n
  BY <1>1, <1>3
<1> DEFINE m == l \o <<v>>
<1> HIDE DEF m
<1>6. m \o r \in Seq(S) /\ Len(m \o r) = Len(m) + Len(r)
  BY <1>2, <1>5 DEF m
<1> QED
  BY <1>2, <1>4, <1>5, <1>6 DEF m

LEMMA RemoveFact ==
  ASSUME NEW S, NEW s \in Seq(S), NEW n \in 1..Len(s)
  PROVE  RemoveAt(s, n) \in Seq(S) /\ Len(RemoveAt(s, n)) = Len(s) - 1
<1> DEFINE l == SubSeq(s, 1, n - 1)
           r == SubSeq(s, n + 1, Len(s))
<1>1. l \in Seq(S) /\ Len(l) = n - 1
  OBVIOUS
<1>2. r \in Seq(S) /\ Len(r) = Len(s) - n
  OBVIOUS
<1>3. RemoveAt(s, n) = l \o r
  BY DEF RemoveAt
<1> HIDE DEF l, r
<1> QED
  BY <1>1, <1>2, <1>3

LEMMA PathFact ==
  ASSUME NEW p \in Paths
  PROVE  \/ p.field = Item /\ p.index \in 1..MaxItems
         \/ p.field \in Fields /\ p.field # Item
BY JSONPatchAssumption DEF Paths, Path

LEMMA BrokenFact == Broken \notin Docs
<1>1. SUFFICES ASSUME Broken \in Docs PROVE FALSE
  OBVIOUS
<1>2. <<Absent>> \in Seq(Values)
  BY <1>1 DEF Broken, Docs
<1>3. Absent \in Values
  BY <1>2
<1> QED
  BY <1>3, JSONPatchAssumption

LEMMA AddedFact ==
  ASSUME NEW d \in Docs, NEW p \in Paths, NEW v \in Values, CanAdd(d, p)
  PROVE  /\ Added(d, p, v) \in Docs
         /\ Len(Added(d, p, v).items) = Len(d.items) + IF p.field = Item THEN 1 ELSE 0
<1>0. d.items \in Seq(Values) /\ d.fields \in [Fields -> Values \cup {Absent}]
  BY DEF Docs
<1>1. CASE p.field = Item
  <2>1. p.index \in 1..(Len(d.items) + 1)
    BY <1>0, <1>1, PathFact, JSONPatchAssumption DEF CanAdd
  <2> DEFINE s == InsertAt(d.items, p.index, v)
  <2>2. s \in Seq(Values) /\ Len(s) = Len(d.items) + 1
    BY <1>0, <2>1, InsertFact
  <2>3. Added(d, p, v) = [d EXCEPT !.items = s]
    BY <1>1 DEF Added
  <2> HIDE DEF s
  <2> QED
    BY <1>1, <2>2, <2>3 DEF Docs
<1>2. CASE p.field # Item
  <2>1. p.field \in Fields
    BY <1>2, PathFact
  <2> DEFINE f == [d.fields EXCEPT ![p.field] = v]
  <2>2. f \in [Fields -> Values \cup {Absent}]
    BY <1>0, <2>1
  <2>3. Added(d, p, v) = [d EXCEPT !.fields = f]
    BY <1>2 DEF Added
  <2> HIDE DEF f
  <2> QED
    BY <1>0, <1>2, <2>2, <2>3 DEF Docs
<1> QED
  BY <1>1, <1>2

LEMMA RemovedFact ==
  ASSUME NEW d \in Docs, NEW p \in Paths, At(d, p) # Absent
  PROVE  /\ Removed(d, p) \in Docs
         /\ Len(d.items) = Len(Removed(d, p).items) + IF p.field = Item THEN 1 ELSE 0
         /\ CanAdd(Removed(d, p), p)
<1>0. d.items \in Seq(Values) /\ d.fields \in [Fields -> Values \cup {Absent}]
  BY DEF Docs
<1>1. CASE p.field = Item
  <2>1. p.index \in 1..Len(d.items)
    BY <1>0, <1>1 DEF At
  <2> DEFINE s == RemoveAt(d.items, p.index)
  <2>2. s \in Seq(Values) /\ Len(s) = Len(d.items) - 1
    BY <1>0, <2>1, RemoveFact
  <2>3. Removed(d, p) = [d EXCEPT !.items = s]
    BY <1>1 DEF Removed
  <2> HIDE DEF s
  <2>4. Removed(d, p) \in Docs /\ Removed(d, p).items = s
    BY <2>2, <2>3 DEF Docs
  <2> QED
    BY <1>0, <1>1, <2>1, <2>2, <2>4 DEF CanAdd
<1>2. CASE p.field # Item
  <2>1. p.field \in Fields
    BY <1>2, PathFact
  <2> DEFINE f == [d.fields EXCEPT ![p.field] = Absent]
  <2>2. f \in [Fields -> Values \cup {Absent}]
    BY <1>0, <2>1
  <2>3. Removed(d, p) = [d EXCEPT !.fields = f]
    BY <1>2 DEF Removed
  <2> HIDE DEF f
  <2> QED
    BY <1>0, <1>2, <2>2, <2>3 DEF Docs, CanAdd
<1> QED
  BY <1>1, <1>2

LEMMA AppliedCases ==
  ASSUME NEW d, NEW o
  PROVE  /\ ~Applies(d, o) => Applied(d, o) = Broken
         /\ Applies(d, o) /\ o.op = "test" => Applied(d, o) = d
         /\ Applies(d, o) /\ o.op = "add" => Applied(d, o) = Added(d, o.path, o.value)
         /\ Applies(d, o) /\ o.op = "remove" => Applied(d, o) = Removed(d, o.path)
         /\ Applies(d, o) /\ o.op = "replace" =>
              Applied(d, o) = Added(Removed(d, o.path), o.path, o.value)
BY DEF Applied

LEMMA AppliedType ==
  ASSUME NEW d \in Docs \cup {Broken}, NEW o \in Operations
  PROVE  Applied(d, o) \in Docs \cup {Broken}
<1>0. o.path \in Paths /\ o.value \in Values /\ o.op \in {"test", "add", "remove", "replace"}
  BY DEF Operations
<1>1. CASE ~Applies(d, o)
  BY <1>1, AppliedCases
<1>2. CASE Applies(d, o)
  <2>1. d \in Docs
    BY <1>2 DEF Applies
  <2>2. CASE o.op = "test"
    BY <1>2, <2>1, <2>2, AppliedCases
  <2>3. CASE o.op = "add"
    <3>1. CanAdd(d, o.path)
      BY <1>2, <2>3 DEF Applies
    <3> QED
      BY <1>0, <1>2, <2>1, <2>3, <3>1, AppliedCases, AddedFact
  <2>4. CASE o.op \in {"remove", "replace"}
    <3>1. At(d, o.path) # Absent
      BY <1>2, <2>4 DEF Applies
    <3>2. Removed(d, o.path) \in Docs /\ CanAdd(Removed(d, o.path), o.path)
      BY <1>0, <2>1, <3>1, RemovedFact
    <3>3. Added(Removed(d, o.path), o.path, o.value) \in Docs
      BY <1>0, <3>2, AddedFact
    <3> QED
      BY <1>2, <2>4, <3>2, <3>3, AppliedCases
  <2> QED
    BY <1>0, <2>2, <2>3, <2>4
<1> QED
  BY <1>1, <1>2

LEMMA ApplyType ==
  ASSUME NEW ops \in Seq(Operations), NEW d \in Docs
  PROVE  Apply(ops, d) \in Docs \cup {Broken}
<1> DEFINE f == Made(ops, d)
           T == {n \in 0..Len(ops) : f[n] \notin Docs \cup {Broken}}
<1>0. Len(ops) \in Nat /\ \A n \in 1..Len(ops) : ops[n] \in Operations
  OBVIOUS
<1>1. /\ Apply(ops, d) = f[Len(ops)]
      /\ f[0] = d
      /\ \A n \in 1..Len(ops) : f[n] = Applied(f[n - 1], ops[n])
  BY ApplyFact
<1> HIDE DEF f
<1>2. SUFFICES ASSUME T # {} PROVE FALSE
  BY <1>0, <1>1
<1>3. T \subseteq Nat
  BY <1>0
<1>4. PICK n \in T : \A k \in T : n <= k
  <2> HIDE DEF T
  <2> QED
    BY <1>2, <1>3, LeastNat
<1>5. n \in 1..Len(ops)
  BY <1>0, <1>1, <1>4
<1>6. f[n - 1] \in Docs \cup {Broken}
  BY <1>0, <1>4, <1>5
<1> QED
  BY <1>0, <1>1, <1>4, <1>5, <1>6, AppliedType

(* A removal and an addition at one path are a replacement. *)
LEMMA ReplaceFact ==
  ASSUME NEW d \in Docs \cup {Broken}, NEW r \in Operations, NEW a \in Operations,
         NEW o \in Operations,
         r.op = "remove", a.op = "add", o.op = "replace",
         r.path = a.path, o.path = a.path, o.value = a.value
  PROVE  Applied(Applied(d, r), a) = Applied(d, o)
<1>0. a.path \in Paths
  BY DEF Operations
<1>1. CASE Applies(d, r)
  <2>1. d \in Docs /\ At(d, a.path) # Absent /\ Applies(d, o)
    BY <1>1 DEF Applies
  <2>2. Applied(d, r) = Removed(d, a.path)
    BY <1>1, AppliedCases
  <2>3. Removed(d, a.path) \in Docs /\ CanAdd(Removed(d, a.path), a.path)
    BY <1>0, <2>1, RemovedFact
  <2>4. Applies(Removed(d, a.path), a)
    BY <2>3, BrokenFact DEF Applies
  <2> QED
    BY <2>1, <2>2, <2>4, AppliedCases
<1>2. CASE ~Applies(d, r)
  <2>1. Applied(d, r) = Broken /\ ~Applies(d, o)
    BY <1>2, AppliedCases DEF Applies
  <2>2. ~Applies(Broken, a)
    BY DEF Applies
  <2> QED
    BY <2>1, <2>2, AppliedCases
<1> QED
  BY <1>1, <1>2

-----------------------------------------------------------------------------
(* The initial state and the steps                                         *)

LEMMA DocumentsFact == Documents \subseteq Docs
<1>1. SUFFICES ASSUME NEW d \in Documents PROVE d \in Docs
  OBVIOUS
<1>2. PICK n \in 0..MaxItems : d.items \in [1..n -> Values]
  BY DEF Documents
<1>3. d.items \in Seq(Values)
  BY <1>2, JSONPatchAssumption
<1>4. d = [fields |-> d.fields, items |-> d.items] /\ d.fields \in [Fields -> Values \cup {Absent}]
  BY DEF Documents
<1> QED
  BY <1>3, <1>4 DEF Docs

LEMMA SmallDocFact ==
  ASSUME NEW d \in Docs, Len(d.items) <= MaxItems
  PROVE  d \in Documents
<1>1. d.items \in Seq(Values) /\ d.fields \in [Fields -> Values \cup {Absent}]
      /\ d = [fields |-> d.fields, items |-> d.items]
  BY DEF Docs
<1>2. Len(d.items) \in 0..MaxItems /\ d.items \in [1..Len(d.items) -> Values]
  BY <1>1, JSONPatchAssumption
<1>3. d.items \in UNION {[1..n -> Values] : n \in 0..MaxItems}
  BY <1>2
<1> QED
  BY <1>1, <1>3 DEF Documents

LEMMA OpFact ==
  ASSUME NEW op \in {"test", "remove", "add", "replace"}, NEW p \in Paths, NEW v \in Values
  PROVE  Op(op, p, v) \in Operations /\ Op(op, p, v).op = op
         /\ Op(op, p, v).path = p /\ Op(op, p, v).value = v
BY DEF Op, Operations

(* The operations of a place where the documents differ. *)
Rewriting(p, old, new) ==
  (IF old = Absent THEN << >> ELSE <<Op("test", p, old), Op("remove", p, old)>>)
  \o (IF new = Absent THEN << >> ELSE <<Op("add", p, new)>>)

LEMMA TwoOps ==
  ASSUME NEW a \in Operations, NEW b \in Operations
  PROVE  <<a>> \in Seq(Operations) /\ <<b>> \in Seq(Operations)
         /\ <<a, b>> \in Seq(Operations) /\ <<a, b>> = <<a>> \o <<b>>
<1>1. <<a>> \in Seq(Operations) /\ <<b>> \in Seq(Operations) /\ <<a, b>> \in Seq(Operations)
  OBVIOUS
<1> DEFINE c == <<a>> \o <<b>>
<1>2. c \in Seq(Operations) /\ Len(c) = 2 /\ c[1] = a /\ c[2] = b
  OBVIOUS
<1> HIDE DEF c
<1>3. <<a, b>> = c
  BY <1>2
<1> QED
  BY <1>1, <1>3 DEF c

LEMMA AppendOps ==
  ASSUME NEW s \in Seq(Operations), NEW ops \in Seq(Operations)
  PROVE  s \o ops \in Seq(Operations) /\ Len(s \o ops) = Len(s) + Len(ops)
OBVIOUS

(* They lead from the document so far to one with the new value. *)
LEMMA DifferFact ==
  ASSUME NEW d \in Docs, NEW p \in Paths, NEW new \in Values \cup {Absent},
         At(d, p) # new, new # Absent => CanAdd(d, p), At(d, p) \in Values \cup {Absent}
  PROVE  /\ Rewriting(p, At(d, p), new) \in Seq(Operations)
         /\ Apply(Rewriting(p, At(d, p), new), d) \in Docs
<1> DEFINE old == At(d, p)
           ops == Rewriting(p, old, new)
<1> DEFINE t == Op("test", p, old)
           r == Op("remove", p, old)
           a == Op("add", p, new)
<1>1. old # Absent => /\ t \in Operations /\ t.op = "test" /\ t.path = p /\ t.value = old
                      /\ r \in Operations /\ r.op = "remove" /\ r.path = p
  BY OpFact
<1>2. new # Absent => /\ a \in Operations /\ a.op = "add" /\ a.path = p /\ a.value = new
  BY OpFact
<1> HIDE DEF t, r, a
<1> DEFINE first == IF old = Absent THEN << >> ELSE <<t, r>>
           second == IF new = Absent THEN << >> ELSE <<a>>
<1>3. ops \in Seq(Operations) /\ first \in Seq(Operations) /\ second \in Seq(Operations) /\ ops = first \o second
  <2>1. first \in Seq(Operations)
    BY <1>1, TwoOps
  <2>2. second \in Seq(Operations)
    BY <1>2, TwoOps
  <2>3. ops = first \o second
    BY Zenon DEF Rewriting, t, r, a
  <2> HIDE DEF first, second, ops
  <2> QED
    BY <2>1, <2>2, <2>3, AppendOps
<1> HIDE DEF ops
<1>4. Apply(ops, d) = Apply(second, Apply(first, d))
  <2> HIDE DEF first, second
  <2> QED
    BY <1>3, ApplyParts
<1> DEFINE e == Apply(first, d)
<1>5. e \in Docs /\ (new # Absent => CanAdd(e, p))
  <2>1. CASE old = Absent
    BY <2>1, ApplyEmpty
  <2>2. CASE old # Absent
    <3>1. <<t>> \in Seq(Operations) /\ <<r>> \in Seq(Operations) /\ <<t, r>> = <<t>> \o <<r>>
      BY <1>1, <2>2, TwoOps
    <3>2. Apply(<<t, r>>, d) = Applied(Applied(d, t), r)
      BY <1>1, <2>2, <3>1, ApplyParts, ApplyOne
    <3>3. Applies(d, t) /\ Applies(d, r)
      BY <1>1, <2>2, BrokenFact DEF Applies
    <3>4. Applied(d, t) = d /\ Applied(d, r) = Removed(d, p)
      BY <1>1, <2>2, <3>3, AppliedCases
    <3>5. e = Removed(d, p)
      BY <2>2, <3>2, <3>4
    <3> QED
      BY <2>2, <3>5, RemovedFact
  <2> QED
    BY <2>1, <2>2
<1> HIDE DEF e
<1>6. CASE new = Absent
  BY <1>3, <1>4, <1>5, <1>6, ApplyEmpty DEF e, ops
<1>7. CASE new # Absent
  <2>1. Apply(second, e) = Applied(e, a)
    BY <1>2, <1>7, ApplyOne
  <2>2. Applies(e, a)
    BY <1>2, <1>5, <1>7, BrokenFact DEF Applies
  <2>3. Applied(e, a) = Added(e, p, new)
    BY <1>2, <1>7, <2>2, AppliedCases
  <2>4. Added(e, p, new) \in Docs
    BY <1>5, <1>7, AddedFact
  <2> QED
    BY <1>3, <1>4, <2>1, <2>3, <2>4 DEF e, ops
<1> QED
  BY <1>6, <1>7

LEMMA AtType ==
  ASSUME NEW d \in Docs, NEW p \in Paths
  PROVE  At(d, p) \in Values \cup {Absent}
<1>1. d.items \in Seq(Values) /\ d.fields \in [Fields -> Values \cup {Absent}]
  BY DEF Docs
<1>2. p.index \in DOMAIN d.items => d.items[p.index] \in Values
  BY <1>1
<1> QED
  BY <1>1, <1>2, PathFact DEF At

(* The part of TypeOK about the operations. *)
LEMMA OperationsTyped ==
  ASSUME NEW s \in Seq(Operations)
  PROVE  \A n \in DOMAIN s :
           s[n] \in [op : {"test", "remove", "add", "replace"}, path : Paths, value : Values]
<1>1. \A n \in DOMAIN s : s[n] \in Operations
  OBVIOUS
<1> QED
  BY <1>1, Zenon DEF Operations

(* Adding an operation at the end. *)
LEMMA AppendOp ==
  ASSUME NEW s \in Seq(Operations), NEW o \in Operations
  PROVE  /\ Append(s, o) \in Seq(Operations) /\ Len(Append(s, o)) = Len(s) + 1
         /\ Append(s, o) = s \o <<o>> /\ <<o>> \in Seq(Operations)
OBVIOUS

LEMMA InitInv == Init => IInv
<1>1. ASSUME Init PROVE IInv
  <2>1. patch = << >> /\ Len(patch) = 0 /\ patch \in Seq(Operations)
    BY <1>1 DEF Init
  <2>2. TypeOK /\ IsPatch /\ IndexInRange /\ NoneBehind
    BY <1>1, <2>1, JSONPatchAssumption DEF Init, TypeOK, IsPatch, IndexInRange, NoneBehind
  <2>3. LeadsToData
    BY <1>1, ApplyEmpty DEF Init, LeadsToData
  <2> QED
    BY <2>2, <2>3 DEF IInv
<1> QED
  BY <1>1

LEMMA DifferInv ==
  ASSUME IInv, NEW p \in Paths, NEW new \in Values \cup {Absent}, Differ(p, new)
  PROVE  IInv'
<1> DEFINE old == At(after, p)
           ops == Rewriting(p, old, new)
<1>0. /\ TypeOK /\ IsPatch /\ IndexInRange /\ NoneBehind /\ LeadsToData
      /\ before \in Docs /\ after \in Docs
  BY DocumentsFact DEF IInv, TypeOK
<1>1. /\ pc = "diff"
      /\ Len(patch) + Len(ops) <= MaxOps
      /\ old # new
      /\ new # Absent => CanAdd(after, p)
      /\ patch' = patch \o ops
      /\ after' = Apply(ops, after)
      /\ Len(after'.items) <= MaxItems
      /\ UNCHANGED <<before, pc, i>>
  BY Zenon DEF Differ, Rewriting
<1>2. ops \in Seq(Operations) /\ Apply(ops, after) \in Docs
  BY <1>0, <1>1, AtType, DifferFact
<1> HIDE DEF ops, old
<1>3. patch' \in Seq(Operations) /\ Len(patch') <= MaxOps
  BY <1>0, <1>1, <1>2, AppendOps DEF IsPatch
<1>4. after' \in Documents
  BY <1>1, <1>2, SmallDocFact
<1>5. TypeOK'
  BY <1>0, <1>1, <1>3, <1>4, OperationsTyped DEF TypeOK
<1>6. IndexInRange' /\ NoneBehind'
  BY <1>0, <1>1, <1>3 DEF IndexInRange, NoneBehind
<1>7. LeadsToData'
  BY <1>0, <1>1, <1>2, ApplyParts DEF IsPatch, LeadsToData
<1> QED
  BY <1>3, <1>5, <1>6, <1>7 DEF IInv, IsPatch

LEMMA InsertInv ==
  ASSUME IInv, NEW p \in Paths, NEW new \in Values, Insert(p, new)
  PROVE  IInv'
<1> DEFINE o == Op("add", p, new)
<1>0. /\ TypeOK /\ IsPatch /\ IndexInRange /\ NoneBehind /\ LeadsToData
      /\ before \in Docs /\ after \in Docs
  BY DocumentsFact DEF IInv, TypeOK
<1>1. o \in Operations /\ o.op = "add" /\ o.path = p /\ o.value = new
  BY OpFact
<1> HIDE DEF o
<1>2. /\ pc = "diff"
      /\ p.field = Item /\ p.index \in DOMAIN after.items
      /\ Len(after.items) < MaxItems
      /\ Len(patch) < MaxOps
      /\ patch' = Append(patch, o)
      /\ after' = Added(after, p, new)
      /\ UNCHANGED <<before, pc, i>>
  BY DEF Insert, o
<1>3. patch' \in Seq(Operations) /\ Len(patch') <= MaxOps
  <2>1. patch \in Seq(Operations) /\ Len(patch) < MaxOps /\ patch' = Append(patch, o)
    BY <1>0, <1>2 DEF IsPatch
  <2> QED
    BY <1>1, <2>1, AppendOp, JSONPatchAssumption
<1>4. CanAdd(after, p)
  BY <1>0, <1>2 DEF CanAdd, Docs
<1>5. after' \in Docs /\ Len(after'.items) = Len(after.items) + 1
  BY <1>0, <1>2, <1>4, AddedFact
<1>6. after' \in Documents
  <2>1. Len(after.items) \in Nat
    BY <1>0 DEF Docs
  <2> QED
    BY <1>2, <1>5, <2>1, SmallDocFact, JSONPatchAssumption
<1>7. TypeOK'
  BY <1>0, <1>2, <1>3, <1>6, OperationsTyped DEF TypeOK
<1>8. IndexInRange' /\ NoneBehind'
  BY <1>0, <1>2, <1>3 DEF IndexInRange, NoneBehind
<1>9. LeadsToData'
  <2>1. Applies(after, o)
    BY <1>0, <1>1, <1>4, BrokenFact DEF Applies
  <2>2. Apply(<<o>>, after) = after'
    BY <1>1, <1>2, <2>1, ApplyOne, AppliedCases
  <2>3. /\ patch \in Seq(Operations) /\ patch' = patch \o <<o>>
        /\ <<o>> \in Seq(Operations)
    BY <1>0, <1>1, <1>2, AppendOp DEF IsPatch
  <2>4. Apply(patch', before) = Apply(<<o>>, Apply(patch, before))
    BY <2>3, ApplyParts
  <2> QED
    BY <1>0, <1>2, <2>2, <2>4 DEF LeadsToData
<1> QED
  BY <1>3, <1>7, <1>8, <1>9 DEF IInv, IsPatch

-----------------------------------------------------------------------------
(* The loop                                                                *)

LEMMA SameSequence ==
  ASSUME NEW s \in Seq(Operations), NEW t \in Seq(Operations), Len(s) = Len(t),
         \A k \in 1..Len(s) : s[k] = t[k]
  PROVE  s = t
OBVIOUS

LEMMA PartsOf ==
  ASSUME NEW s \in Seq(Operations), NEW n \in 2..Len(s)
  PROVE  /\ SubSeq(s, 1, n - 2) \in Seq(Operations) /\ Len(SubSeq(s, 1, n - 2)) = n - 2
         /\ \A k \in 1..(n - 2) : SubSeq(s, 1, n - 2)[k] = s[k]
         /\ SubSeq(s, n + 1, Len(s)) \in Seq(Operations)
         /\ Len(SubSeq(s, n + 1, Len(s))) = Len(s) - n
         /\ \A k \in 1..(Len(s) - n) : SubSeq(s, n + 1, Len(s))[k] = s[n + k]
OBVIOUS

(* Elements of a sequence that is made of two parts. *)
LEMMA ConcatFact ==
  ASSUME NEW l \in Seq(Operations), NEW r \in Seq(Operations)
  PROVE  /\ l \o r \in Seq(Operations) /\ Len(l \o r) = Len(l) + Len(r)
         /\ \A k \in 1..Len(l) : (l \o r)[k] = l[k]
         /\ \A k \in 1..Len(r) : (l \o r)[Len(l) + k] = r[k]
         /\ Len(l) \in Nat /\ Len(r) \in Nat
OBVIOUS

(* Three sequences one after the other. *)
Join(l, m, r) == (l \o m) \o r

LEMMA JoinFact ==
  ASSUME NEW l \in Seq(Operations), NEW m \in Seq(Operations), NEW r \in Seq(Operations)
  PROVE  /\ Join(l, m, r) \in Seq(Operations)
         /\ Len(Join(l, m, r)) = Len(l) + Len(m) + Len(r)
         /\ \A k \in 1..Len(l) : Join(l, m, r)[k] = l[k]
         /\ \A k \in 1..Len(m) : Join(l, m, r)[Len(l) + k] = m[k]
         /\ \A k \in 1..Len(r) : Join(l, m, r)[Len(l) + Len(m) + k] = r[k]
<1> DEFINE q == l \o m
           t == q \o r
<1>1. /\ q \in Seq(Operations) /\ Len(q) = Len(l) + Len(m)
      /\ \A k \in 1..Len(l) : q[k] = l[k]
      /\ \A k \in 1..Len(m) : q[Len(l) + k] = m[k]
      /\ Len(l) \in Nat /\ Len(m) \in Nat
  BY ConcatFact
<1> HIDE DEF q
<1>2. /\ t \in Seq(Operations) /\ Len(t) = Len(q) + Len(r)
      /\ \A k \in 1..Len(q) : t[k] = q[k]
      /\ \A k \in 1..Len(r) : t[Len(q) + k] = r[k]
      /\ Len(r) \in Nat
  BY <1>1, ConcatFact
<1> HIDE DEF t
<1>3. \A k \in 1..Len(l) : t[k] = l[k]
  BY <1>1, <1>2
<1>4. \A k \in 1..Len(m) : t[Len(l) + k] = m[k]
  <2>1. \A k \in 1..Len(m) : Len(l) + k \in 1..Len(q)
    BY <1>1
  <2> QED
    BY <1>1, <1>2, <2>1
<1>5. Len(t) = Len(l) + Len(m) + Len(r) /\ \A k \in 1..Len(r) : t[Len(l) + Len(m) + k] = r[k]
  BY <1>1, <1>2
<1> QED
  BY <1>2, <1>3, <1>4, <1>5 DEF q, t, Join

(* A patch is what comes before a pair, the pair, and what comes after.    *)
LEMMA SplitPair ==
  ASSUME NEW s \in Seq(Operations), NEW n \in 2..Len(s)
  PROVE  s = (SubSeq(s, 1, n - 2) \o <<s[n - 1], s[n]>>) \o SubSeq(s, n + 1, Len(s))
<1> DEFINE l == SubSeq(s, 1, n - 2)
           m == <<s[n - 1], s[n]>>
           r == SubSeq(s, n + 1, Len(s))
<1>1. /\ l \in Seq(Operations) /\ Len(l) = n - 2 /\ \A k \in 1..(n - 2) : l[k] = s[k]
      /\ r \in Seq(Operations) /\ Len(r) = Len(s) - n
      /\ \A k \in 1..(Len(s) - n) : r[k] = s[n + k]
  BY PartsOf
<1>2. m \in Seq(Operations) /\ Len(m) = 2 /\ m[1] = s[n - 1] /\ m[2] = s[n]
  <2>1. s[n - 1] \in Operations /\ s[n] \in Operations
    OBVIOUS
  <2> QED
    BY <2>1, TwoOps
<1>0. Len(s) \in Nat /\ n \in Nat /\ n - 2 \in Nat /\ Len(s) - n \in Nat
  OBVIOUS
<1> HIDE DEF l, m, r
<1> DEFINE t == Join(l, m, r)
<1>7. /\ t \in Seq(Operations) /\ Len(t) = Len(l) + Len(m) + Len(r)
      /\ \A k \in 1..Len(l) : t[k] = l[k]
      /\ \A k \in 1..Len(m) : t[Len(l) + k] = m[k]
      /\ \A k \in 1..Len(r) : t[Len(l) + Len(m) + k] = r[k]
  <2>1. l \in Seq(Operations) /\ m \in Seq(Operations) /\ r \in Seq(Operations)
    BY <1>1, <1>2
  <2> QED
    BY <2>1, JoinFact
<1> HIDE DEF t
<1>3. /\ t \in Seq(Operations) /\ Len(t) = (n - 2) + 2 + (Len(s) - n)
      /\ \A k \in 1..(n - 2) : t[k] = l[k]
      /\ \A k \in 1..2 : t[n - 2 + k] = m[k]
      /\ \A k \in 1..(Len(s) - n) : t[n - 2 + 2 + k] = r[k]
  BY <1>0, <1>1, <1>2, <1>7
<1>4. ASSUME NEW k \in 1..Len(s) PROVE s[k] = t[k]
  <2>1. CASE k \in 1..(n - 2)
    BY <1>1, <1>3, <2>1
  <2>2. CASE k = n - 1
    <3>1. t[n - 2 + 1] = m[1]
      BY <1>3
    <3> QED
      BY <1>2, <2>2, <3>1
  <2>3. CASE k = n
    <3>1. t[n - 2 + 2] = m[2]
      BY <1>3
    <3> QED
      BY <1>2, <2>3, <3>1
  <2>4. CASE k > n
    <3>1. k - n \in 1..(Len(s) - n)
      BY <1>0, <2>4
    <3>2. t[n - 2 + 2 + (k - n)] = r[k - n]
      BY <1>3, <3>1
    <3>3. r[k - n] = s[n + (k - n)]
      BY <1>1, <3>1
    <3> QED
      BY <1>0, <3>2, <3>3
  <2> QED
    BY <1>0, <2>1, <2>2, <2>3, <2>4
<1>5. Len(t) = Len(s)
  BY <1>0, <1>3
<1>6. s = t
  BY <1>3, <1>4, <1>5, SameSequence
<1> QED
  BY <1>6 DEF l, m, r, t, Join

(* What the loop makes of a patch at a pair. *)
Coalesced(s, n) == RemoveAt([s EXCEPT ![n].op = "replace"], n - 1)

Replacement(a) == [a EXCEPT !.op = "replace"]

LEMMA ReplacementFact ==
  ASSUME NEW a \in Operations
  PROVE  /\ Replacement(a) \in Operations /\ Replacement(a).op = "replace"
         /\ Replacement(a).path = a.path /\ Replacement(a).value = a.value
BY DEF Replacement, Operations

LEMMA CoalescedFact ==
  ASSUME NEW s \in Seq(Operations), NEW n \in 2..Len(s)
  PROVE  /\ Coalesced(s, n) \in Seq(Operations)
         /\ Len(Coalesced(s, n)) = Len(s) - 1
         /\ \A k \in 1..(n - 2) : Coalesced(s, n)[k] = s[k]
         /\ Coalesced(s, n)[n - 1] = Replacement(s[n])
         /\ Coalesced(s, n)
              = (SubSeq(s, 1, n - 2) \o <<Replacement(s[n])>>) \o SubSeq(s, n + 1, Len(s))
<1> DEFINE o == Replacement(s[n])
           u == [s EXCEPT ![n] = o]
           l == SubSeq(s, 1, n - 2)
           m == <<o>>
           r == SubSeq(s, n + 1, Len(s))
           t == Join(l, m, r)
<1>0. /\ Len(s) \in Nat /\ n \in Nat /\ n - 2 \in Nat /\ Len(s) - n \in Nat
      /\ o \in Operations
  BY ReplacementFact
<1>1. Coalesced(s, n) = RemoveAt(u, n - 1)
  BY DEF Coalesced, Replacement
<1> HIDE DEF o
<1>2. /\ u \in Seq(Operations) /\ Len(u) = Len(s) /\ u[n] = o
      /\ \A k \in 1..Len(s) : k # n => u[k] = s[k]
  BY <1>0
<1>3. /\ l \in Seq(Operations) /\ Len(l) = n - 2 /\ \A k \in 1..(n - 2) : l[k] = s[k]
      /\ r \in Seq(Operations) /\ Len(r) = Len(s) - n
      /\ \A k \in 1..(Len(s) - n) : r[k] = s[n + k]
  BY PartsOf
<1>4. m \in Seq(Operations) /\ Len(m) = 1 /\ m[1] = o
  BY <1>0
<1> HIDE DEF u, l, m, r
<1>15. /\ t \in Seq(Operations) /\ Len(t) = Len(l) + Len(m) + Len(r)
       /\ \A k \in 1..Len(l) : t[k] = l[k]
       /\ \A k \in 1..Len(m) : t[Len(l) + k] = m[k]
       /\ \A k \in 1..Len(r) : t[Len(l) + Len(m) + k] = r[k]
  <2>1. l \in Seq(Operations) /\ m \in Seq(Operations) /\ r \in Seq(Operations)
    BY <1>3, <1>4
  <2> QED
    BY <2>1, JoinFact
<1> HIDE DEF t
<1>5. /\ t \in Seq(Operations) /\ Len(t) = (n - 2) + 1 + (Len(s) - n)
      /\ \A k \in 1..(n - 2) : t[k] = l[k]
      /\ \A k \in 1..1 : t[n - 2 + k] = m[k]
      /\ \A k \in 1..(Len(s) - n) : t[n - 2 + 1 + k] = r[k]
  BY <1>0, <1>3, <1>4, <1>15
<1>6. t[n - 1] = o
  <2>1. t[n - 2 + 1] = m[1]
    BY <1>5
  <2> QED
    BY <1>4, <2>1
<1>7. \A k \in 1..(n - 2) : t[k] = s[k]
  BY <1>3, <1>5
<1> DEFINE x == SubSeq(u, 1, n - 2)
           y == SubSeq(u, n, Len(u))
<1>8. /\ x \in Seq(Operations) /\ Len(x) = n - 2 /\ \A k \in 1..(n - 2) : x[k] = u[k]
      /\ y \in Seq(Operations) /\ Len(y) = Len(s) - n + 1
      /\ \A k \in 1..(Len(s) - n + 1) : y[k] = u[n - 1 + k]
  BY <1>2
<1>9. RemoveAt(u, n - 1) = x \o y
  <2>1. n - 1 - 1 = n - 2 /\ n - 1 + 1 = n
    BY <1>0
  <2> QED
    BY <2>1 DEF RemoveAt
<1> HIDE DEF x, y
<1>10. /\ x \o y \in Seq(Operations) /\ Len(x \o y) = Len(s) - 1
       /\ \A k \in 1..(n - 2) : (x \o y)[k] = u[k]
       /\ \A k \in 1..(Len(s) - n + 1) : (x \o y)[n - 2 + k] = u[n - 1 + k]
  <2> DEFINE w == x \o y
             c == Len(s) - n + 1
  <2>1. c \in Nat /\ Len(y) = c
    BY <1>0, <1>8
  <2>2. /\ w \in Seq(Operations) /\ Len(w) = (n - 2) + c
        /\ \A k \in 1..(n - 2) : w[k] = x[k]
        /\ \A k \in 1..c : w[n - 2 + k] = y[k]
    <3>1. /\ w \in Seq(Operations) /\ Len(w) = Len(x) + Len(y)
          /\ \A k \in 1..Len(x) : w[k] = x[k]
          /\ \A k \in 1..Len(y) : w[Len(x) + k] = y[k]
      BY <1>8, ConcatFact
    <3> HIDE DEF c, w
    <3> QED
      BY <1>8, <2>1, <3>1
  <2> HIDE DEF w
  <2>3. (n - 2) + c = Len(s) - 1
    BY <1>0
  <2>4. w \in Seq(Operations) /\ Len(w) = Len(s) - 1 /\ \A k \in 1..(n - 2) : w[k] = u[k]
    BY <1>8, <2>2, <2>3
  <2>5. \A k \in 1..c : w[n - 2 + k] = u[n - 1 + k]
    <3> HIDE DEF c
    <3> QED
      BY <1>8, <2>2 DEF c
  <2> QED
    BY <2>4, <2>5 DEF w
<1> DEFINE z == x \o y
<1>14. /\ z \in Seq(Operations) /\ Len(z) = Len(s) - 1
       /\ \A k \in 1..(n - 2) : z[k] = u[k]
       /\ \A k \in 1..(Len(s) - n + 1) : z[n - 2 + k] = u[n - 1 + k]
       /\ RemoveAt(u, n - 1) = z
  BY <1>9, <1>10
<1> HIDE DEF z
<1>11. ASSUME NEW k \in 1..(Len(s) - 1) PROVE z[k] = t[k]
  <2>1. CASE k \in 1..(n - 2)
    <3>1. k \in 1..Len(s) /\ k # n
      BY <1>0, <2>1
    <3> QED
      BY <1>2, <1>7, <1>14, <2>1, <3>1
  <2>2. CASE k = n - 1
    <3>1. z[n - 2 + 1] = u[n - 1 + 1]
      <4>1. 1 \in 1..(Len(s) - n + 1)
        BY <1>0
      <4> QED
        BY <1>14, <4>1
    <3> QED
      BY <1>2, <1>6, <2>2, <3>1
  <2>3. CASE k >= n
    <3>1. k - n + 2 \in 1..(Len(s) - n + 1) /\ k - n + 1 \in 1..(Len(s) - n)
      BY <1>0, <2>3
    <3>2. z[n - 2 + (k - n + 2)] = u[n - 1 + (k - n + 2)]
      BY <1>14, <3>1
    <3>3. t[n - 2 + 1 + (k - n + 1)] = r[k - n + 1]
      BY <1>5, <3>1
    <3>4. r[k - n + 1] = s[n + (k - n + 1)]
      BY <1>3, <3>1
    <3>5. k + 1 \in 1..Len(s) /\ k + 1 # n
      BY <1>0, <2>3
    <3> QED
      BY <1>0, <1>2, <3>2, <3>3, <3>4, <3>5
  <2> QED
    BY <1>0, <2>1, <2>2, <2>3
<1>12. Len(t) = Len(s) - 1
  BY <1>0, <1>5
<1>13. z = t
  BY <1>5, <1>14, <1>11, <1>12, SameSequence
<1> QED
  BY <1>1, <1>5, <1>6, <1>7, <1>14, <1>12, <1>13 DEF l, m, o, r, t, Join

LEMMA CoalesceInv ==
  ASSUME IInv, Coalesce
  PROVE  IInv'
<1>0. /\ TypeOK /\ IsPatch /\ IndexInRange /\ NoneBehind /\ LeadsToData
      /\ before \in Docs /\ MaxOps \in Nat
  BY DocumentsFact, JSONPatchAssumption DEF IInv, TypeOK
<1>1. /\ pc = "coalesce" /\ i <= Len(patch) /\ SamePair(i)
      /\ patch' = Coalesced(patch, i)
      /\ i' = i + 1
      /\ UNCHANGED <<before, after, pc>>
  BY DEF Coalesce, InRange, Coalesced
<1>2. /\ patch \in Seq(Operations) /\ Len(patch) <= MaxOps /\ i \in 2..Len(patch)
      /\ Len(patch) \in Nat
  BY <1>0, <1>1 DEF IsPatch, TypeOK
<1> DEFINE r == patch[i - 1]
           a == patch[i]
           o == Replacement(a)
           l == SubSeq(patch, 1, i - 2)
           e == SubSeq(patch, i + 1, Len(patch))
<1>3. /\ r \in Operations /\ r.op = "remove"
      /\ a \in Operations /\ a.op = "add" /\ r.path = a.path
      /\ o \in Operations /\ o.op = "replace" /\ o.path = a.path /\ o.value = a.value
  <2>1. r \in Operations /\ a \in Operations
    BY <1>2
  <2> QED
    BY <1>1, <2>1, ReplacementFact DEF SamePair, Pair
<1>4. /\ patch' \in Seq(Operations) /\ Len(patch') = Len(patch) - 1
      /\ \A k \in 1..(i - 2) : patch'[k] = patch[k]
      /\ patch'[i - 1] = o
      /\ patch' = (l \o <<o>>) \o e
  BY <1>1, <1>2, CoalescedFact
<1>5. /\ patch = (l \o <<r, a>>) \o e /\ l \in Seq(Operations) /\ e \in Seq(Operations)
  BY <1>2, SplitPair, PartsOf
<1>6. IsPatch' /\ IndexInRange'
  <2> HIDE DEF r, a, o, l, e
  <2>1. Len(patch') <= MaxOps
    BY <1>0, <1>2, <1>4
  <2> QED
    BY <1>1, <1>4, <2>1 DEF IsPatch, IndexInRange
<1>7. TypeOK'
  <2>1. i' \in 2..(MaxOps + 2)
    BY <1>0, <1>1, <1>2
  <2> QED
    BY <1>0, <1>1, <1>4, <2>1, OperationsTyped DEF TypeOK
<1> HIDE DEF r, a, o, l, e
<1>8. NoneBehind'
  <2>1. ASSUME NEW n \in 2..Len(patch'), n < i', SamePair(n)'
        PROVE  FALSE
    <3>1. patch'[n - 1].op = "remove" /\ patch'[n].op = "add" /\ patch'[n - 1].path = patch'[n].path
      BY <2>1 DEF SamePair, Pair
    <3>2. n <= i /\ n \in 2..Len(patch)
      BY <1>1, <1>2, <1>4, <2>1
    <3>3. n # i
      BY <1>3, <1>4, <3>1
    <3>4. n # i - 1
      BY <1>3, <1>4, <3>1
    <3>5. n \in 1..(i - 2) /\ n - 1 \in 1..(i - 2)
      BY <1>2, <3>2, <3>3, <3>4
    <3>6. SamePair(n)
      BY <1>4, <3>1, <3>5 DEF SamePair, Pair
    <3> QED
      BY <1>0, <1>2, <3>2, <3>3, <3>6 DEF NoneBehind
  <2> QED
    BY <2>1 DEF NoneBehind
<1>9. LeadsToData'
  <2> DEFINE d == Apply(l, before)
  <2>1. d \in Docs \cup {Broken}
    BY <1>0, <1>5, ApplyType
  <2> HIDE DEF d
  <2>2. <<r>> \in Seq(Operations) /\ <<a>> \in Seq(Operations) /\ <<o>> \in Seq(Operations)
        /\ <<r, a>> \in Seq(Operations) /\ <<r, a>> = <<r>> \o <<a>>
    BY <1>3, TwoOps
  <2>3. Apply(<<r, a>>, d) = Applied(Applied(d, r), a)
    BY <1>3, <2>2, ApplyParts, ApplyOne
  <2>4. Apply(<<o>>, d) = Applied(d, o)
    BY <1>3, ApplyOne
  <2>5. Apply(<<r, a>>, d) = Apply(<<o>>, d)
    BY <1>3, <2>1, <2>3, <2>4, ReplaceFact
  <2>6. /\ l \o <<r, a>> \in Seq(Operations) /\ l \o <<o>> \in Seq(Operations)
    BY <1>5, <2>2, AppendOps
  <2>7. Apply(patch, before) = Apply(e, Apply(<<r, a>>, d))
    <3>1. Apply(patch, before) = Apply(e, Apply(l \o <<r, a>>, before))
      BY <1>5, <2>6, ApplyParts
    <3>2. Apply(l \o <<r, a>>, before) = Apply(<<r, a>>, d)
      BY <1>5, <2>2, ApplyParts DEF d
    <3> QED
      BY <3>1, <3>2
  <2>8. Apply(patch', before) = Apply(e, Apply(<<o>>, d))
    <3>1. Apply(patch', before) = Apply(e, Apply(l \o <<o>>, before))
      <4>1. Apply((l \o <<o>>) \o e, before) = Apply(e, Apply(l \o <<o>>, before))
        BY <1>5, <2>6, ApplyParts
      <4> QED
        BY <1>4, <4>1
    <3>2. Apply(l \o <<o>>, before) = Apply(<<o>>, d)
      BY <1>5, <2>2, ApplyParts DEF d
    <3> QED
      BY <3>1, <3>2
  <2> QED
    BY <1>0, <1>1, <2>5, <2>7, <2>8 DEF LeadsToData
<1> QED
  BY <1>6, <1>7, <1>8, <1>9 DEF IInv

LEMMA OtherStepsInv ==
  ASSUME IInv, Diff \/ Continue \/ Return \/ UNCHANGED vars
  PROVE  IInv'
<1>0. /\ TypeOK /\ IsPatch /\ IndexInRange /\ NoneBehind /\ LeadsToData /\ MaxOps \in Nat
  BY JSONPatchAssumption DEF IInv
<1>1. UNCHANGED <<before, after, patch>>
  BY DEF Diff, Continue, Return, vars
<1>2. Len(patch) \in Nat /\ Len(patch) <= MaxOps /\ i \in 2..(MaxOps + 2)
  BY <1>0 DEF IsPatch, TypeOK
<1>3. IsPatch' /\ LeadsToData'
  BY <1>0, <1>1 DEF IsPatch, LeadsToData
<1>4. CASE Diff \/ Return \/ UNCHANGED vars
  <2>1. i' = i /\ (pc' = pc \/ pc' = "coalesce" \/ (pc' = "done" /\ i > Len(patch)))
    BY <1>2, <1>4 DEF Diff, Return, InRange, vars
  <2> QED
    BY <1>0, <1>1, <1>3, <1>4, <2>1
    DEF IInv, TypeOK, IndexInRange, NoneBehind, SamePair, Pair, Diff, Return, vars
<1>5. CASE Continue
  <2>1. /\ pc = "coalesce" /\ pc' = pc /\ i' = i + 1 /\ i <= Len(patch) /\ ~SamePair(i)
    BY <1>5 DEF Continue, InRange
  <2>2. TypeOK' /\ IndexInRange'
    BY <1>0, <1>1, <1>2, <2>1 DEF TypeOK, IndexInRange
  <2>3. \A n : SamePair(n)' <=> SamePair(n)
    BY <1>1 DEF SamePair, Pair
  <2>4. NoneBehind'
    <3>1. \A n \in 2..Len(patch) : n < i + 1 => n < i \/ n = i
      BY <1>2
    <3> QED
      BY <1>0, <1>1, <2>1, <2>3, <3>1 DEF NoneBehind
  <2> QED
    BY <1>3, <2>2, <2>4 DEF IInv
<1> QED
  BY <1>4, <1>5

(* Every step keeps the invariant. *)
LEMMA NextInv ==
  ASSUME IInv, [Next]_vars
  PROVE  IInv'
<1>1. ASSUME NEW p \in Paths, NEW v \in Values \cup {Absent}, Differ(p, v) PROVE IInv'
  BY <1>1, DifferInv
<1>2. ASSUME NEW p \in Paths, NEW v \in Values, Insert(p, v) PROVE IInv'
  BY <1>2, InsertInv
<1>3. CASE Coalesce
  BY <1>3, CoalesceInv
<1>4. CASE Diff \/ Continue \/ Return \/ UNCHANGED vars
  BY <1>4, OtherStepsInv
<1> QED
  BY <1>1, <1>2, <1>3, <1>4 DEF Next

LEMMA Invariant == Spec => []IInv
<1>1. Init => IInv
  BY InitInv
<1>2. IInv /\ [Next]_vars => IInv'
  BY NextInv
<1> QED
  BY <1>1, <1>2, PTL DEF Spec

(* The state of the loop has its types: a patch has only the operations    *)
(* that the code builds, each with a path and a value, and the index stays *)
(* within bounds although the slice gets shorter, for any fields, values   *)
(* and bounds (CreateJSONPatch).                                           *)
THEOREM TypeCorrect == Spec => []TypeOK
<1>1. IInv => TypeOK
  BY DEF IInv
<1> QED
  BY <1>1, Invariant, PTL

(* Whatever the documents are, and whatever has been coalesced so far, the *)
(* patch leads a client from the one document to the other, and the loop   *)
(* that shortens its slice leaves no removal that an addition at its path  *)
(* follows (json_patch.go:56-71).                                          *)
THEOREM PatchLeadsToData == Spec => []PatchIsRight
<1>1. IInv => PatchIsRight
  <2>1. ASSUME IInv, pc = "done", NEW n \in 2..Len(patch)
        PROVE  ~SamePair(n)
    <3>1. n < i
      BY <2>1 DEF IInv, IndexInRange, TypeOK, IsPatch
    <3> QED
      BY <2>1, <3>1 DEF IInv, NoneBehind
  <2>2. IInv => AllCoalesced
    BY <2>1 DEF AllCoalesced, SamePair, Pair
  <2> QED
    BY <2>2 DEF PatchIsRight, IInv
<1> QED
  BY <1>1, Invariant, PTL
=============================================================================
