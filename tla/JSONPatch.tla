------------------------------ MODULE JSONPatch ------------------------------
(***************************************************************************)
(* internal/live_query/json_patch.go: the patch that a live query sends in *)
(* place of its data.  The jd library (external) makes a patch of tests,   *)
(* removals and additions; CreateJSONPatch makes one replacement of a      *)
(* removal and an addition that follow each other at one path, in a loop   *)
(* that shortens the slice it runs over.                                   *)
(*                                                                         *)
(* A document has some fields and an array, whose items move when one is   *)
(* added or removed before them.                                           *)
(***************************************************************************)
EXTENDS Integers, Sequences, SequencesExt

CONSTANTS
  Fields,    \* names of fields
  Values,    \* JSON values
  Null,      \* the JSON value null, in Values or not
  MaxItems,  \* bound on the length of the array
  MaxOps     \* bound on the length of a patch

Absent == "absent"
Item   == "item"     \* in a path, the place of a field's name

ASSUME JSONPatchAssumption ==
  /\ Absent \notin Values
  /\ Item \notin Fields
  /\ MaxItems \in Nat
  /\ MaxOps \in Nat

Documents == [fields : [Fields -> Values \cup {Absent}],
              items  : UNION {[1..n -> Values] : n \in 0..MaxItems}]

(* A path names a field or an item by its index. *)
Path(f, i) == [field |-> f, index |-> i]
Paths == {Path(f, 0) : f \in Fields} \cup {Path(Item, i) : i \in 1..MaxItems}

Op(op, path, value) == [op |-> op, path |-> path, value |-> value]

VARIABLES
  before,  \* x: the document that the client has
  after,   \* y: the document that the patch is to lead to
  pc,      \* "diff", "coalesce" or "done"
  patch,   \* the operations
  i        \* the index of the loop, counted from 1

vars == <<before, after, pc, patch, i>>

Init ==
  /\ before \in Documents
  /\ after = before
  /\ pc = "diff"
  /\ patch = << >>
  /\ i = 2

-----------------------------------------------------------------------------
(* What a client does with an operation (RFC 6902, external) *)

Broken == [fields |-> << >>, items |-> <<Absent>>]   \* an operation did not apply

At(doc, p) ==
  IF p.field # Item THEN doc.fields[p.field]
  ELSE IF p.index \in DOMAIN doc.items THEN doc.items[p.index] ELSE Absent

Removed(doc, p) ==
  IF p.field = Item THEN [doc EXCEPT !.items = RemoveAt(@, p.index)]
                    ELSE [doc EXCEPT !.fields[p.field] = Absent]

CanAdd(doc, p) == p.field = Item => p.index <= Len(doc.items) + 1

Added(doc, p, v) ==
  IF p.field = Item THEN [doc EXCEPT !.items = InsertAt(@, p.index, v)]
                    ELSE [doc EXCEPT !.fields[p.field] = v]

Applies(doc, o) ==
  /\ doc # Broken
  /\ o.op = "test" => At(doc, o.path) = o.value
  /\ o.op = "add" => CanAdd(doc, o.path)
  /\ o.op \in {"remove", "replace"} => At(doc, o.path) # Absent

Applied(doc, o) ==
  IF ~Applies(doc, o) THEN Broken
  ELSE CASE o.op = "test"    -> doc
         [] o.op = "add"     -> Added(doc, o.path, o.value)
         [] o.op = "remove"  -> Removed(doc, o.path)
         [] o.op = "replace" -> Added(Removed(doc, o.path), o.path, o.value)

(* One operation after the other. *)
Apply(ops, doc) ==
  LET docs[n \in 0..Len(ops)] ==
        IF n = 0 THEN doc ELSE Applied(docs[n - 1], ops[n])
  IN  docs[Len(ops)]

-----------------------------------------------------------------------------
(* x.Diff(y).RenderPatch() and the loop *)

(* A place where the documents differ.  What was there is tested and       *)
(* removed, and what comes there is added; RenderPatch gives the removal   *)
(* the old value, too.                                                     *)
Differ(p, new) ==
  LET old    == At(after, p)
      ops    == (IF old = Absent THEN << >>
                 ELSE <<Op("test", p, old), Op("remove", p, old)>>)
                \o (IF new = Absent THEN << >> ELSE <<Op("add", p, new)>>)
  IN  /\ pc = "diff"
      /\ Len(patch) + Len(ops) <= MaxOps
      /\ old # new
      /\ new # Absent => CanAdd(after, p)
      /\ patch' = patch \o ops
      /\ after' = Apply(ops, after)
      /\ Len(after'.items) <= MaxItems
      /\ UNCHANGED <<before, pc, i>>

(* An item that is added where there is one moves that one.                *)
Insert(p, new) ==
  /\ pc = "diff"
  /\ p.field = Item /\ p.index \in DOMAIN after.items
  /\ Len(after.items) < MaxItems
  /\ Len(patch) < MaxOps
  /\ patch' = Append(patch, Op("add", p, new))
  /\ after' = Added(after, p, new)
  /\ UNCHANGED <<before, pc, i>>

Diff ==
  /\ pc = "diff"
  /\ pc' = "coalesce"
  /\ UNCHANGED <<before, after, patch, i>>

Pair(n) == patch[n - 1].op = "remove" /\ patch[n].op = "add"

SamePair(n) == Pair(n) /\ patch[n - 1].path = patch[n].path

(* Mutant: the loop ends before the last operation. *)
InRangeButLast(n) == n < Len(patch)

InRange(n) == n <= Len(patch)

(* The removal goes and the addition becomes a replacement.  The index     *)
(* goes on by one though the slice is shorter by one.                      *)
Coalesce ==
  /\ pc = "coalesce" /\ InRange(i)
  /\ SamePair(i)
  /\ patch' = RemoveAt([patch EXCEPT ![i].op = "replace"], i - 1)
  /\ i' = i + 1
  /\ UNCHANGED <<before, after, pc>>

Continue ==
  /\ pc = "coalesce" /\ InRange(i)
  /\ ~SamePair(i)
  /\ i' = i + 1
  /\ UNCHANGED <<before, after, pc, patch>>

Return ==
  /\ pc = "coalesce" /\ ~InRange(i)
  /\ pc' = "done"
  /\ UNCHANGED <<before, after, patch, i>>

Next ==
  \/ \E p \in Paths, v \in Values \cup {Absent} : Differ(p, v)
  \/ \E p \in Paths, v \in Values : Insert(p, v)
  \/ Diff
  \/ Coalesce
  \/ Continue
  \/ Return

Spec == Init /\ [][Next]_vars

-----------------------------------------------------------------------------
(* json.Marshal of an Operation: the tag of Value is "value,omitempty",    *)
(* and the value of a nil interface, which is null, is left out.           *)
Members(o) == {"op", "path"} \cup (IF o.value = Null THEN {} ELSE {"value"})

(* Operations have a known op and a path, and only those that the code     *)
(* knows how to build; a "move" never occurs.                              *)
TypeOK ==
  /\ before \in Documents
  /\ after \in Documents
  /\ pc \in {"diff", "coalesce", "done"}
  /\ i \in 2..(MaxOps + 2)
  /\ \A n \in DOMAIN patch :
       patch[n] \in [op : {"test", "remove", "add", "replace"}, path : Paths,
                     value : Values]

(* The patch leads from the one document to the other, whatever part of it *)
(* has been coalesced: indexes of the array mean the same after a removal  *)
(* and an addition have become one operation.                              *)
LeadsToData == Apply(patch, before) = after

(* The loop leaves no removal that an addition at its path follows, though *)
(* it goes on without looking at the pair that moved to its index.         *)
AllCoalesced ==
  pc = "done" => \A n \in 2..Len(patch) :
    ~(/\ patch[n - 1].op = "remove" /\ patch[n].op = "add"
      /\ patch[n - 1].path = patch[n].path)

(* The loop of CreateJSONPatch, which shortens what it runs over, changes  *)
(* the operations and not what they do, and misses none.                   *)
PatchIsRight == LeadsToData /\ AllCoalesced

(* "Add contains path and value members", "Replace contains path and value *)
(* members" (the comments of the constants).                               *)
ValueIsSent ==
  \A n \in DOMAIN patch : pc = "done" /\ patch[n].op \in {"add", "replace"} =>
    "value" \in Members(patch[n])

=============================================================================
