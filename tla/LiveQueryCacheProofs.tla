------------------------ MODULE LiveQueryCacheProofs ------------------------
(***************************************************************************)
(* Proofs about LiveQueryCache for any queries, reads, objects and kinds,  *)
(* and any number of changes.                                              *)
(***************************************************************************)
EXTENDS LiveQueryCache, TLAPS

-----------------------------------------------------------------------------
(* The inductive invariant.                                                *)

(* What TypeOK does not say of the variables with one entry per read.      *)
Shapes ==
  /\ rt = [q \in Queries |-> rt[q]]
  /\ seen = [q \in Queries |-> seen[q]]
  /\ raced = [q \in Queries |-> raced[q]]

(* Objects have different uids, and every change gives a new version.      *)
Stored(v, n) == v.uid \in 1..n /\ v.ver \in 1..n

Versioned ==
  /\ \A o \in Objects : store[o] = NoObject \/ Stored(store[o], changes)
  /\ \A o, p \in Objects : store[o] # NoObject /\ store[o].uid = store[p].uid => o = p

(* What was read was in the store, and a Get that went on had one object.  *)
SeenStored ==
  \A q \in Queries : \A t \in Reads[q] :
    /\ \A v \in seen[q][t] : Stored(v, changes)
    /\ t \in Objects /\ rt[q][t] \in {"read", "done"} => \E v \in Versions : seen[q][t] = {v}

(* The uid of an object whose deletion is on its way is never in the store *)
(* again.                                                                  *)
Gone(e, n, st) ==
  e.type = "delete" => e.old \in 1..n /\ \A o \in Objects : st[o].uid # e.old

DeletedStayGone ==
  \A k \in Kinds : /\ Gone(loop[k].ev, changes, store)
                   /\ \A i \in 1..Len(events[k]) : Gone(events[k][i], changes, store)

(* A read that has been registered is tracked: its kind has a handler, the *)
(* query is among those that handlers visit, and its tracker has the kind  *)
(* or, while the object is as it was read, the uid.                        *)
Tracks(q, t) ==
  LET e == oids[q][KindOfRead(t)] IN
  \/ e.mode = "list"
  \/ t \in Objects /\ e.mode = "set" /\ (store[t] \in seen[q][t] => store[t].uid \in e.uids)

Registered ==
  \A q \in Queries : live[q] => \A t \in Reads[q] :
    rt[q][t] = "done" => q \in queries /\ KindOfRead(t) \in handles /\ Tracks(q, t)

(* Between the read and the registration nothing else remembers a change.  *)
ReadIsCurrent ==
  \A q \in Queries : \A t \in Reads[q] :
    rt[q][t] = "read" => seen[q][t] = Value(t) \/ raced[q][t]

Base == TypeOK /\ Shapes /\ Versioned /\ SeenStored /\ DeletedStayGone

-----------------------------------------------------------------------------
(* Operators and actions.                                                  *)

LEMMA KindOfReadType ==
  ASSUME NEW q \in Queries, NEW t \in Reads[q]
  PROVE  t \in Objects \cup Kinds /\ KindOfRead(t) \in Kinds
BY LiveQueryCacheAssumption DEF KindOfRead

LEMMA NoEventType ==
  NoEvent \in Events /\ NoEvent.initial = FALSE /\ NoEvent.tomb = FALSE /\ NoEvent.type = "none"
BY LiveQueryCacheAssumption DEF NoEvent, Events

LEMMA ValueType ==
  ASSUME TypeOK, Versioned, NEW q \in Queries, NEW t \in Reads[q]
  PROVE  Value(t) \in SUBSET Versions /\ \A v \in Value(t) : Stored(v, changes)
<1>1. Covered(t) \subseteq Objects
  BY LiveQueryCacheAssumption DEF Covered
<1> QED
  BY <1>1 DEF Value, TypeOK, Versioned

(* What a change of the store does.                                        *)
LEMMA ApplyEffect ==
  ASSUME TypeOK, NEW o \in Objects, NEW to \in Versions, NEW e \in Events, Apply(o, to, e)
  PROVE  /\ changes' = changes + 1 /\ changes \in Nat /\ changes' \in 0..MaxChanges
         /\ store' \in [Objects -> Versions] /\ store'[o] = to
         /\ \A p \in Objects : p # o => store'[p] = store[p]
         /\ zeroed' \in [Objects -> BOOLEAN]
         /\ events' \in [Kinds -> Seq(Events)]
         /\ \A k \in Kinds : events'[k] = IF k = KindOf[o] /\ k \in handles
                                          THEN Append(events[k], e) ELSE events[k]
         /\ raced' = [q \in Queries |-> [t \in Reads[q] |->
                        raced[q][t] \/ (rt[q][t] = "read" /\ o \in Covered(t))]]
         /\ UNCHANGED <<trackVars, loop, queryVars>>
<1>1. changes' = changes + 1 /\ changes \in Nat /\ changes' \in 0..MaxChanges
  BY LiveQueryCacheAssumption DEF Apply, TypeOK
<1>2. /\ store' \in [Objects -> Versions] /\ store'[o] = to
      /\ \A p \in Objects : p # o => store'[p] = store[p]
      /\ zeroed' \in [Objects -> BOOLEAN]
  BY DEF Apply, TypeOK
<1>3. KindOf[o] \in Kinds /\ Append(events[KindOf[o]], e) \in Seq(Events)
  BY LiveQueryCacheAssumption DEF TypeOK
<1>4. events' \in [Kinds -> Seq(Events)]
  BY <1>3 DEF Apply, TypeOK
<1>5. \A k \in Kinds : events'[k] = IF k = KindOf[o] /\ k \in handles
                                    THEN Append(events[k], e) ELSE events[k]
  BY <1>3 DEF Apply, TypeOK
<1> QED
  BY <1>1, <1>2, <1>4, <1>5 DEF Apply

(* The event that a change queues tells the uid the object had, and the    *)
(* object gets a new version, and a new uid unless it is updated.          *)
Reported(o, to, e) ==
  /\ to \in Versions /\ e \in Events
  /\ to = NoObject \/ (to.ver = changes + 1 /\ to.uid = changes + 1)
       \/ (to.ver = changes + 1 /\ to.uid = store[o].uid /\ store[o] # NoObject)
  /\ store[o] # NoObject => e.type \in {"update", "delete"} /\ e.old = store[o].uid
  /\ e.type = "delete" => store[o] # NoObject /\ to = NoObject
  /\ ~e.initial /\ e.tomb \in {FALSE, MissedDeletes}

LEMMA ChangeEffect ==
  ASSUME TypeOK, NEW o \in Objects, Create(o) \/ Update(o) \/ Replace(o) \/ Delete(o)
  PROVE  \E to, e : Reported(o, to, e) /\ Apply(o, to, e)
<1> USE LiveQueryCacheAssumption
<1>0. /\ changes \in Nat /\ changes + 1 \in 0..MaxChanges /\ 0 \in 0..MaxChanges
      /\ store[o].uid \in 0..MaxChanges /\ zeroed[o] \in BOOLEAN
  BY DEF Create, Update, Replace, Delete, Apply, TypeOK, Versions
<1>1. CASE Create(o)
  <2> DEFINE to == [uid |-> changes + 1, ver |-> changes + 1]
             e  == [NoEvent EXCEPT !.type = "add", !.new = changes + 1]
  <2>1. Apply(o, to, e) /\ store[o] = NoObject
    BY <1>1, Zenon DEF Create
  <2>2. e \in Events /\ e.type = "add" /\ ~e.initial /\ e.tomb = FALSE
    BY <1>0, NoEventType DEF Events
  <2>3. Reported(o, to, e)
    BY <1>0, <2>1, <2>2 DEF Reported, Versions, Events
  <2> QED
    BY <2>1, <2>3, Zenon
<1>2. CASE Update(o)
  <2> DEFINE to == [uid |-> store[o].uid, ver |-> changes + 1]
             e  == [NoEvent EXCEPT !.type = "update", !.old = store[o].uid,
                                   !.new = store[o].uid, !.zero = zeroed[o]]
  <2>1. Apply(o, to, e) /\ store[o] # NoObject
    BY <1>2, Zenon DEF Update
  <2>2. e \in Events /\ e.type = "update" /\ e.old = store[o].uid /\ ~e.initial /\ e.tomb = FALSE
    BY <1>0, NoEventType DEF Events
  <2>3. Reported(o, to, e)
    BY <1>0, <2>1, <2>2 DEF Reported, Versions, Events
  <2> QED
    BY <2>1, <2>3, Zenon
<1>3. CASE Replace(o)
  <2> DEFINE to == [uid |-> changes + 1, ver |-> changes + 1]
             e  == [NoEvent EXCEPT !.type = "update", !.old = store[o].uid,
                                   !.new = changes + 1, !.zero = zeroed[o]]
  <2>1. Apply(o, to, e) /\ store[o] # NoObject
    BY <1>3, Zenon DEF Replace
  <2>2. e \in Events /\ e.type = "update" /\ e.old = store[o].uid /\ ~e.initial /\ e.tomb = FALSE
    BY <1>0, NoEventType DEF Events
  <2>3. Reported(o, to, e)
    BY <1>0, <2>1, <2>2 DEF Reported, Versions, Events
  <2> QED
    BY <2>1, <2>3, Zenon
<1>4. CASE Delete(o)
  <2>1. PICK tomb \in {FALSE, MissedDeletes} :
          Apply(o, NoObject, [NoEvent EXCEPT !.type = "delete", !.old = store[o].uid,
                                             !.tomb = tomb])
    BY <1>4, Zenon DEF Delete
  <2> DEFINE e == [NoEvent EXCEPT !.type = "delete", !.old = store[o].uid, !.tomb = tomb]
  <2>2. e \in Events /\ e.type = "delete" /\ e.old = store[o].uid /\ ~e.initial /\ e.tomb = tomb
    BY <1>0, NoEventType DEF Events
  <2>3. store[o] # NoObject
    BY <1>4 DEF Delete
  <2>4. tomb \in BOOLEAN
    BY <2>1
  <2>5. Reported(o, NoObject, e)
    BY <1>0, <2>1, <2>2, <2>3, <2>4 DEF Reported, Versions, Events, NoObject
  <2> QED
    BY <2>1, <2>5, Zenon
<1> QED
  BY <1>1, <1>2, <1>3, <1>4

LEMMA SetReadEffect ==
  ASSUME TypeOK, Shapes, NEW q \in Queries, NEW t \in Reads[q],
         NEW s \in {"todo", "read", "done", "error"}, SetRead(q, t, s)
  PROVE  /\ rt' = [p \in Queries |-> rt'[p]]
         /\ \A p \in Queries : rt'[p] \in [Reads[p] -> {"todo", "read", "done", "error"}]
         /\ rt'[q][t] = s
         /\ \A u \in Reads[q] : u # t => rt'[q][u] = rt[q][u]
         /\ \A p \in Queries : p # q => rt'[p] = rt[p]
<1>1. rt' = [p \in Queries |-> IF p = q THEN [rt[q] EXCEPT ![t] = s] ELSE rt[p]]
  BY DEF SetRead, Shapes
<1>2. \A p \in Queries : rt[p] \in [Reads[p] -> {"todo", "read", "done", "error"}]
  BY DEF TypeOK
<1> QED
  BY <1>1, <1>2

(* A handler takes the event at the head of its queue.                     *)
LEMMA DequeueEffect ==
  ASSUME TypeOK, NEW k \in Kinds, Dequeue(k)
  PROVE  /\ loop[k] = Idle /\ events' \in [Kinds -> Seq(Events)]
         /\ 1 \in 1..Len(events[k]) /\ Head(events[k]) = events[k][1] /\ events[k][1] \in Events
         /\ Len(events'[k]) \in Nat /\ Len(events[k]) = Len(events'[k]) + 1
         /\ \A i \in 1..Len(events'[k]) : events'[k][i] = events[k][i + 1]
         /\ \A j \in Kinds : j # k => events'[j] = events[j]
<1>1. events[k] \in Seq(Events) /\ events[k] # <<>> /\ loop[k] = Idle
  BY DEF TypeOK, Dequeue
<1>2. Tail(events[k]) \in Seq(Events) /\ events'[k] = Tail(events[k])
      /\ events' \in [Kinds -> Seq(Events)] /\ \A j \in Kinds : j # k => events'[j] = events[j]
  BY <1>1 DEF TypeOK, Dequeue
<1>3. /\ 1 \in 1..Len(events[k]) /\ Head(events[k]) = events[k][1] /\ events[k][1] \in Events
      /\ Len(Tail(events[k])) \in Nat /\ Len(events[k]) = Len(Tail(events[k])) + 1
      /\ \A i \in 1..Len(Tail(events[k])) : Tail(events[k])[i] = events[k][i + 1]
  BY <1>1
<1> QED
  BY <1>1, <1>2, <1>3

(* A handler's registration adds an event at the end of a queue at most.   *)
LEMMA AddHandlerEffect ==
  ASSUME TypeOK, NEW k \in Kinds, AddEventHandler(k)
  PROVE  /\ handles' = handles \cup {k} /\ events' \in [Kinds -> Seq(Events)]
         /\ \A j \in Kinds : \/ events'[j] = events[j]
                             \/ \E e \in Events : e.type = "add" /\ events'[j] = Append(events[j], e)
<1> DEFINE e == [NoEvent EXCEPT !.type = "add", !.initial = TRUE]
<1>1. e \in Events /\ e.type = "add"
  BY NoEventType DEF Events
<1> HIDE DEF e
<1>2. handles' = handles \cup {k}
      /\ (events' = events \/ events' = [events EXCEPT ![k] = Append(@, e)])
  BY DEF AddEventHandler, e
<1>3. events \in [Kinds -> Seq(Events)] /\ Append(events[k], e) \in Seq(Events)
  BY <1>1 DEF TypeOK
<1> QED
  BY <1>1, <1>2, <1>3

LEMMA AppendFacts ==
  ASSUME NEW s \in Seq(Events), NEW e \in Events
  PROVE  /\ Len(Append(s, e)) = Len(s) + 1 /\ Len(s) \in Nat
         /\ \A i \in 1..Len(s) : Append(s, e)[i] = s[i] /\ i \in 1..(Len(s) + 1)
         /\ Append(s, e)[Len(s) + 1] = e
         /\ \A i \in 1..(Len(s) + 1) : i \in 1..Len(s) \/ i = Len(s) + 1
OBVIOUS

-----------------------------------------------------------------------------
(* Types, versions and events.                                             *)

LEMMA BaseInit == Init => Base
<1> SUFFICES ASSUME Init PROVE Base
  OBVIOUS
<1> USE LiveQueryCacheAssumption
<1>1. store \in [Objects -> Versions] /\ changes \in 0..MaxChanges
  BY DEF Init, NoObject, Versions
<1>2. Idle \in [ev : Events, todo : SUBSET Queries] /\ Untracked \in [mode : {"none", "set", "list"}, uids : SUBSET UIDs]
  BY NoEventType DEF Idle, Untracked
<1>3. events \in [Kinds -> Seq(Events)] /\ \A k \in Kinds : events[k] = <<>>
  BY DEF Init
<1>4. TypeOK
  BY <1>1, <1>2, <1>3 DEF Init, TypeOK
<1>5. Shapes
  BY DEF Init, Shapes
<1>6. Versioned /\ SeenStored
  BY DEF Init, Versioned, SeenStored
<1>7. DeletedStayGone
  BY <1>3, NoEventType DEF Init, DeletedStayGone, Gone, Idle
<1> QED
  BY <1>4, <1>5, <1>6, <1>7 DEF Base

LEMMA ChangeBase ==
  ASSUME Base, NEW o \in Objects, NEW to, NEW e, Reported(o, to, e), Apply(o, to, e)
  PROVE  Base'
<1> USE LiveQueryCacheAssumption
<1>0. TypeOK /\ Shapes /\ Versioned /\ SeenStored /\ DeletedStayGone /\ to \in Versions /\ e \in Events
  BY DEF Base, Reported
<1>1. /\ changes' = changes + 1 /\ changes \in Nat /\ changes' \in 0..MaxChanges
      /\ store' \in [Objects -> Versions] /\ store'[o] = to
      /\ \A p \in Objects : p # o => store'[p] = store[p]
      /\ zeroed' \in [Objects -> BOOLEAN]
      /\ events' \in [Kinds -> Seq(Events)]
      /\ \A k \in Kinds : events'[k] = IF k = KindOf[o] /\ k \in handles
                                       THEN Append(events[k], e) ELSE events[k]
      /\ raced' = [q \in Queries |-> [t \in Reads[q] |->
                     raced[q][t] \/ (rt[q][t] = "read" /\ o \in Covered(t))]]
      /\ UNCHANGED <<handles, queries, oids, loop, live, dirty, rt, seen>>
  BY <1>0, ApplyEffect DEF trackVars, queryVars
<1>2. TypeOK'
  <2>1. \A q \in Queries : raced'[q] \in [Reads[q] -> BOOLEAN]
    BY <1>1
  <2> QED
    BY <1>0, <1>1, <2>1 DEF TypeOK
<1>3. Shapes'
  BY <1>0, <1>1 DEF Shapes
<1>4. \A v : Stored(v, changes) => Stored(v, changes')
  BY <1>1 DEF Stored
<1>5. Versioned'
  <2>1. to = NoObject \/ Stored(to, changes')
    BY <1>0, <1>1 DEF Reported, Versioned, Stored
  <2>2. \A p \in Objects : store'[p] = NoObject \/ Stored(store'[p], changes')
    BY <1>0, <1>1, <1>4, <2>1 DEF Versioned
  <2>3. \A p \in Objects : p # o => store[p].uid \in 0..changes
    BY <1>0, <1>1 DEF Versioned, Stored, NoObject
  <2>4. to # NoObject => \A p \in Objects : p # o => store[p].uid # to.uid
    BY <1>0, <1>1, <2>3 DEF Reported, Versioned
  <2>5. \A p, r \in Objects : store'[p] # NoObject /\ store'[p].uid = store'[r].uid => p = r
    <3> SUFFICES ASSUME NEW p \in Objects, NEW r \in Objects, p # r,
                        store'[p] # NoObject, store'[p].uid = store'[r].uid
                 PROVE  FALSE
      OBVIOUS
    <3>1. CASE p # o /\ r # o
      BY <1>0, <1>1, <3>1 DEF Versioned
    <3>2. CASE p = o
      BY <1>1, <2>4, <3>2
    <3>3. CASE r = o
      <4>1. store[p].uid = to.uid /\ store[p].uid \in 1..changes
        BY <1>0, <1>1, <3>3 DEF Versioned, Stored
      <4>2. to # NoObject
        BY <4>1 DEF NoObject
      <4> QED
        BY <1>1, <2>4, <3>3, <4>1, <4>2
    <3> QED
      BY <3>1, <3>2, <3>3
  <2> QED
    BY <2>2, <2>5 DEF Versioned
<1>6. SeenStored'
  BY <1>0, <1>1, <1>4 DEF SeenStored
<1>7. \A x : Gone(x, changes, store) => Gone(x, changes', store')
  <2> SUFFICES ASSUME NEW x, x.type = "delete", Gone(x, changes, store)
               PROVE  x.old \in 1..changes' /\ \A p \in Objects : store'[p].uid # x.old
    BY DEF Gone
  <2>1. x.old \in 1..changes /\ \A p \in Objects : store[p].uid # x.old
    BY DEF Gone
  <2>2. to.uid # x.old
    BY <1>0, <1>1, <2>1 DEF Reported, NoObject
  <2>3. x.old \in 1..changes'
    BY <1>1, <2>1
  <2>4. \A p \in Objects : store'[p].uid # x.old
    BY <1>1, <2>1, <2>2
  <2> QED
    BY <2>3, <2>4
<1>8. Gone(e, changes', store')
  <2> SUFFICES ASSUME e.type = "delete"
               PROVE  e.old \in 1..changes' /\ \A p \in Objects : store'[p].uid # e.old
    BY DEF Gone
  <2>1. store[o] # NoObject /\ to = NoObject /\ e.old = store[o].uid
    BY DEF Reported
  <2>2. e.old \in 1..changes
    BY <1>0, <2>1 DEF Versioned, Stored
  <2>3. \A p \in Objects : p # o => store[p].uid # e.old
    BY <1>0, <2>1 DEF Versioned
  <2>4. e.old \in 1..changes'
    BY <1>1, <2>2
  <2>5. to.uid # e.old
    BY <1>1, <2>1, <2>2 DEF NoObject
  <2>6. \A p \in Objects : store'[p].uid # e.old
    BY <1>1, <2>1, <2>3, <2>5
  <2> QED
    BY <2>4, <2>6
<1>9. DeletedStayGone'
  <2> SUFFICES ASSUME NEW k \in Kinds
               PROVE  /\ Gone(loop'[k].ev, changes', store')
                      /\ \A i \in 1..Len(events'[k]) : Gone(events'[k][i], changes', store')
    BY <1>1 DEF DeletedStayGone
  <2>1. Gone(loop'[k].ev, changes', store')
    BY <1>0, <1>1, <1>7 DEF DeletedStayGone
  <2>2. CASE k = KindOf[o] /\ k \in handles
    <3>1. events'[k] = Append(events[k], e) /\ events[k] \in Seq(Events)
      BY <1>0, <1>1, <2>2 DEF TypeOK
    <3> QED
      BY <1>0, <1>7, <1>8, <2>1, <3>1, AppendFacts DEF DeletedStayGone
  <2>3. CASE ~(k = KindOf[o] /\ k \in handles)
    BY <1>0, <1>1, <1>7, <2>1, <2>3 DEF DeletedStayGone
  <2> QED
    BY <2>2, <2>3
<1> QED
  BY <1>2, <1>3, <1>5, <1>6, <1>9 DEF Base

Trackers == [mode : {"none", "set", "list"}, uids : SUBSET UIDs]

(* trackObject adds to the tracker of one query and kind, and forgets      *)
(* nothing that it notified of.                                            *)
LEMMA RegisterEffect ==
  ASSUME Base, NEW q \in Queries, NEW t \in Reads[q], Register(q, t)
  PROVE  LET k == KindOfRead(t) IN
         /\ rt[q][t] = "read" /\ Unlocked /\ SetRead(q, t, "done") /\ AddEventHandler(k)
         /\ queries' = queries \cup {q}
         /\ UNCHANGED <<store, zeroed, changes, loop, live, dirty, seen, raced>>
         /\ oids' \in [Queries -> [Kinds -> Trackers]]
         /\ \A p \in Queries, j \in Kinds : p # q \/ j # k => oids'[p][j] = oids[p][j]
         /\ \/ oids'[q][k].mode = "list"
            \/ /\ t \in Objects /\ oids[q][k].mode # "list" /\ oids'[q][k].mode = "set"
               /\ \A v \in seen[q][t] : oids'[q][k].uids = oids[q][k].uids \cup {v.uid}
<1> USE LiveQueryCacheAssumption
<1> DEFINE k == KindOfRead(t)
           e == oids[q][k]
           new == IF t \in Kinds THEN TrackList
                  ELSE Track((CHOOSE x \in seen[q][t] : TRUE).uid, e)
<1>0. TypeOK /\ SeenStored /\ k \in Kinds /\ t \in Objects \cup Kinds
  BY KindOfReadType DEF Base
<1>1. /\ rt[q][t] = "read" /\ Unlocked /\ queries' = queries \cup {q}
      /\ UNCHANGED <<store, zeroed, changes, loop, live, dirty, seen, raced>>
      /\ oids' = [oids EXCEPT ![q][k] = new]
  BY DEF Register, clusterVars
<1>2. AddEventHandler(k) /\ SetRead(q, t, "done")
  BY Zenon DEF Register
<1>3. oids \in [Queries -> [Kinds -> Trackers]] /\ e \in Trackers
  BY <1>0 DEF TypeOK, Trackers
<1>4. CASE t \in Kinds
  <2>1. new = AllOfKind /\ AllOfKind \in Trackers /\ AllOfKind.mode = "list"
    BY <1>4 DEF TrackList, AllOfKind, Trackers
  <2> QED
    BY <1>0, <1>1, <1>2, <1>3, <2>1
<1>5. CASE t \notin Kinds
  <2>1. PICK v \in Versions : seen[q][t] = {v}
    BY <1>0, <1>1, <1>5 DEF SeenStored
  <2>2. (CHOOSE x \in seen[q][t] : TRUE) = v
    BY <2>1
  <2>3. v.uid \in UIDs
    <3>1. v.uid \in 1..changes
      BY <1>0, <2>1 DEF SeenStored, Stored
    <3>2. changes \in 0..MaxChanges /\ MaxChanges \in Nat
      BY <1>0 DEF TypeOK
    <3> QED
      BY <3>1, <3>2 DEF UIDs
  <2>4. new = Track(v.uid, e)
    BY <1>5, <2>2
  <2>5. CASE e.mode = "list"
    <3>1. new = e
      BY <2>4, <2>5 DEF Track
    <3> QED
      BY <1>0, <1>1, <1>2, <1>3, <2>5, <3>1
  <2>6. CASE e.mode # "list"
    <3>1. new = [mode |-> "set", uids |-> e.uids \cup {v.uid}]
      BY <2>4, <2>6 DEF Track
    <3> HIDE DEF new
    <3>2. new \in Trackers /\ new.mode = "set" /\ new.uids = e.uids \cup {v.uid}
      BY <1>3, <2>3, <3>1 DEF Trackers
    <3>3. oids' \in [Queries -> [Kinds -> Trackers]] /\ oids'[q][k] = new
          /\ \A p \in Queries, j \in Kinds : p # q \/ j # k => oids'[p][j] = oids[p][j]
      BY <1>0, <1>1, <1>3, <3>2
    <3> QED
      BY <1>0, <1>1, <1>2, <1>5, <2>1, <2>6, <3>2, <3>3
  <2> QED
    BY <2>5, <2>6
<1> QED
  BY <1>4, <1>5

LEMMA VisitedEffect ==
  ASSUME TypeOK, NEW k \in Kinds, NEW q \in Queries,
         loop' = [loop EXCEPT ![k].todo = @ \ {q}]
  PROVE  /\ loop' \in [Kinds -> [ev : Events, todo : SUBSET Queries]]
         /\ loop'[k].ev = loop[k].ev /\ loop'[k].todo = loop[k].todo \ {q}
         /\ \A j \in Kinds : j # k => loop'[j] = loop[j]
<1> DEFINE L == [ev : Events, todo : SUBSET Queries]
           new == [loop[k] EXCEPT !.todo = @ \ {q}]
<1>1. loop \in [Kinds -> L] /\ loop[k] \in L
  BY DEF TypeOK
<1>2. new \in L /\ new.ev = loop[k].ev /\ new.todo = loop[k].todo \ {q}
  BY <1>1
<1>3. loop' = [loop EXCEPT ![k] = new]
  OBVIOUS
<1> HIDE DEF new, L
<1>4. loop' \in [Kinds -> L] /\ loop'[k] = new /\ \A j \in Kinds : j # k => loop'[j] = loop[j]
  BY <1>1, <1>2, <1>3
<1> QED
  BY <1>2, <1>4 DEF L

(* A handler that visits a live query leaves its tracker in its mode and   *)
(* drops at most the uid of the object that is deleted.                    *)
LEMMA VisitLiveEffect ==
  ASSUME TypeOK, NEW k \in Kinds, NEW q \in Queries, VisitLive(k, q)
  PROVE  /\ live[q] /\ q \in loop[k].todo
         /\ UNCHANGED <<store, zeroed, changes, events, handles, queries, live, rt, seen, raced>>
         /\ loop' \in [Kinds -> [ev : Events, todo : SUBSET Queries]]
         /\ loop'[k].ev = loop[k].ev /\ loop'[k].todo = loop[k].todo \ {q}
         /\ \A j \in Kinds : j # k => loop'[j] = loop[j]
         /\ dirty' \in [Queries -> BOOLEAN]
         /\ dirty'[q] <=> dirty[q] \/ Notifies(oids[q][k], loop[k].ev)
         /\ \A p \in Queries : p # q => dirty'[p] = dirty[p]
         /\ oids' \in [Queries -> [Kinds -> Trackers]]
         /\ \A p \in Queries, j \in Kinds : p # q \/ j # k => oids'[p][j] = oids[p][j]
         /\ oids'[q][k].mode = oids[q][k].mode
         /\ oids'[q][k].uids = IF loop[k].ev.type = "delete"
                               THEN oids[q][k].uids \ {loop[k].ev.old} ELSE oids[q][k].uids
<1> DEFINE e == oids[q][k]
           new == AfterEvent(e, loop[k].ev)
<1>1. /\ live[q] /\ q \in loop[k].todo
      /\ UNCHANGED <<store, zeroed, changes, events, handles, queries, live, rt, seen, raced>>
      /\ loop' = [loop EXCEPT ![k].todo = @ \ {q}]
      /\ dirty' = [dirty EXCEPT ![q] = @ \/ Notifies(oids[q][k], loop[k].ev)]
      /\ oids' = [oids EXCEPT ![q][k] = new]
  BY DEF VisitLive, clusterVars
<1>2. oids \in [Queries -> [Kinds -> Trackers]] /\ e \in Trackers
  BY DEF TypeOK, Trackers
<1>3. /\ new \in Trackers /\ new.mode = e.mode
      /\ new.uids = IF loop[k].ev.type = "delete" THEN e.uids \ {loop[k].ev.old} ELSE e.uids
  BY <1>2 DEF AfterEvent, Trackers
<1> HIDE DEF new
<1>4. /\ oids' \in [Queries -> [Kinds -> Trackers]] /\ oids'[q][k] = new
      /\ \A p \in Queries, j \in Kinds : p # q \/ j # k => oids'[p][j] = oids[p][j]
  BY <1>1, <1>2, <1>3
<1>5. /\ loop' \in [Kinds -> [ev : Events, todo : SUBSET Queries]]
      /\ loop'[k].ev = loop[k].ev /\ loop'[k].todo = loop[k].todo \ {q}
      /\ \A j \in Kinds : j # k => loop'[j] = loop[j]
  BY <1>1, VisitedEffect
<1>6. /\ dirty' \in [Queries -> BOOLEAN]
      /\ dirty'[q] <=> dirty[q] \/ Notifies(oids[q][k], loop[k].ev)
      /\ \A p \in Queries : p # q => dirty'[p] = dirty[p]
  BY <1>1 DEF TypeOK
<1> QED
  BY <1>1, <1>3, <1>4, <1>5, <1>6

LEMMA BaseInductive ==
  ASSUME Base, [Next]_vars
  PROVE  Base'
<1> USE LiveQueryCacheAssumption
<1>0. TypeOK /\ Shapes /\ Versioned /\ SeenStored /\ DeletedStayGone
  BY DEF Base
<1>1. ASSUME NEW o \in Objects, Create(o) \/ Update(o) \/ Replace(o) \/ Delete(o) PROVE Base'
  <2>1. PICK to, e : Reported(o, to, e) /\ Apply(o, to, e)
    BY <1>0, <1>1, ChangeEffect
  <2> QED
    BY <2>1, ChangeBase
<1>2. ASSUME NEW o \in Objects, Zero(o) PROVE Base'
  <2>1. /\ UNCHANGED <<store, changes, events, handles, queries, oids, loop, live, dirty, rt, seen, raced>>
        /\ zeroed' \in [Objects -> BOOLEAN]
    BY <1>0, <1>2 DEF Zero, trackVars, queryVars, TypeOK
  <2> QED
    BY <1>0, <2>1 DEF Base, TypeOK, Shapes, Versioned, SeenStored, DeletedStayGone
<1>3. ASSUME NEW q \in Queries, NEW t \in Reads[q], Read(q, t) PROVE Base'
  <2>1. /\ UNCHANGED <<store, zeroed, changes, events, handles, queries, oids, loop, live, dirty>>
        /\ SetRead(q, t, "read") \/ SetRead(q, t, "error")
        /\ SetRead(q, t, "read") => ~(t \in Objects /\ store[t] = NoObject)
                                    \/ SetRead(q, t, "error")
        /\ seen' = [seen EXCEPT ![q][t] = Value(t)]
        /\ raced' = [raced EXCEPT ![q][t] = FALSE]
    BY <1>3 DEF Read, clusterVars, trackVars
  <2>2. /\ rt' = [p \in Queries |-> rt'[p]]
        /\ \A p \in Queries : rt'[p] \in [Reads[p] -> {"todo", "read", "done", "error"}]
        /\ rt'[q][t] \in {"read", "error"}
        /\ rt'[q][t] = "read" => SetRead(q, t, "read")
        /\ \A u \in Reads[q] : u # t => rt'[q][u] = rt[q][u]
        /\ \A p \in Queries : p # q => rt'[p] = rt[p]
    <3>1. CASE SetRead(q, t, "read")
      BY <1>0, <3>1, SetReadEffect
    <3>2. CASE SetRead(q, t, "error")
      BY <1>0, <3>2, SetReadEffect
    <3> QED
      BY <2>1, <3>1, <3>2
  <2>3. rt'[q][t] = "read" /\ t \in Objects => store[t] # NoObject
    <3>1. CASE t \in Objects /\ store[t] = NoObject
      <4>1. SetRead(q, t, "error")
        BY <1>3, <3>1 DEF Read
      <4> QED
        BY <1>0, <4>1, SetReadEffect
    <3> QED
      BY <3>1
  <2>4. Value(t) \in SUBSET Versions /\ \A v \in Value(t) : Stored(v, changes)
    BY <1>0, ValueType
  <2>5. /\ seen' = [p \in Queries |-> seen'[p]] /\ raced' = [p \in Queries |-> raced'[p]]
        /\ \A p \in Queries : /\ seen'[p] \in [Reads[p] -> SUBSET Versions]
                              /\ raced'[p] \in [Reads[p] -> BOOLEAN]
        /\ seen'[q][t] = Value(t)
        /\ \A u \in Reads[q] : u # t => seen'[q][u] = seen[q][u]
        /\ \A p \in Queries : p # q => seen'[p] = seen[p]
    <3>1. seen' = [p \in Queries |-> IF p = q THEN [seen[q] EXCEPT ![t] = Value(t)] ELSE seen[p]]
      BY <1>0, <2>1 DEF Shapes
    <3>2. raced' = [p \in Queries |-> IF p = q THEN [raced[q] EXCEPT ![t] = FALSE] ELSE raced[p]]
      BY <1>0, <2>1 DEF Shapes
    <3>3. \A p \in Queries : seen[p] \in [Reads[p] -> SUBSET Versions] /\ raced[p] \in [Reads[p] -> BOOLEAN]
      BY <1>0 DEF TypeOK
    <3>4. [seen[q] EXCEPT ![t] = Value(t)] \in [Reads[q] -> SUBSET Versions]
      BY <2>4, <3>3
    <3> QED
      BY <3>1, <3>2, <3>3, <3>4
  <2>6. TypeOK'
    BY <1>0, <2>1, <2>2, <2>5 DEF TypeOK
  <2>7. Shapes'
    BY <2>2, <2>5 DEF Shapes
  <2>8. SeenStored'
    <3>1. rt'[q][t] = "read" /\ t \in Objects => Value(t) = {store[t]} /\ store[t] \in Versions
      BY <1>0, <2>3 DEF Value, Covered, TypeOK
    <3>2. \A p \in Queries : \A u \in Reads[p] : p # q \/ u # t => rt'[p][u] = rt[p][u] /\ seen'[p][u] = seen[p][u]
      BY <2>2, <2>5
    <3> SUFFICES ASSUME NEW p \in Queries, NEW u \in Reads[p]
                 PROVE  /\ \A v \in seen'[p][u] : Stored(v, changes')
                        /\ u \in Objects /\ rt'[p][u] \in {"read", "done"} =>
                             \E v \in Versions : seen'[p][u] = {v}
      BY DEF SeenStored
    <3>3. CASE p = q /\ u = t
      BY <2>1, <2>2, <2>4, <2>5, <3>1, <3>3
    <3>4. CASE p # q \/ u # t
      BY <1>0, <2>1, <3>2, <3>4 DEF SeenStored
    <3> QED
      BY <3>3, <3>4
  <2>9. Versioned' /\ DeletedStayGone'
    BY <1>0, <2>1 DEF Versioned, DeletedStayGone
  <2> QED
    BY <2>6, <2>7, <2>8, <2>9 DEF Base
<1>4. ASSUME NEW q \in Queries, NEW t \in Reads[q], Register(q, t) PROVE Base'
  <2> DEFINE k == KindOfRead(t)
  <2>1. /\ rt[q][t] = "read" /\ SetRead(q, t, "done") /\ AddEventHandler(k)
        /\ queries' = queries \cup {q}
        /\ UNCHANGED <<store, zeroed, changes, loop, live, dirty, seen, raced>>
        /\ oids' \in [Queries -> [Kinds -> Trackers]]
    BY <1>4, RegisterEffect
  <2>2. /\ rt' = [p \in Queries |-> rt'[p]]
        /\ \A p \in Queries : rt'[p] \in [Reads[p] -> {"todo", "read", "done", "error"}]
        /\ rt'[q][t] = "done"
        /\ \A u \in Reads[q] : u # t => rt'[q][u] = rt[q][u]
        /\ \A p \in Queries : p # q => rt'[p] = rt[p]
    BY <1>0, <2>1, SetReadEffect
  <2>3. /\ k \in Kinds /\ handles' = handles \cup {k} /\ events' \in [Kinds -> Seq(Events)]
        /\ \A j \in Kinds : \/ events'[j] = events[j]
                            \/ \E e \in Events : e.type = "add" /\ events'[j] = Append(events[j], e)
    BY <1>0, <2>1, KindOfReadType, AddHandlerEffect
  <2>4. TypeOK'
    BY <1>0, <2>1, <2>2, <2>3 DEF TypeOK, Trackers
  <2>5. Shapes' /\ Versioned'
    BY <1>0, <2>1, <2>2 DEF Shapes, Versioned
  <2>6. SeenStored'
    <3>1. \A p \in Queries : \A u \in Reads[p] :
            rt'[p][u] \in {"read", "done"} => rt[p][u] \in {"read", "done"}
      BY <2>1, <2>2
    <3> QED
      BY <1>0, <2>1, <3>1 DEF SeenStored
  <2>7. DeletedStayGone'
    <3> SUFFICES ASSUME NEW j \in Kinds
                 PROVE  /\ Gone(loop'[j].ev, changes', store')
                        /\ \A i \in 1..Len(events'[j]) : Gone(events'[j][i], changes', store')
      BY DEF DeletedStayGone
    <3>1. Gone(loop'[j].ev, changes', store')
      BY <1>0, <2>1 DEF DeletedStayGone
    <3>2. CASE events'[j] = events[j]
      BY <1>0, <2>1, <3>1, <3>2 DEF DeletedStayGone
    <3>3. ASSUME NEW e \in Events, e.type = "add", events'[j] = Append(events[j], e)
          PROVE  \A i \in 1..Len(events'[j]) : Gone(events'[j][i], changes', store')
      <4>1. events[j] \in Seq(Events) /\ Gone(e, changes, store)
        BY <1>0, <3>3 DEF TypeOK, Gone
      <4> QED
        BY <1>0, <2>1, <3>3, <4>1, AppendFacts DEF DeletedStayGone
    <3> QED
      BY <2>3, <3>1, <3>2, <3>3
  <2> QED
    BY <2>4, <2>5, <2>6, <2>7 DEF Base
<1>5. ASSUME NEW q \in Queries, NEW t \in Reads[q], SkipTracking(q, t) \/ TrackingFails(q, t)
      PROVE  Base'
  <2>1. /\ UNCHANGED <<store, zeroed, changes, events, handles, queries, oids, loop, live, dirty, seen, raced>>
        /\ SetRead(q, t, "done") \/ SetRead(q, t, "error")
        /\ rt[q][t] = "read"
    BY <1>5 DEF SkipTracking, TrackingFails, clusterVars, trackVars
  <2>2. /\ rt' = [p \in Queries |-> rt'[p]]
        /\ \A p \in Queries : rt'[p] \in [Reads[p] -> {"todo", "read", "done", "error"}]
        /\ \A u \in Reads[q] : u # t => rt'[q][u] = rt[q][u]
        /\ \A p \in Queries : p # q => rt'[p] = rt[p]
    <3>1. CASE SetRead(q, t, "done")
      BY <1>0, <3>1, SetReadEffect
    <3>2. CASE SetRead(q, t, "error")
      BY <1>0, <3>2, SetReadEffect
    <3> QED
      BY <2>1, <3>1, <3>2
  <2>3. TypeOK' /\ Shapes'
    BY <1>0, <2>1, <2>2 DEF TypeOK, Shapes
  <2>4. SeenStored'
    BY <1>0, <2>1, <2>2 DEF SeenStored
  <2>5. Versioned' /\ DeletedStayGone'
    BY <1>0, <2>1 DEF Versioned, DeletedStayGone
  <2> QED
    BY <2>3, <2>4, <2>5 DEF Base
<1>6. ASSUME NEW q \in Queries, Refresh(q) \/ Cancel(q) PROVE Base'
  <2>1. /\ UNCHANGED <<store, zeroed, changes, events, handles, queries, oids, loop, seen, raced>>
        /\ live' \in [Queries -> BOOLEAN] /\ dirty' \in [Queries -> BOOLEAN]
        /\ rt' = rt \/ rt' = [rt EXCEPT ![q] = [t \in Reads[q] |-> "todo"]]
    BY <1>0, <1>6 DEF Refresh, Cancel, clusterVars, trackVars, TypeOK
  <2>2. /\ rt' = [p \in Queries |-> rt'[p]]
        /\ \A p \in Queries : rt'[p] \in [Reads[p] -> {"todo", "read", "done", "error"}]
        /\ \A p \in Queries : \A t \in Reads[p] : rt'[p][t] \in {rt[p][t], "todo"}
    <3>1. CASE rt' = rt
      BY <1>0, <3>1 DEF TypeOK, Shapes
    <3>2. CASE rt' = [rt EXCEPT ![q] = [t \in Reads[q] |-> "todo"]]
      <4>1. rt' = [p \in Queries |-> IF p = q THEN [t \in Reads[q] |-> "todo"] ELSE rt[p]]
        BY <1>0, <3>2 DEF Shapes
      <4> QED
        BY <1>0, <4>1 DEF TypeOK
    <3> QED
      BY <2>1, <3>1, <3>2
  <2>3. TypeOK' /\ Shapes'
    BY <1>0, <2>1, <2>2 DEF TypeOK, Shapes
  <2>4. SeenStored'
    BY <1>0, <2>1, <2>2 DEF SeenStored
  <2>5. Versioned' /\ DeletedStayGone'
    BY <1>0, <2>1 DEF Versioned, DeletedStayGone
  <2> QED
    BY <2>3, <2>4, <2>5 DEF Base
<1>7. ASSUME NEW k \in Kinds, IgnoreEvent(k) \/ OnEvent(k) PROVE Base'
  <2>1. /\ Dequeue(k)
        /\ UNCHANGED <<store, zeroed, changes, handles, queries, oids, live, dirty, rt, seen, raced>>
        /\ loop' = loop \/ loop' = [loop EXCEPT ![k] = [ev |-> Head(events[k]), todo |-> queries]]
    BY <1>7 DEF IgnoreEvent, OnEvent, clusterVars, trackVars, queryVars
  <2>2. /\ events' \in [Kinds -> Seq(Events)]
        /\ 1 \in 1..Len(events[k]) /\ Head(events[k]) = events[k][1] /\ events[k][1] \in Events
        /\ Len(events'[k]) \in Nat /\ Len(events[k]) = Len(events'[k]) + 1
        /\ \A i \in 1..Len(events'[k]) : events'[k][i] = events[k][i + 1]
        /\ \A j \in Kinds : j # k => events'[j] = events[j]
    BY <1>0, <2>1, DequeueEffect
  <2>3. /\ loop' \in [Kinds -> [ev : Events, todo : SUBSET Queries]]
        /\ \A j \in Kinds : loop'[j].ev = loop[j].ev \/ (j = k /\ loop'[j].ev = events[k][1])
    <3>1. CASE loop' = loop
      BY <1>0, <3>1 DEF TypeOK
    <3>2. CASE loop' = [loop EXCEPT ![k] = [ev |-> Head(events[k]), todo |-> queries]]
      <4>1. [ev |-> Head(events[k]), todo |-> queries] \in [ev : Events, todo : SUBSET Queries]
        BY <1>0, <2>2 DEF TypeOK
      <4> QED
        BY <1>0, <2>2, <3>2, <4>1 DEF TypeOK
    <3> QED
      BY <2>1, <3>1, <3>2
  <2>4. TypeOK' /\ Shapes' /\ Versioned' /\ SeenStored'
    BY <1>0, <2>1, <2>2, <2>3 DEF TypeOK, Shapes, Versioned, SeenStored
  <2>5. DeletedStayGone'
    <3> SUFFICES ASSUME NEW j \in Kinds
                 PROVE  /\ Gone(loop'[j].ev, changes, store)
                        /\ \A i \in 1..Len(events'[j]) : Gone(events'[j][i], changes, store)
      BY <2>1 DEF DeletedStayGone
    <3>1. Gone(loop'[j].ev, changes, store)
      BY <1>0, <2>2, <2>3 DEF DeletedStayGone
    <3>2. CASE j = k
      <4>1. \A i \in 1..Len(events'[k]) : i + 1 \in 1..Len(events[k])
        BY <2>2
      <4> QED
        BY <1>0, <2>2, <3>1, <3>2, <4>1 DEF DeletedStayGone
    <3>3. CASE j # k
      BY <1>0, <2>2, <3>1, <3>3 DEF DeletedStayGone
    <3> QED
      BY <3>2, <3>3
  <2> QED
    BY <2>4, <2>5 DEF Base
<1>8. ASSUME NEW k \in Kinds, NEW q \in Queries, VisitLive(k, q) PROVE Base'
  <2>1. /\ UNCHANGED <<store, zeroed, changes, events, handles, queries, live, rt, seen, raced>>
        /\ loop' \in [Kinds -> [ev : Events, todo : SUBSET Queries]]
        /\ loop'[k].ev = loop[k].ev
        /\ \A j \in Kinds : j # k => loop'[j] = loop[j]
        /\ dirty' \in [Queries -> BOOLEAN]
        /\ oids' \in [Queries -> [Kinds -> Trackers]]
    BY <1>0, <1>8, VisitLiveEffect
  <2>2. TypeOK' /\ Shapes' /\ Versioned' /\ SeenStored'
    BY <1>0, <2>1 DEF TypeOK, Trackers, Shapes, Versioned, SeenStored
  <2>3. DeletedStayGone'
    BY <1>0, <2>1 DEF DeletedStayGone
  <2> QED
    BY <2>2, <2>3 DEF Base
<1>9. ASSUME NEW k \in Kinds, NEW q \in Queries, VisitDone(k, q) PROVE Base'
  <2>1. /\ UNCHANGED <<store, zeroed, changes, events, handles, live, dirty, rt, seen, raced>>
        /\ queries' = queries \ {q}
        /\ loop' = [loop EXCEPT ![k].todo = @ \ {q}]
        /\ oids' = [oids EXCEPT ![q] = [j \in Kinds |-> Untracked]]
    BY <1>9 DEF VisitDone, clusterVars, queryVars
  <2>2. Untracked \in Trackers
    BY DEF Untracked, Trackers
  <2>3. oids' \in [Queries -> [Kinds -> Trackers]]
    BY <1>0, <2>1, <2>2 DEF TypeOK, Trackers
  <2>4. /\ loop' \in [Kinds -> [ev : Events, todo : SUBSET Queries]]
        /\ \A j \in Kinds : loop'[j].ev = loop[j].ev
    BY <1>0, <2>1, VisitedEffect
  <2>5. TypeOK' /\ Shapes' /\ Versioned' /\ SeenStored'
    BY <1>0, <2>1, <2>3, <2>4 DEF TypeOK, Trackers, Shapes, Versioned, SeenStored
  <2>6. DeletedStayGone'
    BY <1>0, <2>1, <2>4 DEF DeletedStayGone
  <2> QED
    BY <2>5, <2>6 DEF Base
<1>10. ASSUME NEW k \in Kinds, EndEvent(k) PROVE Base'
  <2>1. /\ UNCHANGED <<store, zeroed, changes, events, handles, queries, oids, live, dirty, rt, seen, raced>>
        /\ loop' = [loop EXCEPT ![k] = Idle]
    BY <1>10 DEF EndEvent, clusterVars, trackVars, queryVars
  <2>2. Idle \in [ev : Events, todo : SUBSET Queries] /\ Idle.ev.type = "none"
    BY NoEventType DEF Idle
  <2>3. /\ loop' \in [Kinds -> [ev : Events, todo : SUBSET Queries]]
        /\ \A j \in Kinds : loop'[j].ev.type = "none" \/ loop'[j] = loop[j]
    BY <1>0, <2>1, <2>2 DEF TypeOK
  <2>4. TypeOK' /\ Shapes' /\ Versioned' /\ SeenStored'
    BY <1>0, <2>1, <2>3 DEF TypeOK, Shapes, Versioned, SeenStored
  <2>5. DeletedStayGone'
    BY <1>0, <2>1, <2>3 DEF DeletedStayGone, Gone
  <2> QED
    BY <2>4, <2>5 DEF Base
<1>11. CASE UNCHANGED vars
  BY <1>0, <1>11 DEF vars, Base, TypeOK, Shapes, Versioned, SeenStored, DeletedStayGone
<1> QED
  BY <1>1, <1>2, <1>3, <1>4, <1>5, <1>6, <1>7, <1>8, <1>9, <1>10, <1>11
     DEF Next, Change, Resolver, Handler

-----------------------------------------------------------------------------
(* Registration.                                                           *)

LEMMA ValueSame ==
  ASSUME NEW q \in Queries, NEW t \in Reads[q], \A o \in Covered(t) : store'[o] = store[o]
  PROVE  Value(t)' = Value(t)
BY DEF Value

(* An object is covered by a read of its own or of its kind.               *)
LEMMA CoveredKind ==
  ASSUME NEW q \in Queries, NEW t \in Reads[q], NEW o \in Covered(t)
  PROVE  o \in Objects /\ KindOf[o] = KindOfRead(t) /\ (t \notin Kinds => t = o)
BY LiveQueryCacheAssumption DEF Covered, KindOfRead

(* What a Get read and registered is one object.                           *)
LEMMA OneObject ==
  ASSUME TypeOK, NEW t \in Objects
  PROVE  Value(t) = IF store[t] = NoObject THEN {} ELSE {store[t]}
BY LiveQueryCacheAssumption DEF Value, Covered

LEMMA RegistrationInductive ==
  ASSUME Base, Base', Registered, ReadIsCurrent, [Next]_vars
  PROVE  Registered' /\ ReadIsCurrent'
<1> USE LiveQueryCacheAssumption
<1>0. TypeOK /\ Shapes /\ Versioned /\ SeenStored /\ DeletedStayGone
  BY DEF Base
<1>1. ASSUME NEW o \in Objects, Create(o) \/ Update(o) \/ Replace(o) \/ Delete(o)
      PROVE  Registered' /\ ReadIsCurrent'
  <2>1. PICK to, e : Reported(o, to, e) /\ Apply(o, to, e)
    BY <1>0, <1>1, ChangeEffect
  <2>2. to \in Versions /\ e \in Events
    BY <2>1 DEF Reported
  <2>3. /\ changes \in Nat /\ store'[o] = to
        /\ \A p \in Objects : p # o => store'[p] = store[p]
        /\ raced' = [q \in Queries |-> [t \in Reads[q] |->
                       raced[q][t] \/ (rt[q][t] = "read" /\ o \in Covered(t))]]
        /\ UNCHANGED <<handles, queries, oids, loop, live, dirty, rt, seen>>
    BY <1>0, <2>1, <2>2, ApplyEffect DEF trackVars, queryVars
  <2>4. ~Stored(to, changes)
    BY <2>1, <2>3 DEF Reported, Stored, NoObject
  <2>5. ASSUME NEW q \in Queries, NEW t \in Reads[q], Tracks(q, t) PROVE Tracks(q, t)'
    <3>1. to \notin seen[q][t]
      BY <1>0, <2>4 DEF SeenStored
    <3> QED
      BY <2>3, <2>5, <3>1 DEF Tracks
  <2>6. Registered'
    BY <2>3, <2>5 DEF Registered
  <2>7. ReadIsCurrent'
    <3> SUFFICES ASSUME NEW q \in Queries, NEW t \in Reads[q], rt'[q][t] = "read", ~raced'[q][t]
                 PROVE  seen'[q][t] = Value(t)'
      BY DEF ReadIsCurrent
    <3>1. rt[q][t] = "read" /\ ~raced[q][t] /\ o \notin Covered(t)
      BY <2>3
    <3>2. Value(t)' = Value(t)
      BY <2>3, <3>1, ValueSame, CoveredKind
    <3> QED
      BY <2>3, <3>1, <3>2 DEF ReadIsCurrent
  <2> QED
    BY <2>6, <2>7
<1>2. ASSUME NEW q \in Queries, NEW t \in Reads[q], Read(q, t)
      PROVE  Registered' /\ ReadIsCurrent'
  <2>1. /\ UNCHANGED <<store, handles, queries, oids, loop, live>>
        /\ SetRead(q, t, "read") \/ SetRead(q, t, "error")
        /\ seen' = [seen EXCEPT ![q][t] = Value(t)]
        /\ raced' = [raced EXCEPT ![q][t] = FALSE]
    BY <1>2 DEF Read, clusterVars, trackVars
  <2>2. /\ rt'[q][t] \in {"read", "error"}
        /\ \A p \in Queries : \A u \in Reads[p] : p # q \/ u # t => rt'[p][u] = rt[p][u]
    <3>1. CASE SetRead(q, t, "read")
      BY <1>0, <3>1, SetReadEffect
    <3>2. CASE SetRead(q, t, "error")
      BY <1>0, <3>2, SetReadEffect
    <3> QED
      BY <2>1, <3>1, <3>2
  <2>3. /\ seen'[q][t] = Value(t)
        /\ \A p \in Queries : \A u \in Reads[p] :
             p # q \/ u # t => seen'[p][u] = seen[p][u] /\ raced'[p][u] = raced[p][u]
    <3>1. seen' = [p \in Queries |-> IF p = q THEN [seen[q] EXCEPT ![t] = Value(t)] ELSE seen[p]]
      BY <1>0, <2>1 DEF Shapes
    <3>2. raced' = [p \in Queries |-> IF p = q THEN [raced[q] EXCEPT ![t] = FALSE] ELSE raced[p]]
      BY <1>0, <2>1 DEF Shapes
    <3>3. \A p \in Queries : seen[p] \in [Reads[p] -> SUBSET Versions] /\ raced[p] \in [Reads[p] -> BOOLEAN]
      BY <1>0 DEF TypeOK
    <3> QED
      BY <3>1, <3>2, <3>3
  <2>4. \A p \in Queries : \A u \in Reads[p] : Value(u)' = Value(u)
    BY <2>1 DEF Value
  <2>5. Registered'
    BY <2>1, <2>2, <2>3 DEF Registered, Tracks
  <2>6. ReadIsCurrent'
    BY <2>2, <2>3, <2>4 DEF ReadIsCurrent
  <2> QED
    BY <2>5, <2>6
<1>3. ASSUME NEW q \in Queries, NEW t \in Reads[q], Register(q, t)
      PROVE  Registered' /\ ReadIsCurrent'
  <2> DEFINE k == KindOfRead(t)
  <2>1. /\ k \in Kinds /\ rt[q][t] = "read" /\ SetRead(q, t, "done") /\ AddEventHandler(k)
        /\ queries' = queries \cup {q}
        /\ UNCHANGED <<store, loop, live, seen, raced>>
        /\ \A p \in Queries, j \in Kinds : p # q \/ j # k => oids'[p][j] = oids[p][j]
        /\ \/ oids'[q][k].mode = "list"
           \/ /\ t \in Objects /\ oids[q][k].mode # "list" /\ oids'[q][k].mode = "set"
              /\ \A v \in seen[q][t] : oids'[q][k].uids = oids[q][k].uids \cup {v.uid}
    BY <1>3, RegisterEffect, KindOfReadType
  <2>2. /\ rt'[q][t] = "done"
        /\ \A p \in Queries : \A u \in Reads[p] : p # q \/ u # t => rt'[p][u] = rt[p][u]
    BY <1>0, <2>1, SetReadEffect
  <2>3. handles' = handles \cup {k}
    BY <1>0, <2>1, AddHandlerEffect
  <2>4. ASSUME NEW p \in Queries, NEW u \in Reads[p], Tracks(p, u) PROVE Tracks(p, u)'
    <3>1. KindOfRead(u) \in Kinds
      BY KindOfReadType
    <3>2. CASE p = q /\ KindOfRead(u) = k
      <4>1. CASE oids'[q][k].mode = "list"
        BY <3>2, <4>1 DEF Tracks
      <4>2. CASE t \in Objects /\ oids[q][k].mode # "list" /\ oids'[q][k].mode = "set"
                 /\ \A v \in seen[q][t] : oids'[q][k].uids = oids[q][k].uids \cup {v.uid}
        <5>1. PICK v \in Versions : seen[q][t] = {v}
          BY <1>0, <2>1, <4>2 DEF SeenStored
        <5> QED
          BY <2>1, <2>4, <3>2, <4>2, <5>1 DEF Tracks
      <4> QED
        BY <2>1, <4>1, <4>2
    <3>3. CASE ~(p = q /\ KindOfRead(u) = k)
      <4>1. oids'[p][KindOfRead(u)] = oids[p][KindOfRead(u)]
        BY <2>1, <3>1, <3>3
      <4> QED
        BY <2>1, <2>4, <4>1 DEF Tracks
    <3> QED
      BY <3>2, <3>3
  <2>5. Tracks(q, t)'
    <3>1. CASE oids'[q][k].mode = "list"
      BY <3>1 DEF Tracks
    <3>2. CASE t \in Objects /\ oids'[q][k].mode = "set"
               /\ \A v \in seen[q][t] : oids'[q][k].uids = oids[q][k].uids \cup {v.uid}
      BY <2>1, <3>2 DEF Tracks
    <3> QED
      BY <2>1, <3>1, <3>2
  <2>6. Registered'
    <3> SUFFICES ASSUME NEW p \in Queries, live'[p], NEW u \in Reads[p], rt'[p][u] = "done"
                 PROVE  p \in queries' /\ KindOfRead(u) \in handles' /\ Tracks(p, u)'
      BY DEF Registered
    <3>1. CASE p = q /\ u = t
      BY <2>1, <2>3, <2>5, <3>1
    <3>2. CASE ~(p = q /\ u = t)
      <4>1. p \in queries /\ KindOfRead(u) \in handles /\ Tracks(p, u)
        BY <2>1, <2>2, <3>2 DEF Registered
      <4> QED
        BY <2>1, <2>3, <2>4, <4>1
    <3> QED
      BY <3>1, <3>2
  <2>7. \A p \in Queries : \A u \in Reads[p] : Value(u)' = Value(u)
    BY <2>1 DEF Value
  <2>8. ReadIsCurrent'
    BY <2>1, <2>2, <2>7 DEF ReadIsCurrent
  <2> QED
    BY <2>6, <2>8
<1>4. ASSUME NEW q \in Queries, NEW t \in Reads[q], SkipTracking(q, t) \/ TrackingFails(q, t)
      PROVE  Registered' /\ ReadIsCurrent'
  <2>1. /\ UNCHANGED <<store, handles, queries, oids, loop, live, seen, raced>>
        /\ SetRead(q, t, "error") \/ (SetRead(q, t, "done") /\ ~live[q])
    BY <1>4 DEF SkipTracking, TrackingFails, clusterVars, trackVars
  <2>2. /\ rt'[q][t] = "error" \/ (rt'[q][t] = "done" /\ ~live[q])
        /\ \A p \in Queries : \A u \in Reads[p] : p # q \/ u # t => rt'[p][u] = rt[p][u]
    <3>1. CASE SetRead(q, t, "error")
      BY <1>0, <3>1, SetReadEffect
    <3>2. CASE SetRead(q, t, "done") /\ ~live[q]
      BY <1>0, <3>2, SetReadEffect
    <3> QED
      BY <2>1, <3>1, <3>2
  <2>3. \A p \in Queries : \A u \in Reads[p] : Value(u)' = Value(u)
    BY <2>1 DEF Value
  <2> QED
    BY <2>1, <2>2, <2>3 DEF Registered, ReadIsCurrent, Tracks
<1>5. ASSUME NEW q \in Queries, Refresh(q) \/ Cancel(q) PROVE Registered' /\ ReadIsCurrent'
  <2>1. /\ UNCHANGED <<store, handles, queries, oids, loop, seen, raced>>
        /\ \A p \in Queries : live'[p] => live[p]
        /\ rt' = rt \/ rt' = [rt EXCEPT ![q] = [t \in Reads[q] |-> "todo"]]
    BY <1>0, <1>5 DEF Refresh, Cancel, clusterVars, trackVars, TypeOK
  <2>2. \A p \in Queries : \A t \in Reads[p] : rt'[p][t] \in {rt[p][t], "todo"}
    <3>1. CASE rt' = rt
      BY <3>1
    <3>2. CASE rt' = [rt EXCEPT ![q] = [t \in Reads[q] |-> "todo"]]
      <4>1. rt' = [p \in Queries |-> IF p = q THEN [t \in Reads[q] |-> "todo"] ELSE rt[p]]
        BY <1>0, <3>2 DEF Shapes
      <4> QED
        BY <4>1
    <3> QED
      BY <2>1, <3>1, <3>2
  <2>3. \A p \in Queries : \A u \in Reads[p] : Value(u)' = Value(u)
    BY <2>1 DEF Value
  <2> QED
    BY <2>1, <2>2, <2>3 DEF Registered, ReadIsCurrent, Tracks
<1>6. ASSUME NEW k \in Kinds, NEW q \in Queries, VisitLive(k, q)
      PROVE  Registered' /\ ReadIsCurrent'
  <2>1. /\ UNCHANGED <<store, handles, queries, live, rt, seen, raced>>
        /\ \A p \in Queries, j \in Kinds : p # q \/ j # k => oids'[p][j] = oids[p][j]
        /\ oids'[q][k].mode = oids[q][k].mode
        /\ oids'[q][k].uids = IF loop[k].ev.type = "delete"
                              THEN oids[q][k].uids \ {loop[k].ev.old} ELSE oids[q][k].uids
    BY <1>0, <1>6, VisitLiveEffect
  <2>2. loop[k].ev.type = "delete" => \A o \in Objects : store[o].uid # loop[k].ev.old
    BY <1>0 DEF DeletedStayGone, Gone
  <2>3. ASSUME NEW p \in Queries, NEW u \in Reads[p], Tracks(p, u) PROVE Tracks(p, u)'
    <3>1. KindOfRead(u) \in Kinds
      BY KindOfReadType
    <3>2. CASE p = q /\ KindOfRead(u) = k
      BY <2>1, <2>2, <2>3, <3>2 DEF Tracks
    <3>3. CASE ~(p = q /\ KindOfRead(u) = k)
      <4>1. oids'[p][KindOfRead(u)] = oids[p][KindOfRead(u)]
        BY <2>1, <3>1, <3>3
      <4> QED
        BY <2>1, <2>3, <4>1 DEF Tracks
    <3> QED
      BY <3>2, <3>3
  <2>4. Registered'
    BY <2>1, <2>3 DEF Registered
  <2>5. ReadIsCurrent'
    BY <2>1 DEF ReadIsCurrent, Value
  <2> QED
    BY <2>4, <2>5
<1>7. ASSUME NEW k \in Kinds, NEW q \in Queries, VisitDone(k, q)
      PROVE  Registered' /\ ReadIsCurrent'
  <2>1. /\ UNCHANGED <<store, handles, live, rt, seen, raced>>
        /\ ~live[q] /\ queries' = queries \ {q}
        /\ \A p \in Queries : p # q => oids'[p] = oids[p]
    BY <1>0, <1>7 DEF VisitDone, clusterVars, queryVars, TypeOK
  <2> QED
    BY <2>1 DEF Registered, ReadIsCurrent, Tracks, Value
<1>8. CASE \/ \E o \in Objects : Zero(o)
           \/ \E k \in Kinds : IgnoreEvent(k) \/ OnEvent(k) \/ EndEvent(k)
           \/ UNCHANGED vars
  <2>1. UNCHANGED <<store, handles, queries, oids, live, rt, seen, raced>>
    BY <1>8 DEF Zero, IgnoreEvent, OnEvent, EndEvent, vars, clusterVars, trackVars, queryVars
  <2> QED
    BY <2>1 DEF Registered, ReadIsCurrent, Tracks, Value
<1> QED
  BY <1>1, <1>2, <1>3, <1>4, <1>5, <1>6, <1>7, <1>8 DEF Next, Change, Resolver, Handler

-----------------------------------------------------------------------------
(* Notification.                                                           *)

(* A change of what a live query has registered, as it was read, queues an *)
(* event that will trigger the query.                                      *)
LEMMA ChangeNotifies ==
  ASSUME Base, Registered, MissedDeletes = FALSE, Unstructured = {},
         NEW o \in Objects, NEW to, NEW e, Reported(o, to, e), Apply(o, to, e),
         NEW q \in Queries, live[q], NEW t \in Reads[q],
         rt[q][t] = "done", o \in Covered(t), seen[q][t] = Value(t)
  PROVE  Underway(q, KindOfRead(t))'
<1> DEFINE k == KindOfRead(t)
<1>0. TypeOK /\ SeenStored /\ to \in Versions /\ e \in Events
  BY DEF Base, Reported
<1>1. k \in Kinds /\ KindOf[o] = k /\ (t \notin Kinds => t = o)
  BY KindOfReadType, CoveredKind
<1>2. k \in handles /\ Tracks(q, t)
  BY DEF Registered
<1>3. /\ events[k] \in Seq(Events) /\ events'[k] = Append(events[k], e)
      /\ UNCHANGED <<oids, loop>>
  <2>1. /\ \A j \in Kinds : events'[j] = IF j = KindOf[o] /\ j \in handles
                                         THEN Append(events[j], e) ELSE events[j]
        /\ UNCHANGED <<oids, loop>>
    BY <1>0, ApplyEffect DEF trackVars
  <2>2. events[k] \in Seq(Events)
    BY <1>0, <1>1 DEF TypeOK
  <2> QED
    BY <1>1, <1>2, <2>1, <2>2
<1>4. ~Ignored(k, e)
  BY DEF Ignored, Reported
<1>5. Notifies(oids[q][k], e)
  <2>1. CASE oids[q][k].mode = "list"
    BY <2>1 DEF Notifies
  <2>2. CASE oids[q][k].mode # "list"
    <3>1. t = o /\ oids[q][k].mode = "set" /\ (store[o] \in seen[q][o] => store[o].uid \in oids[q][k].uids)
      BY <1>1, <1>2, <2>2, LiveQueryCacheAssumption DEF Tracks
    <3>2. \E v \in Versions : seen[q][o] = {v}
      BY <1>0, <3>1 DEF SeenStored
    <3>3. store[o] # NoObject /\ store[o] \in seen[q][o]
      BY <1>0, <3>1, <3>2, OneObject
    <3> QED
      BY <3>1, <3>3 DEF Notifies, Reported
  <2> QED
    BY <2>1, <2>2
<1>6. /\ Len(events'[k]) \in 1..Len(events'[k]) /\ events'[k][Len(events'[k])] = e
  BY <1>0, <1>3
<1> QED
  BY <1>3, <1>4, <1>5, <1>6 DEF Underway

(* An event that is on its way stays so, or is the one that is visited.    *)
LEMMA QueueKept ==
  ASSUME TypeOK, NEW k \in Kinds, NEW q \in Queries, Underway(q, k),
         \/ events'[k] = events[k]
         \/ \E e \in Events : events'[k] = Append(events[k], e),
         loop'[k] = loop[k],
         \A x \in Events : Notifies(oids[q][k], x) => Notifies(oids'[q][k], x)
  PROVE  Underway(q, k)'
<1>0. loop[k].ev \in Events /\ events[k] \in Seq(Events)
  BY DEF TypeOK
<1>1. CASE q \in loop[k].todo /\ Notifies(oids[q][k], loop[k].ev)
  BY <1>0, <1>1 DEF Underway
<1>2. ASSUME NEW i \in 1..Len(events[k]), ~Ignored(k, events[k][i]), Notifies(oids[q][k], events[k][i])
      PROVE  Underway(q, k)'
  <2>1. events[k][i] \in Events
    BY <1>0
  <2>2. i \in 1..Len(events'[k]) /\ events'[k][i] = events[k][i]
    <3>1. CASE events'[k] = events[k]
      BY <3>1
    <3>2. ASSUME NEW e \in Events, events'[k] = Append(events[k], e)
          PROVE  i \in 1..Len(events'[k]) /\ events'[k][i] = events[k][i]
      BY <1>0, <3>2, AppendFacts
    <3> QED
      BY <3>1, <3>2
  <2>3. ~Ignored(k, events'[k][i]) /\ Notifies(oids'[q][k], events'[k][i])
    BY <1>2, <2>1, <2>2
  <2> QED
    BY <2>2, <2>3 DEF Underway
<1> QED
  BY <1>1, <1>2 DEF Underway

LEMMA NotificationInductive ==
  ASSUME Base, Registered, ReadIsCurrent, TrackedIsNotified,
         MissedDeletes = FALSE, Unstructured = {}, [Next]_vars
  PROVE  TrackedIsNotified'
<1> USE LiveQueryCacheAssumption
<1>0. TypeOK /\ Shapes /\ SeenStored
  BY DEF Base
<1> SUFFICES ASSUME NEW q \in Queries, live'[q], NEW t \in Reads[q],
                    rt'[q][t] = "done", seen'[q][t] # Value(t)', ~raced'[q][t], ~dirty'[q]
             PROVE  Underway(q, KindOfRead(t))'
  BY DEF TrackedIsNotified, Outdated
<1> DEFINE k == KindOfRead(t)
<1>k. k \in Kinds
  BY KindOfReadType
<1>u. ASSUME live[q], rt[q][t] = "done", seen[q][t] # Value(t), ~raced[q][t], ~dirty[q]
      PROVE  Underway(q, k) /\ q \in queries
  BY <1>u DEF TrackedIsNotified, Outdated, Registered
<1>1. ASSUME NEW o \in Objects, Create(o) \/ Update(o) \/ Replace(o) \/ Delete(o)
      PROVE  Underway(q, k)'
  <2>1. PICK to, e : Reported(o, to, e) /\ Apply(o, to, e)
    BY <1>0, <1>1, ChangeEffect
  <2>2. to \in Versions /\ e \in Events
    BY <2>1 DEF Reported
  <2>3. /\ \A p \in Objects : p # o => store'[p] = store[p]
        /\ events'[k] = events[k] \/ events'[k] = Append(events[k], e)
        /\ raced' = [p \in Queries |-> [u \in Reads[p] |->
                       raced[p][u] \/ (rt[p][u] = "read" /\ o \in Covered(u))]]
        /\ UNCHANGED <<oids, loop, live, dirty, rt, seen>>
    <3>1. /\ \A p \in Objects : p # o => store'[p] = store[p]
          /\ \A j \in Kinds : events'[j] = IF j = KindOf[o] /\ j \in handles
                                           THEN Append(events[j], e) ELSE events[j]
          /\ raced' = [p \in Queries |-> [u \in Reads[p] |->
                         raced[p][u] \/ (rt[p][u] = "read" /\ o \in Covered(u))]]
          /\ UNCHANGED <<trackVars, loop, queryVars>>
      BY <1>0, <2>1, <2>2, ApplyEffect
    <3>2. events'[k] = events[k] \/ events'[k] = Append(events[k], e)
      BY <1>k, <3>1
    <3> QED
      BY <3>1, <3>2 DEF trackVars, queryVars
  <2>4. CASE seen[q][t] # Value(t)
    <3>1. Underway(q, k)
      BY <1>u, <2>3, <2>4
    <3> QED
      BY <1>0, <1>k, <2>2, <2>3, <3>1, QueueKept
  <2>5. CASE seen[q][t] = Value(t)
    <3>1. o \in Covered(t)
      BY <2>3, <2>5, ValueSame, CoveredKind
    <3> QED
      BY <2>1, <2>3, <2>5, <3>1, ChangeNotifies
  <2> QED
    BY <2>4, <2>5
<1>2. ASSUME NEW p \in Queries, NEW u \in Reads[p], Read(p, u) PROVE Underway(q, k)'
  <2>1. /\ UNCHANGED <<store, events, oids, loop, live, dirty>>
        /\ SetRead(p, u, "read") \/ SetRead(p, u, "error")
        /\ seen' = [seen EXCEPT ![p][u] = Value(u)]
        /\ raced' = [raced EXCEPT ![p][u] = FALSE]
    BY <1>2 DEF Read, clusterVars, trackVars
  <2>2. p # q \/ u # t
    BY <1>0, <2>1, SetReadEffect
  <2>3. rt'[q][t] = rt[q][t]
    <3>1. CASE SetRead(p, u, "read")
      BY <1>0, <2>2, <3>1, SetReadEffect
    <3>2. CASE SetRead(p, u, "error")
      BY <1>0, <2>2, <3>2, SetReadEffect
    <3> QED
      BY <2>1, <3>1, <3>2
  <2>4. seen'[q][t] = seen[q][t] /\ raced'[q][t] = raced[q][t]
    <3>1. seen' = [x \in Queries |-> IF x = p THEN [seen[p] EXCEPT ![u] = Value(u)] ELSE seen[x]]
      BY <1>0, <2>1 DEF Shapes
    <3>2. raced' = [x \in Queries |-> IF x = p THEN [raced[p] EXCEPT ![u] = FALSE] ELSE raced[x]]
      BY <1>0, <2>1 DEF Shapes
    <3>3. seen[q] \in [Reads[q] -> SUBSET Versions] /\ raced[q] \in [Reads[q] -> BOOLEAN]
      BY <1>0 DEF TypeOK
    <3> QED
      BY <2>2, <3>1, <3>2, <3>3
  <2>5. Value(t)' = Value(t)
    BY <2>1 DEF Value
  <2>6. Underway(q, k)
    BY <1>u, <2>1, <2>3, <2>4, <2>5
  <2> QED
    BY <2>1, <2>6 DEF Underway, Ignored, Notifies
<1>3. ASSUME NEW p \in Queries, NEW u \in Reads[p], Register(p, u) PROVE Underway(q, k)'
  <2> DEFINE j == KindOfRead(u)
  <2>1. /\ j \in Kinds /\ rt[p][u] = "read" /\ SetRead(p, u, "done") /\ AddEventHandler(j)
        /\ UNCHANGED <<store, loop, live, dirty, seen, raced>>
        /\ \A x \in Queries, y \in Kinds : x # p \/ y # j => oids'[x][y] = oids[x][y]
        /\ \/ oids'[p][j].mode = "list"
           \/ /\ u \in Objects /\ oids[p][j].mode # "list" /\ oids'[p][j].mode = "set"
              /\ \A v \in seen[p][u] : oids'[p][j].uids = oids[p][j].uids \cup {v.uid}
    BY <1>3, RegisterEffect, KindOfReadType
  <2>2. \A x \in Queries : \A y \in Reads[x] : x # p \/ y # u => rt'[x][y] = rt[x][y]
    BY <1>0, <2>1, SetReadEffect
  <2>3. Value(t)' = Value(t)
    BY <2>1 DEF Value
  <2>4. ~(p = q /\ u = t)
    BY <2>1, <2>3 DEF ReadIsCurrent
  <2>5. Underway(q, k)
    BY <1>u, <2>1, <2>2, <2>3, <2>4
  <2>6. events'[k] = events[k] \/ \E e \in Events : events'[k] = Append(events[k], e)
    BY <1>0, <1>k, <2>1, AddHandlerEffect
  <2>7. ASSUME NEW x \in Events, Notifies(oids[q][k], x) PROVE Notifies(oids'[q][k], x)
    <3>1. CASE p = q /\ j = k
      <4>1. CASE oids'[q][k].mode = "list"
        BY <4>1 DEF Notifies
      <4>2. CASE u \in Objects /\ oids[q][k].mode # "list" /\ oids'[q][k].mode = "set"
                 /\ \A v \in seen[q][u] : oids'[q][k].uids = oids[q][k].uids \cup {v.uid}
        <5>1. PICK v \in Versions : seen[p][u] = {v}
          BY <1>0, <2>1, <4>2 DEF SeenStored
        <5>2. oids[q][k].uids \subseteq oids'[q][k].uids
          BY <3>1, <4>2, <5>1
        <5> QED
          BY <2>7, <4>2, <5>2 DEF Notifies
      <4> QED
        BY <2>1, <3>1, <4>1, <4>2
    <3>2. CASE ~(p = q /\ j = k)
      BY <1>k, <2>1, <2>7, <3>2
    <3> QED
      BY <3>1, <3>2
  <2> QED
    BY <1>0, <1>k, <2>1, <2>5, <2>6, <2>7, QueueKept
<1>4. ASSUME NEW p \in Queries, NEW u \in Reads[p], SkipTracking(p, u) \/ TrackingFails(p, u)
      PROVE  Underway(q, k)'
  <2>1. /\ UNCHANGED <<store, events, oids, loop, live, dirty, seen, raced>>
        /\ SetRead(p, u, "error") \/ (SetRead(p, u, "done") /\ ~live[p])
    BY <1>4 DEF SkipTracking, TrackingFails, clusterVars, trackVars
  <2>2. rt'[q][t] = rt[q][t]
    <3>1. CASE SetRead(p, u, "error")
      BY <1>0, <3>1, SetReadEffect
    <3>2. CASE SetRead(p, u, "done") /\ ~live[p]
      <4>1. p # q
        BY <2>1, <3>2
      <4> QED
        BY <1>0, <3>2, <4>1, SetReadEffect
    <3> QED
      BY <2>1, <3>1, <3>2
  <2>3. Value(t)' = Value(t)
    BY <2>1 DEF Value
  <2>4. Underway(q, k)
    BY <1>u, <2>1, <2>2, <2>3
  <2> QED
    BY <2>1, <2>4 DEF Underway, Ignored, Notifies
<1>5. ASSUME NEW p \in Queries, Refresh(p) \/ Cancel(p) PROVE Underway(q, k)'
  <2>1. UNCHANGED <<store, events, oids, loop, seen, raced>> /\ (live'[q] => live[q])
    BY <1>0, <1>5 DEF Refresh, Cancel, clusterVars, trackVars, TypeOK
  <2>2. rt'[q][t] = rt[q][t] /\ dirty'[q] = dirty[q]
    <3>1. CASE Cancel(p)
      BY <3>1 DEF Cancel
    <3>2. CASE Refresh(p)
      <4>1. rt' = [x \in Queries |-> IF x = p THEN [y \in Reads[p] |-> "todo"] ELSE rt[x]]
        BY <1>0, <3>2 DEF Refresh, Shapes
      <4>2. p # q
        BY <4>1
      <4> QED
        BY <1>0, <3>2, <4>1, <4>2 DEF Refresh, TypeOK
    <3> QED
      BY <1>5, <3>1, <3>2
  <2>3. Value(t)' = Value(t)
    BY <2>1 DEF Value
  <2>4. Underway(q, k)
    BY <1>u, <2>1, <2>2, <2>3
  <2> QED
    BY <2>1, <2>4 DEF Underway, Ignored, Notifies
<1>6. ASSUME NEW j \in Kinds, IgnoreEvent(j) \/ OnEvent(j) PROVE Underway(q, k)'
  <2>1. /\ Dequeue(j)
        /\ UNCHANGED <<store, oids, live, dirty, rt, seen, raced>>
    BY <1>6 DEF IgnoreEvent, OnEvent, clusterVars, trackVars, queryVars
  <2>2. Value(t)' = Value(t)
    BY <2>1 DEF Value
  <2>3. Underway(q, k) /\ q \in queries
    BY <1>u, <2>1, <2>2
  <2>4. /\ loop[j] = Idle /\ Head(events[j]) = events[j][1]
        /\ Len(events'[j]) \in Nat /\ Len(events[j]) = Len(events'[j]) + 1
        /\ \A i \in 1..Len(events'[j]) : events'[j][i] = events[j][i + 1]
        /\ \A x \in Kinds : x # j => events'[x] = events[x]
    BY <1>0, <2>1, DequeueEffect
  <2>5. \A x \in Kinds : x # j => loop'[x] = loop[x]
    BY <1>0, <1>6 DEF IgnoreEvent, OnEvent, TypeOK
  <2>6. CASE j # k
    BY <1>k, <2>1, <2>3, <2>4, <2>5, <2>6 DEF Underway, Ignored, Notifies
  <2>7. CASE j = k
    <3>1. PICK i \in 1..Len(events[k]) :
            ~Ignored(k, events[k][i]) /\ Notifies(oids[q][k], events[k][i])
      BY <2>3, <2>4, <2>7 DEF Underway, Idle
    <3>2. CASE i = 1
      <4>1. OnEvent(k) /\ ~IgnoreEvent(k)
        BY <1>6, <2>4, <2>7, <3>1, <3>2 DEF IgnoreEvent
      <4>2. loop'[k] = [ev |-> events[k][1], todo |-> queries]
        BY <1>0, <1>k, <2>4, <2>7, <4>1 DEF OnEvent, TypeOK
      <4>3. q \in loop'[k].todo /\ Notifies(oids'[q][k], loop'[k].ev)
        BY <2>1, <2>3, <3>1, <3>2, <4>2
      <4> QED
        BY <4>3 DEF Underway
    <3>3. CASE i # 1
      <4>1. i - 1 \in 1..Len(events'[k]) /\ events'[k][i - 1] = events[k][i]
        BY <2>4, <2>7, <3>3
      <4>2. ~Ignored(k, events'[k][i - 1]) /\ Notifies(oids'[q][k], events'[k][i - 1])
        BY <2>1, <3>1, <4>1
      <4> QED
        BY <4>1, <4>2 DEF Underway
    <3> QED
      BY <3>2, <3>3
  <2> QED
    BY <2>6, <2>7
<1>7. ASSUME NEW j \in Kinds, NEW p \in Queries, VisitLive(j, p) PROVE Underway(q, k)'
  <2>1. /\ live[p] /\ p \in loop[j].todo
        /\ UNCHANGED <<store, events, live, rt, seen, raced>>
        /\ loop'[j].ev = loop[j].ev /\ loop'[j].todo = loop[j].todo \ {p}
        /\ \A x \in Kinds : x # j => loop'[x] = loop[x]
        /\ dirty'[p] <=> dirty[p] \/ Notifies(oids[p][j], loop[j].ev)
        /\ \A x \in Queries : x # p => dirty'[x] = dirty[x]
        /\ \A x \in Queries, y \in Kinds : x # p \/ y # j => oids'[x][y] = oids[x][y]
        /\ oids'[p][j].mode = oids[p][j].mode
        /\ oids'[p][j].uids = IF loop[j].ev.type = "delete"
                              THEN oids[p][j].uids \ {loop[j].ev.old} ELSE oids[p][j].uids
    BY <1>0, <1>7, VisitLiveEffect
  <2>2. Value(t)' = Value(t)
    BY <2>1 DEF Value
  <2>3. ~dirty[q]
    BY <2>1
  <2>4. Underway(q, k)
    BY <1>u, <2>1, <2>2, <2>3
  <2>5. CASE p = q /\ j = k
    <3>1. ~Notifies(oids[q][k], loop[k].ev)
      BY <2>1, <2>5
    <3>2. oids[q][k].mode = "set" => oids'[q][k].uids = oids[q][k].uids
      <4>1. CASE loop[k].ev.type = "delete" /\ oids[q][k].mode = "set"
        <5>1. loop[k].ev.old \notin oids[q][k].uids
          BY <3>1, <4>1 DEF Notifies
        <5>2. oids'[q][k].uids = oids[q][k].uids \ {loop[k].ev.old}
          BY <2>1, <2>5, <4>1
        <5>3. oids[q][k].uids \ {loop[k].ev.old} = oids[q][k].uids
          BY <5>1
        <5> QED
          BY <5>2, <5>3
      <4>2. CASE loop[k].ev.type # "delete"
        BY <2>1, <2>5, <4>2
      <4> QED
        BY <4>1, <4>2
    <3>3. \A x : Notifies(oids[q][k], x) => Notifies(oids'[q][k], x)
      BY <2>1, <2>5, <3>2 DEF Notifies
    <3>4. PICK i \in 1..Len(events[k]) :
            ~Ignored(k, events[k][i]) /\ Notifies(oids[q][k], events[k][i])
      BY <2>4, <3>1 DEF Underway
    <3>5. i \in 1..Len(events'[k]) /\ ~Ignored(k, events'[k][i]) /\ Notifies(oids'[q][k], events'[k][i])
      BY <2>1, <3>3, <3>4
    <3> QED
      BY <3>5 DEF Underway
  <2>6. CASE ~(p = q /\ j = k)
    <3>1. oids'[q][k] = oids[q][k] /\ events'[k] = events[k] /\ loop'[k].ev = loop[k].ev
      BY <1>k, <2>1, <2>6
    <3>2. q \in loop[k].todo => q \in loop'[k].todo
      BY <1>k, <2>1, <2>6
    <3> QED
      BY <2>4, <3>1, <3>2 DEF Underway, Ignored, Notifies
  <2> QED
    BY <2>5, <2>6
<1>8. ASSUME NEW j \in Kinds, NEW p \in Queries, VisitDone(j, p) PROVE Underway(q, k)'
  <2>1. /\ UNCHANGED <<store, events, live, dirty, rt, seen, raced>>
        /\ ~live[p] /\ loop' = [loop EXCEPT ![j].todo = @ \ {p}]
        /\ oids' = [oids EXCEPT ![p] = [y \in Kinds |-> Untracked]]
    BY <1>8 DEF VisitDone, clusterVars, queryVars
  <2>2. p # q
    BY <2>1
  <2>3. oids'[q] = oids[q]
    BY <1>0, <2>1, <2>2 DEF TypeOK
  <2>4. loop'[k].ev = loop[k].ev /\ (q \in loop[k].todo => q \in loop'[k].todo)
    BY <1>0, <1>k, <2>1, <2>2, VisitedEffect
  <2>5. Value(t)' = Value(t)
    BY <2>1 DEF Value
  <2>6. Underway(q, k)
    BY <1>u, <2>1, <2>5
  <2> QED
    BY <2>1, <2>3, <2>4, <2>6 DEF Underway, Ignored, Notifies
<1>9. ASSUME NEW j \in Kinds, EndEvent(j) PROVE Underway(q, k)'
  <2>1. /\ UNCHANGED <<store, events, oids, live, dirty, rt, seen, raced>>
        /\ loop[j].todo = {} /\ loop' = [loop EXCEPT ![j] = Idle]
    BY <1>9 DEF EndEvent, clusterVars, trackVars, queryVars
  <2>2. Value(t)' = Value(t)
    BY <2>1 DEF Value
  <2>3. Underway(q, k)
    BY <1>u, <2>1, <2>2
  <2>4. j # k => loop'[k] = loop[k]
    BY <1>0, <1>k, <2>1 DEF TypeOK
  <2> QED
    BY <2>1, <2>3, <2>4 DEF Underway, Ignored, Notifies
<1>10. CASE (\E o \in Objects : Zero(o)) \/ UNCHANGED vars
  <2>1. UNCHANGED <<store, events, oids, loop, live, dirty, rt, seen, raced>>
    BY <1>10 DEF Zero, vars, clusterVars, trackVars, queryVars
  <2>2. Value(t)' = Value(t)
    BY <2>1 DEF Value
  <2>3. Underway(q, k)
    BY <1>u, <2>1, <2>2
  <2> QED
    BY <2>1, <2>3 DEF Underway, Ignored, Notifies
<1> QED
  BY <1>1, <1>2, <1>3, <1>4, <1>5, <1>6, <1>7, <1>8, <1>9, <1>10
     DEF Next, Change, Resolver, Handler

-----------------------------------------------------------------------------
(* What a step never does to the trackers of live queries.                 *)

LEMMA TrackingStep ==
  ASSUME Base, [Next]_vars, NEW q \in queries, live[q]
  PROVE  /\ q \in queries'
         /\ \A k \in Kinds :
              /\ oids[q][k].mode = "list" => oids'[q][k].mode = "list"
              /\ \A o \in Objects :
                   store'[o].uid \in oids[q][k].uids =>
                     oids'[q][k].mode = "list" \/ store'[o].uid \in oids'[q][k].uids
<1> USE LiveQueryCacheAssumption
<1>0. TypeOK /\ SeenStored /\ DeletedStayGone /\ q \in Queries
  BY DEF Base, TypeOK
<1>1. ASSUME NEW p \in Queries, NEW t \in Reads[p], Register(p, t)
      PROVE  q \in queries' /\ \A k \in Kinds : \/ oids'[q][k].mode = "list"
                                                \/ /\ oids[q][k].mode # "list"
                                                   /\ oids[q][k].uids \subseteq oids'[q][k].uids
                                                \/ oids'[q][k] = oids[q][k]
  <2> DEFINE j == KindOfRead(t)
  <2>1. /\ rt[p][t] = "read" /\ queries' = queries \cup {p}
        /\ \A x \in Queries, y \in Kinds : x # p \/ y # j => oids'[x][y] = oids[x][y]
        /\ \/ oids'[p][j].mode = "list"
           \/ /\ t \in Objects /\ oids[p][j].mode # "list" /\ oids'[p][j].mode = "set"
              /\ \A v \in seen[p][t] : oids'[p][j].uids = oids[p][j].uids \cup {v.uid}
    BY <1>1, RegisterEffect
  <2> SUFFICES ASSUME NEW k \in Kinds, q = p, k = j, oids'[q][k].mode # "list"
               PROVE  oids[q][k].mode # "list" /\ oids[q][k].uids \subseteq oids'[q][k].uids
    BY <1>0, <2>1
  <2>2. PICK v \in Versions : seen[p][t] = {v}
    BY <1>0, <2>1 DEF SeenStored
  <2> QED
    BY <2>1, <2>2
<1>2. ASSUME NEW j \in Kinds, NEW p \in Queries, VisitLive(j, p)
      PROVE  /\ queries' = queries /\ store' = store
             /\ \A k \in Kinds :
                  /\ oids'[q][k].mode = oids[q][k].mode
                  /\ \A o \in Objects : store[o].uid \in oids[q][k].uids => store[o].uid \in oids'[q][k].uids
  <2>1. /\ queries' = queries /\ store' = store
        /\ \A x \in Queries, y \in Kinds : x # p \/ y # j => oids'[x][y] = oids[x][y]
        /\ oids'[p][j].mode = oids[p][j].mode
        /\ oids'[p][j].uids = IF loop[j].ev.type = "delete"
                              THEN oids[p][j].uids \ {loop[j].ev.old} ELSE oids[p][j].uids
    BY <1>0, <1>2, VisitLiveEffect
  <2>2. loop[j].ev.type = "delete" => \A o \in Objects : store[o].uid # loop[j].ev.old
    BY <1>0 DEF DeletedStayGone, Gone
  <2>3. \A o \in Objects : store[o].uid \in oids[p][j].uids => store[o].uid \in oids'[p][j].uids
    BY <2>1, <2>2
  <2> QED
    BY <1>0, <2>1, <2>3
<1>3. ASSUME NEW j \in Kinds, NEW p \in Queries, VisitDone(j, p)
      PROVE  q \in queries' /\ oids'[q] = oids[q]
  <2>1. /\ ~live[p] /\ queries' = queries \ {p}
        /\ oids' = [oids EXCEPT ![p] = [y \in Kinds |-> Untracked]]
    BY <1>3 DEF VisitDone
  <2> QED
    BY <1>0, <2>1 DEF TypeOK
<1>4. CASE \/ \E o \in Objects : Change(o)
           \/ \E p \in Queries : \/ \E t \in Reads[p] : Read(p, t) \/ SkipTracking(p, t) \/ TrackingFails(p, t)
                                 \/ Refresh(p) \/ Cancel(p)
           \/ \E j \in Kinds : IgnoreEvent(j) \/ OnEvent(j) \/ EndEvent(j)
           \/ UNCHANGED vars
  <2>1. UNCHANGED <<queries, oids>>
    BY <1>4 DEF Change, Create, Update, Replace, Delete, Zero, Apply, Read, SkipTracking, TrackingFails,
                Refresh, Cancel, IgnoreEvent, OnEvent, EndEvent, vars, trackVars
  <2> QED
    BY <1>0, <2>1
<1> QED
  BY <1>1, <1>2, <1>3, <1>4 DEF Next, Resolver, Handler

-----------------------------------------------------------------------------
LEMMA BaseInvariant == Spec => []Base
BY BaseInit, BaseInductive, PTL DEF Spec

(* The variables of the live query cache keep their types.                 *)
THEOREM TypeCorrect == Spec => []TypeOK
<1>1. Base => TypeOK
  BY DEF Base
<1> QED
  BY <1>1, BaseInvariant, PTL

(* The handlers, which delete from c.queries and from the trackers while   *)
(* they visit them, delete nothing that a live query still needs.          *)
THEOREM TrackersAreKept == Spec => TrackingKept
<1>1. ASSUME Base, [Next]_vars
      PROVE  [\A q \in queries : live[q] =>
                /\ q \in queries'
                /\ \A k \in Kinds :
                     /\ oids[q][k].mode = "list" => oids'[q][k].mode = "list"
                     /\ \A o \in Objects :
                          store'[o].uid \in oids[q][k].uids =>
                            oids'[q][k].mode = "list" \/ store'[o].uid \in oids'[q][k].uids]_vars
  BY <1>1, TrackingStep
<1> QED
  BY <1>1, BaseInvariant, PTL DEF Spec, TrackingKept

(* What a live query has registered stays within reach of the handlers:    *)
(* handles, c.queries and the tracker agree about it.                      *)
THEOREM RegisteredIsTracked == Spec => [](Registered /\ ReadIsCurrent)
<1>1. Init => Registered /\ ReadIsCurrent
  BY DEF Init, Registered, ReadIsCurrent
<1>2. ASSUME Base, Base', Registered /\ ReadIsCurrent, [Next]_vars
      PROVE  (Registered /\ ReadIsCurrent)'
  BY <1>2, RegistrationInductive
<1> QED
  BY <1>1, <1>2, BaseInvariant, PTL DEF Spec

(* A change of what a live query has registered reaches it, if the watch   *)
(* reports every deletion and the objects are not read as unstructured     *)
(* ones (the event of an old object that was zeroed is ignored for those). *)
THEOREM ChangesReachQueries ==
  ASSUME MissedDeletes = FALSE, Unstructured = {}
  PROVE  Spec => []TrackedIsNotified
<1>1. Init => TrackedIsNotified
  BY DEF Init, TrackedIsNotified, Outdated
<1>2. ASSUME Base, Registered /\ ReadIsCurrent, TrackedIsNotified, [Next]_vars
      PROVE  TrackedIsNotified'
  BY <1>2, NotificationInductive
<1> QED
  BY <1>1, <1>2, BaseInvariant, RegisteredIsTracked, PTL DEF Spec
=============================================================================
