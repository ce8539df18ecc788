--------------------------- MODULE LiveQueryCache ---------------------------
(***************************************************************************)
(* internal/cache/live_query.go: the cache layer that lets informer events *)
(* trigger live queries.                                                   *)
(*                                                                         *)
(* A resolver reads an object or a list from the underlying cache and then *)
(* registers what it read with the tracker of its live query.  Informers   *)
(* (external) apply changes to their store and queue an event for every    *)
(* registered handler; one goroutine per kind calls OnAdd, OnUpdate and    *)
(* OnDelete, which hold c.lock while they visit the trackers and call      *)
(* Trigger.  The live query itself is reduced to what the LiveQuery module *)
(* shows of it: a Trigger is accepted, and after the resolution in         *)
(* progress, if any, there is another one.                                 *)
(***************************************************************************)
EXTENDS Integers, Sequences

CONSTANTS
  Queries,       \* live queries
  Kinds,         \* kinds of object (GVKs)
  Unstructured,  \* the kinds that are read as unstructured objects
  Objects,       \* names of objects
  KindOf,        \* the kind of every object
  Reads,         \* Reads[q]: the objects q gets and the kinds it lists
  MissedDeletes, \* whether a watch may miss a deletion
  MaxChanges     \* bound on the number of changes to the objects

ASSUME LiveQueryCacheAssumption ==
  /\ KindOf \in [Objects -> Kinds]
  /\ Unstructured \subseteq Kinds
  /\ Objects \cap Kinds = {}
  /\ Reads \in [Queries -> SUBSET (Objects \cup Kinds)]
  /\ MissedDeletes \in BOOLEAN
  /\ MaxChanges \in Nat

UIDs     == 1..MaxChanges
NoObject == [uid |-> 0, ver |-> 0]

VARIABLES
  store,    \* the informers' store: the uid and version of each object
  zeroed,   \* whether the object in the store was zeroed by BBoltCache
  changes,  \* number of changes so far
  events,   \* events[k]: events queued for the handler of kind k
  handles,  \* c.handles
  queries,  \* the keys of c.queries
  oids,     \* oids[q][k]: oids[gvk] of the tracker of q
  loop,     \* loop[k]: the event its handler is broadcasting, under c.lock,
            \* and the queries it has not visited yet
  live,     \* the context of the query is not done
  dirty,    \* the query was triggered since its last resolution began
  rt,       \* rt[q][t]: where the resolver that reads t is
  seen,     \* seen[q][t]: what it read
  raced     \* history: t changed between its read and its registration

vars == <<store, zeroed, changes, events, handles, queries, oids, loop, live, dirty, rt,
          seen, raced>>

queryVars   == <<live, dirty, rt, seen>>
trackVars   == <<handles, queries, oids>>
clusterVars == <<store, zeroed, changes>>

Untracked == [mode |-> "none", uids |-> {}]   \* no entry for the kind
AllOfKind == [mode |-> "list", uids |-> {}]   \* a nil set
NoEvent   == [type |-> "none", old |-> 0, new |-> 0, initial |-> FALSE, tomb |-> FALSE,
              zero |-> FALSE]
Idle      == [ev |-> NoEvent, todo |-> {}]

(* Mutant: the kind of a list is not told from the kind of its objects. *)
KindOfReadRaw(t) == t

KindOfRead(t) == IF t \in Kinds THEN t ELSE KindOf[t]

Covered(t) == IF t \in Kinds THEN {o \in Objects : KindOf[o] = t} ELSE {t}

(* What Cache.Get or Cache.List returns. *)
Value(t) == {store[o] : o \in {x \in Covered(t) : store[x] # NoObject}}

Unlocked == \A k \in Kinds : loop[k] = Idle

-----------------------------------------------------------------------------
Init ==
  /\ store = [o \in Objects |-> NoObject]
  /\ zeroed = [o \in Objects |-> FALSE]
  /\ changes = 0
  /\ events = [k \in Kinds |-> <<>>]
  /\ handles = {}
  /\ queries = {}
  /\ oids = [q \in Queries |-> [k \in Kinds |-> Untracked]]
  /\ loop = [k \in Kinds |-> Idle]
  /\ live = [q \in Queries |-> TRUE]
  /\ dirty = [q \in Queries |-> FALSE]
  /\ rt = [q \in Queries |-> [t \in Reads[q] |-> "todo"]]
  /\ seen = [q \in Queries |-> [t \in Reads[q] |-> {}]]
  /\ raced = [q \in Queries |-> [t \in Reads[q] |-> FALSE]]

-----------------------------------------------------------------------------
(* The informers. *)

(* The store changes and the event is queued if the kind has a handler. *)
Apply(o, to, e) ==
  /\ changes < MaxChanges
  /\ changes' = changes + 1
  /\ store' = [store EXCEPT ![o] = to]
  /\ zeroed' = [zeroed EXCEPT ![o] = FALSE]
  /\ events' = IF KindOf[o] \in handles
               THEN [events EXCEPT ![KindOf[o]] = Append(@, e)]
               ELSE events
  /\ raced' = [q \in Queries |-> [t \in Reads[q] |->
                 raced[q][t] \/ (rt[q][t] = "read" /\ o \in Covered(t))]]
  /\ UNCHANGED <<trackVars, loop, queryVars>>

Create(o) ==
  /\ store[o] = NoObject
  /\ LET u == changes + 1
     IN Apply(o, [uid |-> u, ver |-> u], [NoEvent EXCEPT !.type = "add", !.new = u])

Update(o) ==
  /\ store[o] # NoObject
  /\ LET u == store[o].uid
     IN Apply(o, [uid |-> u, ver |-> changes + 1],
              [NoEvent EXCEPT !.type = "update", !.old = u, !.new = u, !.zero = zeroed[o]])

(* The watch was interrupted while the object was deleted and created      *)
(* again: the informer reports an update to another uid.                   *)
Replace(o) ==
  /\ store[o] # NoObject
  /\ LET u == changes + 1
     IN Apply(o, [uid |-> u, ver |-> u],
              [NoEvent EXCEPT !.type = "update", !.old = store[o].uid, !.new = u,
                              !.zero = zeroed[o]])

(* A deletion that the watch missed is reported with a                     *)
(* DeletedFinalStateUnknown instead of the object.                         *)
Delete(o) ==
  /\ store[o] # NoObject
  /\ \E tomb \in {FALSE, MissedDeletes} :
       Apply(o, NoObject, [NoEvent EXCEPT !.type = "delete", !.old = store[o].uid,
                                          !.tomb = tomb])

(* The cleaner of BBoltCache zeroes the object in the store. *)
Zero(o) ==
  /\ store[o] # NoObject
  /\ ~zeroed[o]
  /\ zeroed' = [zeroed EXCEPT ![o] = TRUE]
  /\ UNCHANGED <<store, changes, events, trackVars, loop, queryVars, raced>>

-----------------------------------------------------------------------------
(* Get and List. *)

SetRead(q, t, s) == rt' = [rt EXCEPT ![q][t] = s]

(* c.Cache.Get or c.Cache.List.  A Get that finds nothing returns an error *)
(* and nothing is tracked.                                                 *)
Read(q, t) ==
  /\ rt[q][t] = "todo"
  /\ IF t \in Objects /\ store[t] = NoObject
     THEN SetRead(q, t, "error")
     ELSE SetRead(q, t, "read")
  /\ seen' = [seen EXCEPT ![q][t] = Value(t)]
  /\ raced' = [raced EXCEPT ![q][t] = FALSE]
  /\ UNCHANGED <<clusterVars, events, trackVars, loop, live, dirty>>

(* Mutant: an object that is read after its list replaces the list. *)
TrackForgetsList(oid, e) == [mode |-> "set", uids |-> e.uids \cup {oid}]

Track(oid, e) ==
  IF e.mode = "list" THEN e ELSE [mode |-> "set", uids |-> e.uids \cup {oid}]

TrackList == AllOfKind

(* i.AddEventHandler(c), once per kind.  The informer then reports what is *)
(* in its store as the initial list, here as a single event.               *)
AddEventHandler(k) ==
  /\ handles' = handles \cup {k}
  /\ events' = IF k \notin handles /\ Value(k) # {}
               THEN [events EXCEPT ![k] = Append(@, [NoEvent EXCEPT !.type = "add",
                                                                    !.initial = TRUE])]
               ELSE events

(* Mutant: the handler is registered for the first query only. *)
RegisterFirst(q, t) ==
  LET k == KindOfRead(t) IN
  /\ rt[q][t] = "read"
  /\ Unlocked
  /\ AddEventHandler(k)
  /\ queries' = queries \cup {q}
  /\ oids' = IF k \in handles THEN oids
             ELSE [oids EXCEPT ![q][k] = IF t \in Kinds THEN TrackList
                                         ELSE Track((CHOOSE x \in seen[q][t] : TRUE).uid, @)]
  /\ SetRead(q, t, "done")
  /\ UNCHANGED <<clusterVars, loop, live, dirty, seen, raced>>

(* trackObject for a live query, from c.lock.Lock() on.  (IsLive was       *)
(* called before the lock was taken: the query may be done by now.)        *)
Register(q, t) ==
  LET k == KindOfRead(t) IN
  /\ rt[q][t] = "read"
  /\ Unlocked
  /\ AddEventHandler(k)
  /\ queries' = queries \cup {q}
  /\ oids' = [oids EXCEPT ![q][k] = IF t \in Kinds THEN TrackList
                                    ELSE Track((CHOOSE x \in seen[q][t] : TRUE).uid, @)]
  /\ SetRead(q, t, "done")
  /\ UNCHANGED <<clusterVars, loop, live, dirty, seen, raced>>

(* trackObject for a query that is done. *)
SkipTracking(q, t) ==
  /\ rt[q][t] = "read"
  /\ ~live[q]
  /\ SetRead(q, t, "done")
  /\ UNCHANGED <<clusterVars, events, trackVars, loop, live, dirty, seen, raced>>

(* There is no informer, or AddEventHandler fails and c.handles is as it   *)
(* was.                                                                    *)
TrackingFails(q, t) ==
  /\ rt[q][t] = "read"
  /\ SetRead(q, t, "error")
  /\ UNCHANGED <<clusterVars, events, trackVars, loop, live, dirty, seen, raced>>

(* The live query resolves again after it was triggered. *)
Refresh(q) ==
  /\ live[q]
  /\ dirty[q]
  /\ \A t \in Reads[q] : rt[q][t] \in {"done", "error"}
  /\ dirty' = [dirty EXCEPT ![q] = FALSE]
  /\ rt' = [rt EXCEPT ![q] = [t \in Reads[q] |-> "todo"]]
  /\ UNCHANGED <<clusterVars, events, trackVars, loop, live, seen, raced>>

(* The request of the query ends. *)
Cancel(q) ==
  /\ live[q]
  /\ live' = [live EXCEPT ![q] = FALSE]
  /\ UNCHANGED <<clusterVars, events, trackVars, loop, dirty, rt, seen, raced>>

-----------------------------------------------------------------------------
(* OnAdd, OnUpdate and OnDelete. *)

(* The events on which the handlers return at once: the initial list, what *)
(* is not a client.Object, and an old object whose GVK is unknown because  *)
(* it is unstructured and was zeroed.                                      *)
Ignored(k, e) ==
  \/ e.initial
  \/ e.tomb
  \/ e.type = "update" /\ e.zero /\ k \in Unstructured

Dequeue(k) ==
  /\ loop[k] = Idle
  /\ events[k] # <<>>
  /\ events' = [events EXCEPT ![k] = Tail(@)]

IgnoreEvent(k) ==
  /\ Dequeue(k)
  /\ Ignored(k, Head(events[k]))
  /\ UNCHANGED <<clusterVars, trackVars, loop, queryVars, raced>>

(* The handler takes c.lock and ranges over c.queries. *)
OnEvent(k) ==
  /\ Dequeue(k)
  /\ ~Ignored(k, Head(events[k]))
  /\ Unlocked
  /\ loop' = [loop EXCEPT ![k] = [ev |-> Head(events[k]), todo |-> queries]]
  /\ UNCHANGED <<clusterVars, trackVars, queryVars, raced>>

(* Mutant: OnUpdate looks at the new object only. *)
NotifiesNewOnly(e, x) ==
  \/ e.mode = "list"
  \/ /\ e.mode = "set"
     /\ \/ x.type = "update" /\ x.new \in e.uids
        \/ x.type = "delete" /\ x.old \in e.uids

(* The variable notify of OnCreate, OnUpdate and OnDelete. *)
Notifies(e, x) ==
  \/ e.mode = "list"
  \/ /\ e.mode = "set"
     /\ \/ x.type = "update" /\ (x.old \in e.uids \/ x.new \in e.uids)
        \/ x.type = "delete" /\ x.old \in e.uids

(* OnDelete removes the uid of the object. *)
AfterEvent(e, x) == IF x.type = "delete" THEN [e EXCEPT !.uids = @ \ {x.old}] ELSE e

(* One iteration over c.queries, for a live query. *)
VisitLive(k, q) ==
  /\ loop[k].ev # NoEvent
  /\ q \in loop[k].todo
  /\ live[q]
  /\ loop' = [loop EXCEPT ![k].todo = @ \ {q}]
  /\ dirty' = [dirty EXCEPT ![q] = @ \/ Notifies(oids[q][k], loop[k].ev)]
  /\ oids' = [oids EXCEPT ![q][k] = AfterEvent(@, loop[k].ev)]
  /\ UNCHANGED <<clusterVars, events, handles, queries, live, rt, seen, raced>>

(* One iteration for a query that is done: its tracker is deleted. *)
VisitDone(k, q) ==
  /\ loop[k].ev # NoEvent
  /\ q \in loop[k].todo
  /\ ~live[q]
  /\ loop' = [loop EXCEPT ![k].todo = @ \ {q}]
  /\ queries' = queries \ {q}
  /\ oids' = [oids EXCEPT ![q] = [j \in Kinds |-> Untracked]]
  /\ UNCHANGED <<clusterVars, events, handles, queryVars, raced>>

(* The handler has visited all queries and releases c.lock. *)
EndEvent(k) ==
  /\ loop[k].ev # NoEvent
  /\ loop[k].todo = {}
  /\ loop' = [loop EXCEPT ![k] = Idle]
  /\ UNCHANGED <<clusterVars, events, trackVars, queryVars, raced>>

-----------------------------------------------------------------------------
Change(o) == Create(o) \/ Update(o) \/ Replace(o) \/ Delete(o) \/ Zero(o)

Resolver(q, t) == Read(q, t) \/ Register(q, t) \/ SkipTracking(q, t) \/ TrackingFails(q, t)

Handler(k) ==
  \/ IgnoreEvent(k)
  \/ OnEvent(k)
  \/ \E q \in Queries : VisitLive(k, q) \/ VisitDone(k, q)
  \/ EndEvent(k)

Next ==
  \/ \E o \in Objects : Change(o)
  \/ \E q \in Queries : \/ \E t \in Reads[q] : Resolver(q, t)
                        \/ Refresh(q)
                        \/ Cancel(q)
  \/ \E k \in Kinds : Handler(k)

Spec == Init /\ [][Next]_vars

(* Handlers, resolvers and live queries go on; a handler that waits for    *)
(* c.lock gets it (Go's mutexes do not starve a waiter).                   *)
Fairness ==
  /\ \A k \in Kinds : WF_vars(Handler(k)) /\ SF_vars(OnEvent(k))
  /\ \A q \in Queries : /\ WF_vars(Refresh(q))
                        /\ \A t \in Reads[q] : /\ WF_vars(Resolver(q, t))
                                               /\ SF_vars(Register(q, t))

FairSpec == Spec /\ Fairness

-----------------------------------------------------------------------------
Versions == [uid : 0..MaxChanges, ver : 0..MaxChanges]
Events   == [type : {"none", "add", "update", "delete"}, old : 0..MaxChanges,
             new : 0..MaxChanges, initial : BOOLEAN, tomb : BOOLEAN, zero : BOOLEAN]

TypeOK ==
  /\ store \in [Objects -> Versions]
  /\ zeroed \in [Objects -> BOOLEAN]
  /\ changes \in 0..MaxChanges
  /\ events \in [Kinds -> Seq(Events)]
  /\ handles \subseteq Kinds
  /\ queries \subseteq Queries
  /\ oids \in [Queries -> [Kinds -> [mode : {"none", "set", "list"}, uids : SUBSET UIDs]]]
  /\ loop \in [Kinds -> [ev : Events, todo : SUBSET Queries]]
  /\ live \in [Queries -> BOOLEAN]
  /\ dirty \in [Queries -> BOOLEAN]
  /\ \A q \in Queries :
       /\ rt[q] \in [Reads[q] -> {"todo", "read", "done", "error"}]
       /\ seen[q] \in [Reads[q] -> SUBSET Versions]
       /\ raced[q] \in [Reads[q] -> BOOLEAN]

(* An event that is queued or being broadcast will trigger q. *)
Underway(q, k) ==
  \/ \E i \in 1..Len(events[k]) :
       ~Ignored(k, events[k][i]) /\ Notifies(oids[q][k], events[k][i])
  \/ q \in loop[k].todo /\ Notifies(oids[q][k], loop[k].ev)

Outdated(q, t) == rt[q][t] = "done" /\ seen[q][t] # Value(t)

(* A change of what a live query has registered reaches it (live_query.go: *)
(* 86-89): if what a resolver read is out of date then the query has been  *)
(* triggered, or an event that will trigger it is on its way, unless the   *)
(* change came before the registration.                                    *)
TrackedIsNotified ==
  \A q \in Queries : live[q] => \A t \in Reads[q] :
    Outdated(q, t) => raced[q][t] \/ dirty[q] \/ Underway(q, KindOfRead(t))

(* The same of all that a live query has read (live_query.go:68-69,        *)
(* 77-78), whenever it changed.                                            *)
ReadIsNotified ==
  \A q \in Queries : live[q] => \A t \in Reads[q] :
    Outdated(q, t) => dirty[q] \/ Underway(q, KindOfRead(t))

(* Tracking is never lost: while a query is live its tracker stays, a kind *)
(* that it lists stays listed, and a uid is dropped only when no object    *)
(* has it any more.                                                        *)
TrackingKept ==
  [][\A q \in queries : live[q] =>
       /\ q \in queries'
       /\ \A k \in Kinds :
            /\ oids[q][k].mode = "list" => oids'[q][k].mode = "list"
            /\ \A o \in Objects :
                 store'[o].uid \in oids[q][k].uids =>
                   oids'[q][k].mode = "list" \/ store'[o].uid \in oids'[q][k].uids]_vars

(* Once the objects stop changing, a live query has read them as they are, *)
(* except for a change that came before the registration.                  *)
EventuallyFresh ==
  \A q \in Queries : <>[](live[q] => \A t \in Reads[q] :
                            \/ rt[q][t] = "error"
                            \/ rt[q][t] = "done" /\ (seen[q][t] = Value(t) \/ raced[q][t]))
=============================================================================
