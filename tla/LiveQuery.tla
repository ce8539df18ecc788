----------------------------- MODULE LiveQuery -----------------------------
(***************************************************************************)
(* internal/live_query/runtime.go and extension.go: one live query.        *)
(*                                                                         *)
(* Three kinds of goroutine share it.  Informer goroutines call Trigger    *)
(* after something the query has registered changed.  The debounce goroutine *)
(* turns triggers into at most one refresh per throttle interval.  The     *)
(* transport calls the response handler of InterceptOperation for one      *)
(* response after the other; when a resolution has no response left it     *)
(* calls Reset and waits for the next refresh.  actionsCh and changesCh    *)
(* are unbuffered: a send and its receive are one step.                    *)
(*                                                                         *)
(* A response is for a path: the root of the query, or a deferred          *)
(* fragment.  Resolvers of all paths run concurrently, so a path is read   *)
(* at some moment of the resolution before its response is returned.       *)
(*                                                                         *)
(* The query is composed here with the lock of the live query cache        *)
(* (internal/cache/live_query.go): event handlers hold it while they call  *)
(* Trigger, and a resolver cannot return before it has had it to register  *)
(* what it read.  A registration stays for the later resolutions.  The     *)
(* changes here are updates of objects; trackers, kinds, lists, creations  *)
(* and deletions are LiveQueryCache's.                                     *)
(***************************************************************************)
EXTENDS Integers

CONSTANTS
  Triggers,    \* informer goroutines
  NPaths,      \* number of response paths of the query
  Values,      \* what the data of a path can be
  Worlds,      \* what the data of all paths can be at first
  Throttle,    \* the throttle interval, in ticks
  MaxChanges   \* bound on the number of changes to the data

Paths  == 1..NPaths
Nil    == -1            \* a nil channel; for timer, the timer channel
Null   == "null"        \* the data of a path whose resolver failed
NoData == "no data"     \* no entry in a map
Nobody == "nobody"      \* the lock is free
NoEvent == 0            \* the informer goroutine has no event for the query

ASSUME LiveQueryAssumption ==
  /\ NPaths \in Nat
  /\ Throttle \in Nat
  /\ MaxChanges \in Nat
  /\ Worlds \subseteq [Paths -> Values]
  /\ Null \notin Values /\ NoData \notin Values
  /\ Nobody \notin Triggers

VARIABLES
  done,      \* the context of the operation is done
  deb,       \* the debounce goroutine: in its select, sending, or returned
  armed,     \* its variable armed
  fired,     \* its variable fired
  timer,     \* the ticks until its timer channel fires, or Nil
  trig,      \* trig[t]: the path whose event goroutine t has, or NoEvent
  lock,      \* the goroutine that holds liveQueryCache.lock, in Trigger
  h,         \* where the transport is in the response handler
  idx,       \* the path of the next response of the resolution
  read,      \* what the resolvers have read in this resolution
  tracked,   \* the paths whose resolvers have then called trackObject
  registered, \* the paths whose objects the tracker of the query has
  missed,    \* history: paths that changed between their read and their
             \* registration in this resolution, with no event to come
  PrevData,  \* lqs.PrevData
  client,    \* the data of each path as the client has rebuilt it
  failed,    \* history: the last response for the path had errors
  world,     \* the data in the cluster
  changes,   \* number of changes so far
  since      \* history: ticks since the last refresh, up to Throttle

vars == <<done, deb, armed, fired, timer, trig, lock, h, idx, read, tracked,
          registered, missed, PrevData, client, failed, world, changes, since>>

debVars   == <<deb, armed, fired, timer>>
trigVars  == <<trig, lock>>
readVars  == <<read, tracked, registered, missed>>
respVars  == <<PrevData, client, failed>>
worldVars == <<world, changes>>

Data == Values \cup {Null}

(* A resolution is in progress until the handler has returned nil. *)
Resolving == h \in {"idle", "handler"}

-----------------------------------------------------------------------------
(* withLiveQuery starts debounce; InterceptOperation calls next once and   *)
(* returns the response handler.                                           *)
Init ==
  /\ done = FALSE
  /\ deb = "select"
  /\ armed = FALSE
  /\ fired = FALSE
  /\ timer = Nil
  /\ trig = [t \in Triggers |-> NoEvent]
  /\ lock = Nobody
  /\ h = "idle"
  /\ idx = 1
  /\ read = [p \in Paths |-> NoData]
  /\ tracked = {}
  /\ registered = {}
  /\ missed = {}
  /\ PrevData = [p \in Paths |-> NoData]
  /\ client = [p \in Paths |-> NoData]
  /\ failed = [p \in Paths |-> FALSE]
  /\ world \in Worlds
  /\ changes = 0
  /\ since = Throttle

(* The request ends: the client unsubscribes or disconnects. *)
Cancel ==
  /\ ~done
  /\ done' = TRUE
  /\ UNCHANGED <<debVars, trigVars, h, idx, readVars, respVars, worldVars, since>>

Tick ==
  /\ timer > 0 \/ since < Throttle
  /\ timer' = IF timer > 0 THEN timer - 1 ELSE timer
  /\ since' = IF since < Throttle THEN since + 1 ELSE since
  /\ UNCHANGED <<done, deb, armed, fired, trigVars, h, idx, readVars, respVars, worldVars>>

(* The data of a path changes in the informer's store.  The event for it   *)
(* comes afterwards, if the live query cache has a handler for its kind,   *)
(* which it has if the path is registered.                                 *)
Change(t) ==
  /\ trig[t] = NoEvent
  /\ changes < MaxChanges
  /\ \E p \in Paths, v \in Values :
       /\ v # world[p]
       /\ world' = [world EXCEPT ![p] = v]
       /\ \E e \in IF p \in registered THEN {p} ELSE {p, NoEvent} :
            trig' = [trig EXCEPT ![t] = e]
  /\ changes' = changes + 1
  /\ UNCHANGED <<done, debVars, lock, h, idx, readVars, respVars, since>>

(* OnUpdate takes the lock, and the tracker of the query has the object:   *)
(* it calls Trigger.                                                       *)
OnEvent(t) ==
  /\ trig[t] \in registered
  /\ lock = Nobody
  /\ ~done
  /\ lock' = t
  /\ UNCHANGED <<done, debVars, trig, h, idx, readVars, respVars, worldVars, since>>

(* OnUpdate takes the lock, but nothing is triggered: the tracker does not *)
(* have the object, or the query is done and its tracker is deleted.       *)
Ignore(t) ==
  /\ trig[t] # NoEvent
  /\ lock = Nobody
  /\ \/ done /\ registered' = {}
     \/ ~done /\ trig[t] \notin registered /\ UNCHANGED registered
  /\ trig' = [trig EXCEPT ![t] = NoEvent]
  /\ UNCHANGED <<done, debVars, lock, h, idx, read, tracked, missed, respVars, worldVars, since>>

(* Mutant: the handler does not release the lock. *)
TriggeredKeepsLock(t) ==
  /\ lock = t
  /\ trig' = [trig EXCEPT ![t] = NoEvent]
  /\ UNCHANGED lock

(* Trigger returns, and the handler releases the lock. *)
Triggered(t) ==
  /\ lock = t
  /\ trig' = [trig EXCEPT ![t] = NoEvent]
  /\ lock' = Nobody

(* Trigger returns because the query is done. *)
TriggerDone(t) ==
  /\ done
  /\ Triggered(t)
  /\ UNCHANGED <<done, debVars, h, idx, readVars, respVars, worldVars, since>>

-----------------------------------------------------------------------------
(* The debounce goroutine. *)

(* Mutant: no throttle interval. *)
SetTimerNow == timer' = IF timer = Nil THEN 0 ELSE timer

SetTimer == timer' = IF timer = Nil THEN Throttle ELSE timer

(* Mutant: a fire that arrives during a resolution is dropped. *)
RecvFireDropped(t) ==
  /\ deb = "select"
  /\ Triggered(t)
  /\ \/ armed /\ SetTimer
     \/ ~armed /\ UNCHANGED timer
  /\ UNCHANGED <<done, deb, armed, fired, h, idx, readVars, respVars, worldVars, since>>

(* case fire, received from Trigger *)
RecvFire(t) ==
  /\ deb = "select"
  /\ Triggered(t)
  /\ \/ armed /\ SetTimer /\ UNCHANGED fired
     \/ ~armed /\ fired' = TRUE /\ UNCHANGED timer
  /\ UNCHANGED <<done, deb, armed, h, idx, readVars, respVars, worldVars, since>>

(* Mutant: a rearm after a fire does not start the timer. *)
RecvRearmNoTimer ==
  /\ deb = "select"
  /\ h = "reset"
  /\ h' = "ready"
  /\ armed' = ~fired
  /\ UNCHANGED <<done, deb, fired, timer, trigVars, idx, readVars, respVars, worldVars, since>>

(* case rearm, received from Reset *)
RecvRearm ==
  /\ deb = "select"
  /\ h = "reset"
  /\ h' = "ready"
  /\ \/ fired /\ SetTimer /\ UNCHANGED armed
     \/ ~fired /\ armed' = TRUE /\ UNCHANGED timer
  /\ UNCHANGED <<done, deb, fired, trigVars, idx, readVars, respVars, worldVars, since>>

(* case <-timer *)
TimerFires ==
  /\ deb = "select"
  /\ timer = 0
  /\ fired' = FALSE
  /\ armed' = FALSE
  /\ timer' = Nil
  /\ deb' = "send"
  /\ UNCHANGED <<done, trigVars, h, idx, readVars, respVars, worldVars, since>>

(* handler = next(ctx): a new resolution. *)
NewResolution ==
  /\ h' = "handler"
  /\ idx' = 1
  /\ read' = [p \in Paths |-> NoData]
  /\ tracked' = {}
  /\ missed' = {}
  /\ UNCHANGED registered

(* changesCh <- struct{}{} is received by the select of the handler. *)
Deliver ==
  /\ deb = "send"
  /\ h = "wait"
  /\ deb' = "select"
  /\ NewResolution
  /\ since' = 0
  /\ UNCHANGED <<done, armed, fired, timer, trigVars, respVars, worldVars>>

(* case <-doneCh in either select: debounce returns and closes changesCh. *)
DebounceDone ==
  /\ deb \in {"select", "send"}
  /\ done
  /\ deb' = "closed"
  /\ UNCHANGED <<done, armed, fired, timer, trigVars, h, idx, readVars, respVars, worldVars, since>>

-----------------------------------------------------------------------------
(* The response handler. *)

(* The transport asks for the next response. *)
CallHandler ==
  /\ h = "idle"
  /\ h' = "handler"
  /\ UNCHANGED <<done, debVars, trigVars, idx, readVars, respVars, worldVars, since>>

(* The resolvers of a path read its data. *)
Resolve(p) ==
  /\ Resolving
  /\ read[p] = NoData
  /\ read' = [read EXCEPT ![p] = world[p]]
  /\ UNCHANGED <<done, debVars, trigVars, h, idx, tracked, registered, missed,
                 respVars, worldVars, since>>

(* trackObject: the resolver registers what it has read, with the lock.  A *)
(* change since it was read stays unseen unless its event is still to be   *)
(* handled.                                                                *)
Track(p) ==
  /\ read[p] # NoData
  /\ p \notin tracked
  /\ lock = Nobody
  /\ tracked' = tracked \cup {p}
  /\ registered' = registered \cup {p}
  /\ missed' = IF /\ p \notin registered
                  /\ read[p] # world[p]
                  /\ \A t \in Triggers : trig[t] # p
               THEN missed \cup {p} ELSE missed
  /\ UNCHANGED <<done, debVars, trigVars, h, idx, read, respVars, worldVars, since>>

(* trackObject does nothing for a query that is done. *)
SkipTracking(p) ==
  /\ done
  /\ read[p] # NoData
  /\ p \notin tracked
  /\ tracked' = tracked \cup {p}
  /\ UNCHANGED <<done, debVars, trigVars, h, idx, read, registered, missed,
                 respVars, worldVars, since>>

(* A client applies a patch to what it has; a patch that was made from     *)
(* other data leaves it with something else.                               *)
ApplyPatch(have, from, to) == IF have = from THEN to ELSE Null

(* Mutant: a response with errors is not kept as the previous one. *)
RespondKeepsPrev(err) ==
  /\ h = "handler"
  /\ idx \in Paths
  /\ idx \in tracked
  /\ h' = "idle"
  /\ client' = [client EXCEPT ![idx] =
                  IF PrevData[idx] = NoData THEN read[idx]
                  ELSE ApplyPatch(@, PrevData[idx], read[idx])]
  /\ PrevData' = IF err THEN PrevData ELSE [PrevData EXCEPT ![idx] = read[idx]]
  /\ failed' = [failed EXCEPT ![idx] = err]
  /\ idx' = idx + 1
  /\ UNCHANGED <<done, debVars, trigVars, readVars, worldVars, since>>

(* handler(ctx) returns the response of the next path.  It is diffed with  *)
(* the previous one: unless there is none, only a patch is sent, and       *)
(* nothing at all when neither data nor errors are new.                    *)
Respond(err) ==
  /\ h = "handler"
  /\ idx \in Paths
  /\ idx \in tracked
  /\ \E data \in IF err THEN {read[idx], Null} ELSE {read[idx]} :
       LET prev == PrevData[idx]
       IN \/ /\ prev = data /\ ~err
             /\ UNCHANGED <<h, PrevData, client>>
          \/ /\ ~(prev = data /\ ~err)
             /\ h' = "idle"
             /\ PrevData' = [PrevData EXCEPT ![idx] = data]
             /\ client' = [client EXCEPT ![idx] =
                             IF prev = NoData \/ prev = data
                             THEN data
                             ELSE ApplyPatch(@, prev, data)]
  /\ failed' = [failed EXCEPT ![idx] = err]
  /\ idx' = idx + 1
  /\ UNCHANGED <<done, debVars, trigVars, readVars, worldVars, since>>

(* handler(ctx) returns nil: the resolution is over. *)
HandlerNil ==
  /\ h = "handler"
  /\ idx > NPaths
  /\ h' = "reset"
  /\ UNCHANGED <<done, debVars, trigVars, idx, readVars, respVars, worldVars, since>>

(* Mutant: Reset does not watch doneCh. *)
ResetIgnoresDone ==
  /\ h = "reset" /\ done /\ deb = "select"
  /\ h' = "ready"
  /\ UNCHANGED <<done, debVars, trigVars, idx, readVars, respVars, worldVars, since>>

(* Reset returns because the query is done. *)
ResetDone ==
  /\ h = "reset"
  /\ done
  /\ h' = "ready"
  /\ UNCHANGED <<done, debVars, trigVars, idx, readVars, respVars, worldVars, since>>

(* Ready returns changesCh, or a nil channel if the query is done. *)
Ready ==
  /\ h = "ready"
  /\ h' = IF done THEN "waitnil" ELSE "wait"
  /\ UNCHANGED <<done, debVars, trigVars, idx, readVars, respVars, worldVars, since>>

(* A receive from changesCh after debounce has closed it. *)
WaitClosed ==
  /\ h = "wait"
  /\ deb = "closed"
  /\ NewResolution
  /\ UNCHANGED <<done, debVars, trigVars, respVars, worldVars, since>>

(* case <-ctx.Done(): the handler returns nil and the operation is over. *)
WaitDone ==
  /\ h \in {"wait", "waitnil"}
  /\ done
  /\ h' = "finished"
  /\ UNCHANGED <<done, debVars, trigVars, idx, readVars, respVars, worldVars, since>>

-----------------------------------------------------------------------------
Debounce == RecvRearm \/ TimerFires \/ Deliver \/ DebounceDone

Handler ==
  \/ CallHandler
  \/ \E err \in BOOLEAN : Respond(err)
  \/ HandlerNil
  \/ ResetDone
  \/ Ready
  \/ WaitClosed
  \/ WaitDone

Next ==
  \/ Cancel
  \/ Tick
  \/ \E t \in Triggers : Change(t) \/ OnEvent(t) \/ Ignore(t) \/ TriggerDone(t) \/ RecvFire(t)
  \/ Debounce
  \/ Handler
  \/ \E p \in Paths : Resolve(p) \/ Track(p) \/ SkipTracking(p)

Spec == Init /\ [][Next]_vars

(* Goroutines that can run do, reads return, a mutex that is free is given *)
(* to somebody who waits for it, the transport goes on asking for          *)
(* responses, and time passes.  Nothing obliges the data to change or the  *)
(* client to leave.                                                        *)
Fairness ==
  /\ WF_vars(Tick)
  /\ WF_vars(Debounce)
  /\ WF_vars(Handler)
  /\ \A p \in Paths : WF_vars(Resolve(p)) /\ WF_vars(Track(p) \/ SkipTracking(p))
  /\ \A t \in Triggers : WF_vars(OnEvent(t) \/ Ignore(t)) /\ WF_vars(RecvFire(t) \/ TriggerDone(t))

FairSpec == Spec /\ Fairness

-----------------------------------------------------------------------------
TypeOK ==
  /\ done \in BOOLEAN
  /\ deb \in {"select", "send", "closed"}
  /\ armed \in BOOLEAN
  /\ fired \in BOOLEAN
  /\ timer \in 0..Throttle \cup {Nil}
  /\ trig \in [Triggers -> Paths \cup {NoEvent}]
  /\ lock \in Triggers \cup {Nobody}
  /\ lock # Nobody => trig[lock] \in registered
  /\ h \in {"idle", "handler", "reset", "ready", "wait", "waitnil", "finished"}
  /\ idx \in 1..(NPaths + 1)
  /\ read \in [Paths -> Data \cup {NoData}]
  /\ \A p \in tracked : p \in Paths /\ read[p] # NoData
  /\ registered \subseteq Paths
  /\ missed \subseteq Paths
  /\ PrevData \in [Paths -> Data \cup {NoData}]
  /\ client \in [Paths -> Data \cup {NoData}]
  /\ failed \in [Paths -> BOOLEAN]
  /\ world \in [Paths -> Values]
  /\ changes \in 0..MaxChanges
  /\ since \in 0..Throttle

(* The debounce goroutine never makes Trigger wait for a resolver: it is   *)
(* armed, has a timer or sends a refresh only while the transport waits    *)
(* for that refresh.  (Event handlers call Trigger holding the lock that   *)
(* resolvers need to track an object, so the opposite would deadlock.)     *)
RefreshIsAwaited ==
  (armed \/ timer # Nil \/ deb = "send") => (done \/ h \in {"ready", "wait"})

(* The transport never waits for a refresh that nobody will send: while it *)
(* waits, debounce is armed, or has a timer, or is about to send.          *)
WaiterIsServed ==
  h \in {"ready", "wait"} => (done \/ armed \/ timer # Nil \/ deb = "send")

(* debounce has a refresh in hand exactly while the transport waits for    *)
(* one: neither waits for the other in vain, however triggers, the timer   *)
(* and the steps of the handler interleave.                                *)
RefreshMatchesWaiter == RefreshIsAwaited /\ WaiterIsServed

(* A refresh is owed from the moment that the event of an object that the  *)
(* query has registered is on its way to the moment that the handler       *)
(* receives from changesCh.                                                *)
RefreshOwed ==
  (\E t \in Triggers : trig[t] \in registered) \/ fired \/ timer # Nil \/ deb = "send"

(* No trigger is lost (runtime.go:54-59), and without one a change is      *)
(* missed only between a read and the registration of what it read: if the *)
(* last response of a path is out of date, then a refresh is under way (an *)
(* event of a registered path, fired, the timer or the send) or this       *)
(* resolution will still return the path, as it is now or before its first *)
(* registration, unless it changed in that gap.                            *)
NoLostChange ==
  \A p \in Paths : PrevData[p] # world[p] =>
    \/ done
    \/ failed[p]
    \/ p \in missed
    \/ RefreshOwed
    \/ Resolving /\ idx <= p /\ (p \notin registered \/ read[p] \in {NoData, world[p]})

(* The patches add up: what the client has rebuilt from full responses and *)
(* patches is what the server will diff the next response with, whatever   *)
(* responses were suppressed or carried errors.                            *)
ClientInSync == client = PrevData

Phase == IF Resolving THEN "resolve" ELSE IF h = "finished" THEN "end" ELSE "wait"

Promise == INSTANCE LiveQueryPromise WITH owed <- RefreshOwed, phase <- Phase

(* Triggers, the two goroutines, the timer and the channels keep the       *)
(* promise of LiveQueryPromise: in no order of their steps is a trigger    *)
(* lost before its refresh, is there a refresh without one, or are two of  *)
(* them too close (runtime.go:44-134).                                     *)
KeepsPromise == Promise!Spec

(* Two refreshes are at least a throttle interval apart (runtime.go:47).   *)
Throttled == [][deb = "send" /\ deb' = "select" => since >= Throttle]_vars

(* Once the data stops changing the client gets to see it, unless the      *)
(* query is done, the last response of the path had errors, or the data    *)
(* changed between its read and its first registration.                    *)
Convergence == \A p \in Paths : <>[](done \/ failed[p] \/ p \in missed \/ client[p] = world[p])

(* "A live query that is updated when the underlying data changes"         *)
(* (codegen.go:103): the same without that last exception.                 *)
UpdatedWhenDataChanges == \A p \in Paths : <>[](done \/ failed[p] \/ client[p] = world[p])

(* An event handler is not held up for ever by a query.                    *)
TriggerReturns == \A t \in Triggers : trig[t] # NoEvent ~> trig[t] = NoEvent

(* When the request ends, so do the response handler and the goroutine.    *)
Terminates == done ~> (h = "finished" /\ deb = "closed")

(* Nobody waits for ever: not the event handler that a query holds up, and *)
(* nothing of a query whose request has ended.                             *)
AllReturn == TriggerReturns /\ Terminates
=============================================================================
