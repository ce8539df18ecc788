-------------------------- MODULE LiveQueryProofs --------------------------
(***************************************************************************)
(* Proofs about LiveQuery for any number of paths, any set of informer     *)
(* goroutines and values, any throttle interval and number of changes.     *)
(***************************************************************************)
EXTENDS LiveQuery, TLAPS

-----------------------------------------------------------------------------
(* The type invariant.                                                     *)

LEMMA TypeInit == Init => TypeOK
<1> SUFFICES ASSUME Init PROVE TypeOK
  OBVIOUS
<1>1. /\ done \in BOOLEAN /\ armed \in BOOLEAN /\ fired \in BOOLEAN
      /\ deb \in {"select", "send", "closed"}
      /\ h \in {"idle", "handler", "reset", "ready", "wait", "waitnil", "finished"}
  BY DEF Init
<1>2. timer \in 0..Throttle \cup {Nil}
  BY DEF Init
<1>3. idx \in 1..(NPaths + 1) /\ changes \in 0..MaxChanges /\ since \in 0..Throttle
  BY LiveQueryAssumption DEF Init
<1>4. /\ trig \in [Triggers -> Paths \cup {NoEvent}] /\ failed \in [Paths -> BOOLEAN]
      /\ lock = Nobody /\ tracked = {} /\ registered = {} /\ missed = {}
  BY DEF Init
<1>5. /\ read \in [Paths -> Data \cup {NoData}]
      /\ PrevData \in [Paths -> Data \cup {NoData}]
      /\ client \in [Paths -> Data \cup {NoData}]
  BY DEF Init
<1>6. world \in [Paths -> Values]
  BY LiveQueryAssumption DEF Init
<1> QED
  BY <1>1, <1>2, <1>3, <1>4, <1>5, <1>6 DEF TypeOK

LEMMA RespondType ==
  ASSUME TypeOK, NEW err \in BOOLEAN, Respond(err)
  PROVE  TypeOK'
<1>1. idx \in Paths /\ idx + 1 \in 1..(NPaths + 1)
  BY LiveQueryAssumption DEF Respond, Paths
<1>2. PICK data \in (IF err THEN {read[idx], Null} ELSE {read[idx]}) :
        \/ UNCHANGED <<h, PrevData, client>>
        \/ /\ h' = "idle"
           /\ PrevData' = [PrevData EXCEPT ![idx] = data]
           /\ client' = [client EXCEPT ![idx] =
                           IF PrevData[idx] = NoData \/ PrevData[idx] = data
                           THEN data
                           ELSE ApplyPatch(@, PrevData[idx], data)]
  BY DEF Respond
<1>3. data \in Data
  BY <1>1 DEF Respond, TypeOK, Data
<1>4. /\ h' \in {"idle", "handler", "reset", "ready", "wait", "waitnil", "finished"}
      /\ PrevData' \in [Paths -> Data \cup {NoData}]
      /\ client' \in [Paths -> Data \cup {NoData}]
  BY <1>1, <1>2, <1>3 DEF TypeOK, ApplyPatch, Data
<1>5. failed' \in [Paths -> BOOLEAN] /\ idx' \in 1..(NPaths + 1)
  BY <1>1 DEF Respond, TypeOK
<1> QED
  BY <1>4, <1>5 DEF Respond, TypeOK, debVars, trigVars, readVars, worldVars

LEMMA TypeInductive == TypeOK /\ [Next]_vars => TypeOK'
<1> SUFFICES ASSUME TypeOK, [Next]_vars PROVE TypeOK'
  OBVIOUS
<1> USE LiveQueryAssumption
<1>1. CASE Cancel
  BY <1>1 DEF Cancel, TypeOK, debVars, trigVars, readVars, respVars, worldVars
<1>2. CASE Tick
  BY <1>2 DEF Tick, TypeOK, trigVars, readVars, respVars, worldVars, Nil
<1>3. ASSUME NEW t \in Triggers, Change(t) PROVE TypeOK'
  <2>1. world' \in [Paths -> Values]
    BY <1>3 DEF Change, TypeOK
  <2>2. changes' \in 0..MaxChanges
    BY <1>3 DEF Change, TypeOK
  <2>3. /\ trig' \in [Triggers -> Paths \cup {NoEvent}]
        /\ \A u \in Triggers : u # t => trig'[u] = trig[u]
    BY <1>3 DEF Change, TypeOK
  <2>5. NoEvent \notin registered
    BY DEF TypeOK, NoEvent, Paths
  <2>4. lock' # Nobody => trig'[lock'] \in registered'
    BY <1>3, <2>3, <2>5 DEF Change, TypeOK, readVars
  <2> QED
    BY <1>3, <2>1, <2>2, <2>3, <2>4 DEF Change, TypeOK, debVars, readVars, respVars
<1>4. ASSUME NEW t \in Triggers, TriggerDone(t) PROVE TypeOK'
  <2>1. trig' \in [Triggers -> Paths \cup {NoEvent}] /\ lock' = Nobody
    BY <1>4 DEF TriggerDone, Triggered, TypeOK
  <2> QED
    BY <1>4, <2>1 DEF TriggerDone, TypeOK, debVars, readVars, respVars, worldVars
<1>5. ASSUME NEW t \in Triggers, RecvFire(t) PROVE TypeOK'
  <2>1. timer' \in 0..Throttle \cup {Nil}
    BY <1>5 DEF RecvFire, SetTimer, TypeOK
  <2>2. fired' \in BOOLEAN /\ trig' \in [Triggers -> Paths \cup {NoEvent}] /\ lock' = Nobody
    BY <1>5 DEF RecvFire, Triggered, TypeOK
  <2> QED
    BY <1>5, <2>1, <2>2 DEF RecvFire, TypeOK, readVars, respVars, worldVars
<1>6. CASE RecvRearm
  <2>1. timer' \in 0..Throttle \cup {Nil}
    BY <1>6 DEF RecvRearm, SetTimer, TypeOK
  <2>2. armed' \in BOOLEAN
    BY <1>6 DEF RecvRearm, TypeOK
  <2> QED
    BY <1>6, <2>1, <2>2 DEF RecvRearm, TypeOK, trigVars, readVars, respVars, worldVars
<1>7. CASE TimerFires
  BY <1>7 DEF TimerFires, TypeOK, trigVars, readVars, respVars, worldVars
<1>8. CASE Deliver
  BY <1>8 DEF Deliver, NewResolution, TypeOK, trigVars, readVars, respVars, worldVars
<1>9. CASE DebounceDone
  BY <1>9 DEF DebounceDone, TypeOK, trigVars, readVars, respVars, worldVars
<1>10. CASE CallHandler
  BY <1>10 DEF CallHandler, TypeOK, debVars, trigVars, readVars, respVars, worldVars
<1>11. ASSUME NEW err \in BOOLEAN, Respond(err) PROVE TypeOK'
  BY <1>11, RespondType
<1>12. CASE HandlerNil
  BY <1>12 DEF HandlerNil, TypeOK, debVars, trigVars, readVars, respVars, worldVars
<1>13. CASE ResetDone
  BY <1>13 DEF ResetDone, TypeOK, debVars, trigVars, readVars, respVars, worldVars
<1>14. CASE Ready
  BY <1>14 DEF Ready, TypeOK, debVars, trigVars, readVars, respVars, worldVars
<1>15. CASE WaitClosed
  BY <1>15 DEF WaitClosed, NewResolution, TypeOK, debVars, trigVars, readVars, respVars, worldVars
<1>16. CASE WaitDone
  BY <1>16 DEF WaitDone, TypeOK, debVars, trigVars, readVars, respVars, worldVars
<1>17. ASSUME NEW p \in Paths, Resolve(p) PROVE TypeOK'
  <2>1. read' \in [Paths -> Data \cup {NoData}] /\ read' = [read EXCEPT ![p] = world[p]]
    BY <1>17 DEF Resolve, TypeOK, Data
  <2>2. \A q \in tracked' : q \in Paths /\ read'[q] # NoData
    BY <1>17, <2>1 DEF Resolve, TypeOK, Data
  <2> QED
    BY <1>17, <2>1, <2>2 DEF Resolve, TypeOK, debVars, trigVars, respVars, worldVars
<1>18. ASSUME NEW t \in Triggers, OnEvent(t) PROVE TypeOK'
  BY <1>18 DEF OnEvent, TypeOK, debVars, readVars, respVars, worldVars
<1>19. ASSUME NEW p \in Paths, Track(p) PROVE TypeOK'
  <2>1. tracked' = tracked \cup {p} /\ registered' = registered \cup {p} /\ missed' \subseteq missed \cup {p}
    BY <1>19 DEF Track
  <2>2. UNCHANGED <<trig, lock, read>> /\ read[p] # NoData
    BY <1>19 DEF Track, trigVars
  <2> QED
    BY <1>19, <2>1, <2>2 DEF Track, TypeOK, debVars, trigVars, respVars, worldVars
<1>20. CASE UNCHANGED vars
  BY <1>20 DEF vars, TypeOK
<1>21. ASSUME NEW t \in Triggers, Ignore(t) PROVE TypeOK'
  <2>1. trig' \in [Triggers -> Paths \cup {NoEvent}] /\ lock' = Nobody /\ registered' \subseteq Paths
    BY <1>21 DEF Ignore, TypeOK
  <2> QED
    BY <1>21, <2>1 DEF Ignore, TypeOK, debVars, respVars, worldVars
<1>22. ASSUME NEW p \in Paths, SkipTracking(p) PROVE TypeOK'
  BY <1>22 DEF SkipTracking, TypeOK, debVars, trigVars, respVars, worldVars
<1> QED
  BY <1>1, <1>2, <1>3, <1>4, <1>5, <1>6, <1>7, <1>8, <1>9, <1>10, <1>11, <1>12, <1>13,
     <1>14, <1>15, <1>16, <1>17, <1>18, <1>19, <1>20, <1>21, <1>22 DEF Next, Debounce, Handler

(* The variables of a live query keep their types. *)
THEOREM TypeCorrect == Spec => []TypeOK
BY TypeInit, TypeInductive, PTL DEF Spec

-----------------------------------------------------------------------------
(* The handshake of debounce and the response handler.                     *)

(* Nothing is left over from before the timer fired when a refresh is sent. *)
SendClears == deb = "send" => ~armed /\ ~fired /\ timer = Nil

(* debounce returns only when the query is done. *)
ClosedWhenDone == deb = "closed" => done

Handshake == ClosedWhenDone /\ SendClears /\ RefreshIsAwaited /\ WaiterIsServed

LEMMA HandshakeInductive == TypeOK /\ Handshake /\ [Next]_vars => Handshake'
<1> SUFFICES ASSUME TypeOK, Handshake, [Next]_vars PROVE Handshake'
  OBVIOUS
<1> USE LiveQueryAssumption DEF Handshake, ClosedWhenDone, SendClears, RefreshIsAwaited, WaiterIsServed
<1>1. CASE Cancel
  BY <1>1 DEF Cancel, debVars
<1>2. CASE Tick
  BY <1>2 DEF Tick, TypeOK, Nil
<1>3. ASSUME NEW t \in Triggers, Change(t) PROVE Handshake'
  BY <1>3 DEF Change, debVars
<1>4. ASSUME NEW t \in Triggers, TriggerDone(t) PROVE Handshake'
  BY <1>4 DEF TriggerDone, debVars
<1>5. ASSUME NEW t \in Triggers, RecvFire(t) PROVE Handshake'
  BY <1>5 DEF RecvFire, SetTimer, Nil
<1>6. CASE RecvRearm
  BY <1>6 DEF RecvRearm, SetTimer, Nil
<1>7. CASE TimerFires
  BY <1>7 DEF TimerFires, Nil
<1>8. CASE Deliver
  BY <1>8 DEF Deliver, NewResolution
<1>9. CASE DebounceDone
  BY <1>9 DEF DebounceDone
<1>10. CASE CallHandler
  BY <1>10 DEF CallHandler, debVars
<1>11. ASSUME NEW err \in BOOLEAN, Respond(err) PROVE Handshake'
  <2>1. h = "handler" /\ h' \in {"handler", "idle"} /\ UNCHANGED <<done, deb, armed, fired, timer>>
    BY <1>11 DEF Respond, debVars
  <2> QED
    BY <2>1
<1>12. CASE HandlerNil
  BY <1>12 DEF HandlerNil, debVars
<1>13. CASE ResetDone
  BY <1>13 DEF ResetDone, debVars
<1>14. CASE Ready
  BY <1>14 DEF Ready, debVars
<1>15. CASE WaitClosed
  BY <1>15 DEF WaitClosed, NewResolution, debVars
<1>16. CASE WaitDone
  BY <1>16 DEF WaitDone, debVars
<1>17. ASSUME NEW p \in Paths, Resolve(p) PROVE Handshake'
  BY <1>17 DEF Resolve, debVars
<1>18. ASSUME NEW t \in Triggers, OnEvent(t) PROVE Handshake'
  BY <1>18 DEF OnEvent, debVars
<1>19. ASSUME NEW p \in Paths, Track(p) PROVE Handshake'
  BY <1>19 DEF Track, debVars
<1>20. CASE UNCHANGED vars
  BY <1>20 DEF vars
<1>21. ASSUME NEW t \in Triggers, Ignore(t) PROVE Handshake'
  BY <1>21 DEF Ignore, debVars
<1>22. ASSUME NEW p \in Paths, SkipTracking(p) PROVE Handshake'
  BY <1>22 DEF SkipTracking, debVars
<1> QED
  BY <1>1, <1>2, <1>3, <1>4, <1>5, <1>6, <1>7, <1>8, <1>9, <1>10, <1>11, <1>12, <1>13,
     <1>14, <1>15, <1>16, <1>17, <1>18, <1>19, <1>20, <1>21, <1>22 DEF Next, Debounce, Handler

LEMMA HandshakeInvariant == Spec => []Handshake
<1>1. Init => Handshake
  BY DEF Init, Handshake, ClosedWhenDone, SendClears, RefreshIsAwaited, WaiterIsServed
<1> QED
  BY <1>1, TypeInit, TypeInductive, HandshakeInductive, PTL DEF Spec

(* Debounce has a refresh in hand exactly while the handler waits for one: *)
(* a Trigger call never has to wait for a resolver, and a handler that     *)
(* waits is not forgotten.                                                 *)
THEOREM WaitersMatched == Spec => []RefreshMatchesWaiter
<1>1. Handshake => RefreshMatchesWaiter
  BY DEF Handshake, RefreshMatchesWaiter
<1> QED
  BY <1>1, HandshakeInvariant, PTL

-----------------------------------------------------------------------------
(* No change is lost.                                                      *)

(* A path is registered before it is returned the first time. *)
RegisteredFirst ==
  /\ done \/ tracked \subseteq registered
  /\ \A p \in Paths : p \notin registered => done \/ (Resolving /\ idx <= p)

(* What a resolution has read and registered and not yet returned is up to *)
(* date, or changed in the gap between the two, or a refresh is under way. *)
(* NoLostChange alone is not inductive: a response without errors ends the *)
(* excuse failed[p], and may then return old data.                         *)
StaleReadPending ==
  \A p \in Paths :
    Resolving /\ idx <= p /\ p \in registered /\ read[p] \notin {NoData, world[p]}
      => done \/ RefreshOwed \/ p \in missed

(* Nothing revives a query that is done. *)
LEMMA DoneStays == [Next]_vars /\ done => done'
BY DEF Next, Debounce, Handler, Cancel, Tick, Change, OnEvent, Ignore, TriggerDone, RecvFire,
       RecvRearm, TimerFires, Deliver, DebounceDone, CallHandler, Respond, HandlerNil,
       ResetDone, Ready, WaitClosed, WaitDone, Resolve, Track, SkipTracking, vars

(* A refresh that is under way stays so until a new resolution starts. *)
LEMMA PendingStays ==
  ASSUME TypeOK, [Next]_vars, RefreshOwed
  PROVE  RefreshOwed' \/ done' \/ Deliver
<1> USE LiveQueryAssumption
<1>1. CASE Cancel
  BY <1>1 DEF Cancel
<1>2. CASE Tick
  BY <1>2 DEF Tick, TypeOK, Nil, RefreshOwed, trigVars, readVars
<1>3. ASSUME NEW t \in Triggers, Change(t) PROVE RefreshOwed'
  <2>1. trig[t] \notin registered
    BY <1>3 DEF Change, TypeOK, NoEvent, Paths
  <2>2. \A u \in Triggers : u # t => trig'[u] = trig[u]
    BY <1>3 DEF Change, TypeOK
  <2> QED
    BY <1>3, <2>1, <2>2 DEF Change, RefreshOwed, debVars, readVars
<1>4. ASSUME NEW t \in Triggers, TriggerDone(t) PROVE done'
  BY <1>4 DEF TriggerDone
<1>5. ASSUME NEW t \in Triggers, RecvFire(t) PROVE RefreshOwed'
  BY <1>5 DEF RecvFire, Triggered, SetTimer, TypeOK, Nil, RefreshOwed
<1>6. CASE RecvRearm
  BY <1>6 DEF RecvRearm, SetTimer, TypeOK, Nil, RefreshOwed, trigVars, readVars
<1>7. CASE TimerFires
  BY <1>7 DEF TimerFires, RefreshOwed, trigVars
<1>8. CASE DebounceDone
  BY <1>8 DEF DebounceDone
<1>9. CASE \/ (Handler /\ ~WaitClosed) \/ UNCHANGED vars \/ (\E t \in Triggers : OnEvent(t))
           \/ \E p \in Paths : Resolve(p) \/ SkipTracking(p)
  <2>1. UNCHANGED <<trig, registered, deb, fired, timer>>
    BY <1>9 DEF Handler, CallHandler, Respond, HandlerNil, ResetDone, Ready,
                WaitDone, OnEvent, Resolve, SkipTracking, vars, debVars, trigVars, readVars
  <2> QED
    BY <2>1 DEF RefreshOwed
<1>10. CASE WaitClosed
  BY <1>10 DEF WaitClosed, NewResolution, RefreshOwed, debVars, trigVars
<1>11. ASSUME NEW p \in Paths, Track(p) PROVE RefreshOwed'
  BY <1>11 DEF Track, RefreshOwed, debVars, trigVars
<1>12. ASSUME NEW t \in Triggers, Ignore(t) PROVE RefreshOwed' \/ done'
  <2>1. CASE done
    BY <1>12, <2>1 DEF Ignore
  <2>2. CASE ~done
    <3>1. trig[t] \notin registered /\ UNCHANGED <<registered, deb, fired, timer>>
      BY <1>12, <2>2 DEF Ignore, debVars
    <3>2. \A u \in Triggers : u # t => trig'[u] = trig[u]
      BY <1>12 DEF Ignore, TypeOK
    <3> QED
      BY <3>1, <3>2 DEF RefreshOwed
  <2> QED
    BY <2>1, <2>2
<1> QED
  BY <1>1, <1>2, <1>3, <1>4, <1>5, <1>6, <1>7, <1>8, <1>9, <1>10, <1>11, <1>12 DEF Next, Debounce

(* A step that changes the data of a registered path leaves its event on   *)
(* the way, and changes nothing else of a resolution.                      *)
LEMMA ChangePends ==
  ASSUME TypeOK, [Next]_vars, world' # world
  PROVE  /\ UNCHANGED <<done, h, idx, read, tracked, registered, missed, PrevData, failed>>
         /\ \A p \in Paths : p \in registered /\ world'[p] # world[p] => RefreshOwed'
<1>1. PICK t \in Triggers : Change(t)
  BY DEF Next, Debounce, Handler, Cancel, Tick, OnEvent, Ignore, TriggerDone, RecvFire, RecvRearm,
         TimerFires, Deliver, DebounceDone, CallHandler, Respond, HandlerNil, ResetDone, Ready,
         WaitClosed, WaitDone, Resolve, Track, SkipTracking, vars, worldVars
<1>2. UNCHANGED <<done, h, idx, read, tracked, registered, missed, PrevData, failed>>
  BY <1>1 DEF Change, readVars, respVars
<1>3. ASSUME NEW p \in Paths, p \in registered, world'[p] # world[p] PROVE RefreshOwed'
  <2>1. trig'[t] = p
    BY <1>1, <1>3 DEF Change, TypeOK
  <2> QED
    BY <1>2, <1>3, <2>1 DEF RefreshOwed
<1> QED
  BY <1>2, <1>3

(* What a step does to the resolution in progress. *)
LEMMA ResolutionStep ==
  ASSUME TypeOK, RegisteredFirst, [Next]_vars, world' = world, ~done', NEW p \in Paths
  PROVE  \/ /\ UNCHANGED <<idx, read, registered, missed, PrevData, failed>>
            /\ Resolving' <=> Resolving
         \/ /\ UNCHANGED <<idx, read, registered, missed, PrevData, failed>>
            /\ ~Resolving' /\ idx = NPaths + 1
         \/ /\ UNCHANGED <<idx, registered, missed, PrevData, failed>> /\ Resolving /\ Resolving'
            /\ read'[p] = read[p] \/ read'[p] = world[p]
         \/ /\ UNCHANGED <<idx, read, PrevData, failed>> /\ (Resolving' <=> Resolving)
            /\ \/ p \in registered /\ p \in registered' /\ (p \in missed' <=> p \in missed)
               \/ p \notin registered /\ p \notin registered' /\ (p \in missed' <=> p \in missed)
               \/ /\ p \notin registered /\ p \in registered' /\ Resolving /\ idx <= p
                  /\ read[p] \in {NoData, world[p]} \/ p \in missed' \/ RefreshOwed'
         \/ /\ Resolving' /\ idx' = 1 /\ read'[p] = NoData
            /\ UNCHANGED <<registered, PrevData, failed>>
         \/ /\ Resolving /\ Resolving' /\ idx' = idx + 1 /\ UNCHANGED <<read, registered, missed>>
            /\ p # idx => PrevData'[p] = PrevData[p] /\ failed'[p] = failed[p]
            /\ p = idx => /\ read[p] # NoData /\ p \in registered
                          /\ failed'[p] \/ PrevData'[p] = read[p]
<1> USE LiveQueryAssumption
<1>0. ~done
  BY DoneStays
<1>1. CASE Cancel \/ Tick \/ RecvRearm \/ TimerFires \/ DebounceDone
           \/ CallHandler \/ ResetDone \/ Ready \/ WaitDone \/ UNCHANGED vars
           \/ (\E t \in Triggers : Change(t) \/ OnEvent(t) \/ Ignore(t) \/ TriggerDone(t) \/ RecvFire(t))
           \/ (\E q \in Paths : SkipTracking(q))
  BY <1>0, <1>1 DEF Cancel, Tick, Change, OnEvent, Ignore, TriggerDone, RecvFire, RecvRearm,
              TimerFires, DebounceDone, CallHandler, ResetDone, Ready, WaitDone, SkipTracking,
              vars, readVars, respVars, Resolving
<1>2. CASE HandlerNil
  <2>1. idx = NPaths + 1
    BY <1>2 DEF HandlerNil, TypeOK
  <2> QED
    BY <1>2, <2>1 DEF HandlerNil, readVars, respVars, Resolving
<1>3. ASSUME NEW q \in Paths, Resolve(q)
      PROVE  /\ UNCHANGED <<idx, registered, missed, PrevData, failed>> /\ Resolving /\ Resolving'
             /\ read'[p] = read[p] \/ read'[p] = world[p]
  BY <1>3 DEF Resolve, TypeOK, respVars, Resolving
<1>4. CASE Deliver \/ WaitClosed
  BY <1>4 DEF Deliver, WaitClosed, NewResolution, respVars, Resolving
<1>5. ASSUME NEW err \in BOOLEAN, Respond(err)
      PROVE  /\ Resolving /\ Resolving' /\ idx' = idx + 1 /\ UNCHANGED <<read, registered, missed>>
             /\ p # idx => PrevData'[p] = PrevData[p] /\ failed'[p] = failed[p]
             /\ p = idx => /\ read[p] # NoData /\ p \in registered
                           /\ failed'[p] \/ PrevData'[p] = read[p]
  <2>1. /\ idx' = idx + 1 /\ UNCHANGED <<read, registered, missed>> /\ idx \in Paths
        /\ read[idx] # NoData /\ idx \in registered
        /\ failed' = [failed EXCEPT ![idx] = err]
    BY <1>0, <1>5 DEF Respond, TypeOK, readVars, RegisteredFirst
  <2>2. Resolving /\ Resolving'
    BY <1>5 DEF Respond, Resolving
  <2>3. PICK data \in (IF err THEN {read[idx], Null} ELSE {read[idx]}) :
          \/ PrevData[idx] = data /\ UNCHANGED PrevData
          \/ PrevData' = [PrevData EXCEPT ![idx] = data]
    BY <1>5 DEF Respond
  <2>4. failed \in [Paths -> BOOLEAN] /\ PrevData \in [Paths -> Data \cup {NoData}]
    BY DEF TypeOK
  <2>5. failed'[idx] = err /\ PrevData'[idx] = data
    BY <2>1, <2>3, <2>4
  <2>6. p # idx => PrevData'[p] = PrevData[p] /\ failed'[p] = failed[p]
    BY <2>1, <2>3, <2>4
  <2>7. err \/ data = read[idx]
    BY <2>3
  <2> QED
    BY <2>1, <2>2, <2>5, <2>6, <2>7
<1>6. ASSUME NEW q \in Paths, Track(q)
      PROVE  /\ UNCHANGED <<idx, read, PrevData, failed>> /\ (Resolving' <=> Resolving)
             /\ \/ p \in registered /\ p \in registered' /\ (p \in missed' <=> p \in missed)
                \/ p \notin registered /\ p \notin registered' /\ (p \in missed' <=> p \in missed)
                \/ /\ p \notin registered /\ p \in registered' /\ Resolving /\ idx <= p
                   /\ read[p] \in {NoData, world[p]} \/ p \in missed' \/ RefreshOwed'
  <2>1. /\ UNCHANGED <<idx, read, PrevData, failed, h, trig>>
        /\ registered' = registered \cup {q}
        /\ missed' = IF q \notin registered /\ read[q] # world[q] /\ (\A t \in Triggers : trig[t] # q)
                     THEN missed \cup {q} ELSE missed
    BY <1>6 DEF Track, respVars, trigVars
  <2>2. Resolving' <=> Resolving
    BY <2>1 DEF Resolving
  <2>3. CASE p # q \/ p \in registered
    BY <2>1, <2>2, <2>3
  <2>4. CASE p = q /\ p \notin registered
    <3>1. Resolving /\ idx <= p
      BY <1>0, <2>4 DEF RegisteredFirst
    <3>2. CASE \E t \in Triggers : trig[t] = p
      <4>1. RefreshOwed'
        BY <2>1, <2>4, <3>2 DEF RefreshOwed
      <4> QED
        BY <2>1, <2>2, <2>4, <3>1, <4>1
    <3>3. CASE \A t \in Triggers : trig[t] # p
      BY <2>1, <2>2, <2>4, <3>1, <3>3
    <3> QED
      BY <3>2, <3>3
  <2> QED
    BY <2>3, <2>4
<1> QED
  BY <1>1, <1>2, <1>3, <1>4, <1>5, <1>6 DEF Next, Debounce, Handler

LEMMA DeliverResolves ==
  ASSUME Deliver, NEW p \in Paths
  PROVE  Resolving' /\ idx' = 1 /\ read'[p] = NoData
BY DEF Deliver, NewResolution, Resolving

LEMMA RegisteredInductive ==
  TypeOK /\ RegisteredFirst /\ [Next]_vars => RegisteredFirst'
<1> SUFFICES ASSUME TypeOK, RegisteredFirst, [Next]_vars, ~done' PROVE RegisteredFirst'
  BY DEF RegisteredFirst
<1>0. ~done /\ idx \in Nat /\ Paths \subseteq Nat /\ NPaths \in Nat
  BY DoneStays, LiveQueryAssumption DEF TypeOK, Paths
<1>1. tracked' \subseteq registered'
  BY <1>0 DEF RegisteredFirst, Next, Debounce, Handler, Cancel, Tick, Change, OnEvent, Ignore,
       TriggerDone, RecvFire, RecvRearm, TimerFires, Deliver, DebounceDone, CallHandler, Respond,
       HandlerNil, ResetDone, Ready, WaitClosed, WaitDone, Resolve, Track, SkipTracking,
       NewResolution, vars, readVars
<1>2. ASSUME NEW p \in Paths, p \notin registered' PROVE Resolving' /\ idx' <= p
  <2>1. CASE world' = world
    <3>1. p \notin registered => Resolving /\ idx <= p
      BY <1>0 DEF RegisteredFirst
    <3>2. p >= 1 /\ p <= NPaths
      BY LiveQueryAssumption DEF Paths
    <3> QED
      BY <1>0, <1>2, <2>1, <3>1, <3>2, ResolutionStep
  <2>2. CASE world' # world
    BY <1>0, <1>2, <2>2, ChangePends DEF RegisteredFirst, Resolving
  <2> QED
    BY <2>1, <2>2
<1> QED
  BY <1>1, <1>2 DEF RegisteredFirst

LEMMA StaleReadInductive ==
  TypeOK /\ RegisteredFirst /\ StaleReadPending /\ [Next]_vars => StaleReadPending'
<1> SUFFICES ASSUME TypeOK, RegisteredFirst, StaleReadPending, [Next]_vars, NEW p \in Paths,
                    Resolving', idx' <= p, p \in registered', read'[p] \notin {NoData, world'[p]},
                    ~done', ~RefreshOwed'
             PROVE  p \in missed'
  BY DEF StaleReadPending
<1>0. ~done
  BY DoneStays
<1>1. CASE world' # world
  <2>1. /\ UNCHANGED <<h, idx, read, registered, missed>>
        /\ p \in registered /\ world'[p] # world[p] => RefreshOwed'
    BY <1>1, ChangePends
  <2>2. Resolving /\ world'[p] = world[p]
    BY <2>1 DEF Resolving
  <2>3. ~RefreshOwed
    <3>1. ~Deliver
      BY <1>1 DEF Deliver, worldVars
    <3> QED
      BY <3>1, PendingStays
  <2> QED
    BY <1>0, <2>1, <2>2, <2>3 DEF StaleReadPending
<1>2. CASE world' = world /\ RefreshOwed
  BY <1>2, PendingStays, DeliverResolves
<1>3. CASE world' = world /\ ~RefreshOwed
  <2>1. Resolving /\ idx <= p /\ p \in registered /\ read[p] \notin {NoData, world[p]} => p \in missed
    BY <1>0, <1>3 DEF StaleReadPending
  <2>2. idx \in Int /\ p \in Int /\ NPaths \in Int
    BY LiveQueryAssumption DEF TypeOK, Paths
  <2>3. read[p] \in {NoData, world[p]} \/ read[p] \notin {NoData, world[p]}
    OBVIOUS
  <2> QED
    BY <1>0, <1>3, <2>1, <2>2, <2>3, ResolutionStep DEF Paths
<1> QED
  BY <1>1, <1>2, <1>3

LEMMA NoLostChangeInductive ==
  TypeOK /\ RegisteredFirst /\ StaleReadPending /\ NoLostChange /\ [Next]_vars => NoLostChange'
<1> SUFFICES ASSUME TypeOK, RegisteredFirst, StaleReadPending, NoLostChange, [Next]_vars,
                    NEW p \in Paths, PrevData'[p] # world'[p],
                    ~done', ~failed'[p], p \notin missed', ~RefreshOwed'
             PROVE  Resolving' /\ idx' <= p /\ (p \notin registered' \/ read'[p] \in {NoData, world'[p]})
  BY DEF NoLostChange
<1>2. ~done
  BY DoneStays
<1>3. idx \in Int /\ p \in Int /\ NPaths \in Int /\ p >= 1 /\ p <= NPaths
  BY LiveQueryAssumption DEF TypeOK, Paths
<1>r. p \notin registered => Resolving /\ idx <= p
  BY <1>2 DEF RegisteredFirst
<1>1. CASE world' # world
  <2>1. /\ UNCHANGED <<h, idx, read, registered, missed, PrevData, failed>>
        /\ p \in registered /\ world'[p] # world[p] => RefreshOwed'
    BY <1>1, ChangePends
  <2>2. ~RefreshOwed
    <3>1. ~Deliver
      BY <1>1 DEF Deliver, worldVars
    <3> QED
      BY <3>1, PendingStays
  <2>3. CASE p \notin registered
    BY <1>r, <2>1, <2>3 DEF Resolving
  <2>4. CASE p \in registered
    <3>1. world'[p] = world[p]
      BY <2>1, <2>4
    <3> QED
      BY <1>2, <2>1, <2>2, <2>4, <3>1 DEF NoLostChange, Resolving
  <2> QED
    BY <2>3, <2>4
<1>4. CASE world' = world /\ RefreshOwed
  BY <1>3, <1>4, PendingStays, DeliverResolves
<1>5. CASE world' = world /\ ~RefreshOwed
  <2>1. \/ PrevData[p] = world[p]
        \/ failed[p]
        \/ p \in missed
        \/ Resolving /\ idx <= p /\ (p \notin registered \/ read[p] \in {NoData, world[p]})
    BY <1>2, <1>5 DEF NoLostChange
  <2>2. Resolving /\ idx <= p /\ p \in registered => read[p] \in {NoData, world[p]} \/ p \in missed
    BY <1>2, <1>5 DEF StaleReadPending
  <2> QED
    BY <1>r, <1>3, <1>5, <2>1, <2>2, ResolutionStep
<1> QED
  BY <1>1, <1>4, <1>5

(* If the client's copy of a path is out of date, a refresh is under way,  *)
(* or the resolution in progress will return the path as it is, or the     *)
(* path changed between its read and its first registration: debounce      *)
(* drops no trigger, whenever it arrives during a resolution.              *)
THEOREM ChangesAreNotLost == Spec => []NoLostChange
<1>1. Init => RegisteredFirst /\ StaleReadPending /\ NoLostChange
  BY DEF Init, RegisteredFirst, StaleReadPending, NoLostChange, Resolving, Paths
<1> QED
  BY <1>1, TypeInit, TypeInductive, RegisteredInductive, StaleReadInductive,
     NoLostChangeInductive, PTL DEF Spec

-----------------------------------------------------------------------------
(* Patches and throttling.                                                 *)

LEMMA SyncInductive == TypeOK /\ ClientInSync /\ [Next]_vars => ClientInSync'
<1> SUFFICES ASSUME TypeOK, ClientInSync, [Next]_vars PROVE ClientInSync'
  OBVIOUS
<1>1. ASSUME NEW err \in BOOLEAN, Respond(err) PROVE ClientInSync'
  <2>1. idx \in Paths
    BY <1>1 DEF Respond
  <2>2. PICK data :
          \/ UNCHANGED <<PrevData, client>>
          \/ /\ PrevData' = [PrevData EXCEPT ![idx] = data]
             /\ client' = [client EXCEPT ![idx] =
                             IF PrevData[idx] = NoData \/ PrevData[idx] = data
                             THEN data
                             ELSE ApplyPatch(@, PrevData[idx], data)]
    BY <1>1 DEF Respond
  <2> QED
    BY <2>1, <2>2 DEF ClientInSync, ApplyPatch
<1>2. CASE ~\E err \in BOOLEAN : Respond(err)
  <2>1. UNCHANGED <<client, PrevData>>
    BY <1>2 DEF Next, Debounce, Handler, Cancel, Tick, Change, OnEvent, TriggerDone, RecvFire, RecvRearm,
                TimerFires, Deliver, DebounceDone, CallHandler, HandlerNil, ResetDone, Ready,
                WaitClosed, WaitDone, Resolve, Track, SkipTracking, Ignore, vars, respVars
  <2> QED
    BY <2>1 DEF ClientInSync
<1> QED
  BY <1>1, <1>2

(* A client that applies every patch has the data the server diffs with.   *)
THEOREM PatchesAddUp == Spec => []ClientInSync
<1>1. Init => ClientInSync
  BY DEF Init, ClientInSync
<1> QED
  BY <1>1, TypeInit, TypeInductive, SyncInductive, PTL DEF Spec

(* The timer and the time since the last refresh make up an interval. *)
TimerCounts ==
  /\ timer # Nil => since + timer >= Throttle
  /\ deb = "send" => since >= Throttle

LEMMA TimerInductive == TypeOK /\ Handshake /\ TimerCounts /\ [Next]_vars => TimerCounts'
<1> SUFFICES ASSUME TypeOK, Handshake, TimerCounts, [Next]_vars PROVE TimerCounts'
  OBVIOUS
<1> USE LiveQueryAssumption DEF TimerCounts, Nil
<1>0. since \in Nat /\ since <= Throttle /\ timer \in Nat \cup {-1}
  BY DEF TypeOK
<1>1. CASE Tick
  BY <1>0, <1>1 DEF Tick
<1>2. ASSUME NEW t \in Triggers, RecvFire(t) PROVE TimerCounts'
  BY <1>0, <1>2 DEF RecvFire, SetTimer
<1>3. CASE RecvRearm
  BY <1>0, <1>3 DEF RecvRearm, SetTimer
<1>4. CASE TimerFires
  BY <1>0, <1>4 DEF TimerFires
<1>5. CASE Deliver
  BY <1>0, <1>5 DEF Deliver, Handshake, SendClears
<1>6. CASE DebounceDone
  BY <1>0, <1>6 DEF DebounceDone
<1>7. CASE Cancel \/ Handler \/ UNCHANGED vars
           \/ (\E t \in Triggers : Change(t) \/ OnEvent(t) \/ Ignore(t) \/ TriggerDone(t))
           \/ (\E p \in Paths : Resolve(p) \/ Track(p) \/ SkipTracking(p))
  <2>1. UNCHANGED <<since, timer, deb>>
    BY <1>7 DEF Cancel, Handler, Change, OnEvent, Ignore, SkipTracking, TriggerDone, CallHandler, Respond, HandlerNil, ResetDone,
                Ready, WaitClosed, WaitDone, Resolve, Track, vars, debVars
  <2> QED
    BY <2>1
<1> QED
  BY <1>1, <1>2, <1>3, <1>4, <1>5, <1>6, <1>7 DEF Next, Debounce

(* Two refreshes of a query are at least a throttle interval apart.        *)
THEOREM RefreshesThrottled == Spec => Throttled
<1>1. Init => TimerCounts
  <2> SUFFICES ASSUME Init PROVE TimerCounts
    OBVIOUS
  <2>1. timer = Nil /\ deb = "select"
    BY DEF Init
  <2> QED
    BY <2>1 DEF TimerCounts
<1>2. TimerCounts /\ [Next]_vars => [deb = "send" /\ deb' = "select" => since >= Throttle]_vars
  BY DEF TimerCounts
<1> QED
  BY <1>1, <1>2, HandshakeInvariant, TypeInit, TypeInductive, TimerInductive, PTL
     DEF Spec, Throttled

-----------------------------------------------------------------------------
(* The promise of LiveQueryPromise.                                        *)

(* The mapped variables that a step of the response handler may change.    *)
LEMMA HandlerKeeps ==
  ASSUME Handler \/ (\E p \in Paths : Resolve(p) \/ SkipTracking(p))
  PROVE  UNCHANGED <<done, since, RefreshOwed>>
<1>1. UNCHANGED <<trig, registered, fired, timer, deb, done, since>>
  BY DEF Handler, CallHandler, Respond, HandlerNil, ResetDone, Ready, WaitClosed, WaitDone,
         NewResolution, Resolve, SkipTracking, debVars, trigVars, readVars
<1> QED
  BY <1>1 DEF RefreshOwed

(* A step of the handler ends a resolution, leaves the phase as it is, or  *)
(* is taken after the request is done.                                     *)
LEMMA HandlerPhase ==
  ASSUME TypeOK, Handshake, Handler \/ (\E p \in Paths : Resolve(p) \/ SkipTracking(p))
  PROVE  \/ UNCHANGED Phase
         \/ Phase = "resolve" /\ Phase' = "wait"
         \/ done /\ Phase \in {"resolve", "wait"} /\ Phase' \in {"resolve", "wait", "end"}
<1>1. CASE CallHandler
  BY <1>1 DEF CallHandler, Phase, Resolving
<1>2. ASSUME NEW err \in BOOLEAN, Respond(err) PROVE UNCHANGED Phase
  <2>1. h = "handler" /\ h' \in {"handler", "idle"}
    BY <1>2 DEF Respond
  <2> QED
    BY <2>1 DEF Phase, Resolving
<1>3. CASE HandlerNil
  BY <1>3 DEF HandlerNil, Phase, Resolving
<1>4. CASE ResetDone \/ Ready
  BY <1>4 DEF ResetDone, Ready, Phase, Resolving
<1>5. CASE WaitClosed
  BY <1>5 DEF WaitClosed, NewResolution, Phase, Resolving, Handshake, ClosedWhenDone
<1>6. CASE WaitDone
  BY <1>6 DEF WaitDone, Phase, Resolving
<1>7. ASSUME NEW p \in Paths, Resolve(p) \/ SkipTracking(p) PROVE UNCHANGED Phase
  BY <1>7 DEF Resolve, SkipTracking, Phase, Resolving
<1> QED
  BY <1>1, <1>2, <1>3, <1>4, <1>5, <1>6, <1>7 DEF Handler

LEMMA OwedIsBoolean == RefreshOwed \in BOOLEAN /\ RefreshOwed' \in BOOLEAN
BY DEF RefreshOwed

(* Every step maps to a step of the promise or to none. *)
LEMMA PromiseStep ==
  ASSUME TypeOK, TypeOK', Handshake, TimerCounts, [Next]_vars
  PROVE  [Promise!Next]_<<done, RefreshOwed, Phase, since>>
<1> USE LiveQueryAssumption, OwedIsBoolean DEF Promise!Next
<1>1. CASE Cancel
  <2>1. done' = TRUE /\ UNCHANGED <<trig, registered, fired, timer, deb, h, since>>
    BY <1>1 DEF Cancel, debVars, trigVars, readVars
  <2> QED
    BY <2>1 DEF Promise!Leave, RefreshOwed, Phase, Resolving
<1>2. CASE Tick
  <2>1. RefreshOwed' = RefreshOwed
    BY <1>2 DEF Tick, RefreshOwed, TypeOK, Nil, trigVars, readVars
  <2>2. UNCHANGED <<done, Phase>>
    BY <1>2 DEF Tick, Phase, Resolving
  <2>3. since' = since \/ (since < Throttle /\ since' = since + 1)
    BY <1>2 DEF Tick
  <2> QED
    BY <2>1, <2>2, <2>3 DEF Promise!Tick
<1>3. ASSUME NEW t \in Triggers, Change(t)
      PROVE  Promise!Owe \/ UNCHANGED <<done, RefreshOwed, Phase, since>>
  <2>1. RefreshOwed => RefreshOwed'
    <3>1. trig[t] \notin registered
      BY <1>3 DEF Change, TypeOK, NoEvent, Paths
    <3>2. \A u \in Triggers : u # t => trig'[u] = trig[u]
      BY <1>3 DEF Change, TypeOK
    <3> QED
      BY <1>3, <3>1, <3>2 DEF Change, RefreshOwed, debVars, readVars
  <2>2. UNCHANGED <<done, Phase, since>>
    BY <1>3 DEF Change, Phase, Resolving
  <2> QED
    BY <2>1, <2>2 DEF Promise!Owe
<1>4. ASSUME NEW t \in Triggers, TriggerDone(t) PROVE Promise!Ending
  BY <1>4 DEF TriggerDone, Promise!Ending, Phase, Resolving
<1>5. ASSUME NEW t \in Triggers, RecvFire(t)
      PROVE  UNCHANGED <<done, RefreshOwed, Phase, since>>
  <2>1. RefreshOwed /\ RefreshOwed'
    BY <1>5 DEF RecvFire, Triggered, SetTimer, TypeOK, Nil, RefreshOwed
  <2> QED
    BY <1>5, <2>1 DEF RecvFire, Phase, Resolving
<1>6. CASE RecvRearm
  <2>1. RefreshOwed' = RefreshOwed
    BY <1>6 DEF RecvRearm, SetTimer, TypeOK, Nil, RefreshOwed, trigVars, readVars
  <2> QED
    BY <1>6, <2>1 DEF RecvRearm, Phase, Resolving
<1>7. CASE TimerFires
  <2>1. RefreshOwed /\ RefreshOwed'
    BY <1>7 DEF TimerFires, RefreshOwed, trigVars, Nil
  <2> QED
    BY <1>7, <2>1 DEF TimerFires, Phase, Resolving
<1>8. CASE Deliver
  <2>1. RefreshOwed /\ since = Throttle
    BY <1>8 DEF Deliver, RefreshOwed, TimerCounts, TypeOK
  <2>2. Phase = "wait" /\ Phase' = "resolve" /\ since' = 0 /\ done' = done
    BY <1>8 DEF Deliver, NewResolution, Phase, Resolving
  <2> QED
    BY <2>1, <2>2 DEF Promise!Refresh
<1>9. CASE DebounceDone
  BY <1>9 DEF DebounceDone, Promise!Ending, Phase, Resolving
<1>10. CASE Handler \/ (\E p \in Paths : Resolve(p) \/ SkipTracking(p))
  BY <1>10, HandlerKeeps, HandlerPhase DEF Promise!Resolved, Promise!Ending
<1>11. CASE UNCHANGED vars \/ (\E t \in Triggers : OnEvent(t))
  BY <1>11 DEF OnEvent, debVars, readVars, vars, RefreshOwed, Phase, Resolving
<1>12. ASSUME NEW p \in Paths, Track(p)
       PROVE  Promise!Owe \/ UNCHANGED <<done, RefreshOwed, Phase, since>>
  <2>1. RefreshOwed => RefreshOwed'
    BY <1>12 DEF Track, RefreshOwed, debVars, trigVars
  <2>2. UNCHANGED <<done, Phase, since>>
    BY <1>12 DEF Track, Phase, Resolving
  <2> QED
    BY <2>1, <2>2 DEF Promise!Owe
<1>13. ASSUME NEW t \in Triggers, Ignore(t)
       PROVE  Promise!Ending \/ UNCHANGED <<done, RefreshOwed, Phase, since>>
  <2>1. UNCHANGED <<done, Phase, since>>
    BY <1>13 DEF Ignore, Phase, Resolving
  <2>2. CASE done
    BY <2>1, <2>2 DEF Promise!Ending, Phase, Resolving
  <2>3. CASE ~done
    <3>1. trig[t] \notin registered /\ UNCHANGED <<registered, deb, fired, timer>>
      BY <1>13, <2>3 DEF Ignore, debVars
    <3>2. /\ \A u \in Triggers : u # t => trig'[u] = trig[u]
          /\ trig'[t] = NoEvent
      BY <1>13 DEF Ignore, TypeOK
    <3>3. NoEvent \notin registered
      BY DEF TypeOK, NoEvent, Paths
    <3>4. RefreshOwed' = RefreshOwed
      BY <3>1, <3>2, <3>3 DEF RefreshOwed
    <3> QED
      BY <2>1, <3>4
  <2> QED
    BY <2>2, <2>3
<1> QED
  BY <1>1, <1>2, <1>3, <1>4, <1>5, <1>6, <1>7, <1>8, <1>9, <1>10, <1>11, <1>12, <1>13
     DEF Next, Debounce

(* The debounce goroutine, its channels and the response handler implement *)
(* the promise: no trigger is lost before its refresh, no refresh comes    *)
(* without one, and none comes too early, for any number of goroutines,    *)
(* paths, values and any interval.                                         *)
THEOREM PromiseKept == Spec => KeepsPromise
<1>1. Init => Promise!Init
  BY DEF Init, Promise!Init, RefreshOwed, Phase, Resolving, Nil, NoEvent
<1>2. Init => TimerCounts
  <2> SUFFICES ASSUME Init PROVE TimerCounts
    OBVIOUS
  <2>1. timer = Nil /\ deb = "select"
    BY DEF Init
  <2> QED
    BY <2>1 DEF TimerCounts
<1>3. TypeOK /\ TypeOK' /\ Handshake /\ TimerCounts /\ [Next]_vars
        => [Promise!Next]_<<done, RefreshOwed, Phase, since>>
  BY PromiseStep
<1> QED
  BY <1>1, <1>2, <1>3, HandshakeInvariant, TypeInit, TypeInductive, TimerInductive, PTL
     DEF Spec, KeepsPromise, Promise!Spec, Promise!vars
=============================================================================
