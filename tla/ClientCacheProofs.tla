------------------------- MODULE ClientCacheProofs -------------------------
(***************************************************************************)
(* Proofs about ClientCache for any set of ids and requests, any number of *)
(* sessions and any expiry.                                                *)
(***************************************************************************)
EXTENDS ClientCache, TLAPS

-----------------------------------------------------------------------------
(* The type invariant.                                                     *)

LEMMA TypeInit == Init => VarTypes
BY ClientCacheAssumption DEF Init, VarTypes, Sessions, None

(* A session is published for an id before its goroutines run. *)
Goroutines ==
  \A s \in Sessions : owner[s] = NoId => g1[s] = "none" /\ g2[s] = "none" /\ ~cancelled[s]

LEMMA RemoveType ==
  ASSUME VarTypes, NEW id \in Ids, Remove(id)
  PROVE  /\ active' \in [Ids -> Sessions \cup {None}]
         /\ cancelled' \in [Sessions -> BOOLEAN]
         /\ age' \in [Sessions -> 0..Expiry]
         /\ idle' \in [Sessions -> 0..Expiry]
<1>1. active' \in [Ids -> Sessions \cup {None}]
  BY DEF Remove, VarTypes
<1>2. cancelled' \in [Sessions -> BOOLEAN]
  BY DEF Remove, VarTypes
<1>3. age' \in [Sessions -> 0..Expiry] /\ idle' \in [Sessions -> 0..Expiry]
  BY ClientCacheAssumption DEF Remove, VarTypes
<1> QED
  BY <1>1, <1>2, <1>3

LEMMA ReturnType ==
  ASSUME VarTypes, NEW r \in Requests, Return(r)
  PROVE  /\ gpc' \in [Requests -> {"idle", "build", "publish", "sync", "drop", "using"}]
         /\ gid' \in [Requests -> Ids \cup {NoId}]
         /\ gs' \in [Requests -> Sessions \cup {None}]
BY DEF Return, VarTypes

LEMMA TypeInductive ==
  VarTypes /\ GetLocals /\ Goroutines /\ [Next]_vars => VarTypes'
<1> SUFFICES ASSUME VarTypes, GetLocals, Goroutines, [Next]_vars PROVE VarTypes'
  OBVIOUS
<1> USE ClientCacheAssumption
<1>1. ASSUME NEW r \in Requests, NEW id \in Ids, GetHit(r, id) PROVE VarTypes'
  BY <1>1 DEF GetHit, VarTypes, timeVars
<1>2. ASSUME NEW r \in Requests, NEW id \in Ids, GetMiss(r, id) PROVE VarTypes'
  BY <1>2 DEF GetMiss, VarTypes, timeVars, Sessions
<1>3. ASSUME NEW r \in Requests, GetBuildFails(r) PROVE VarTypes'
  BY <1>3, ReturnType DEF GetBuildFails, VarTypes, timeVars
<1>4. ASSUME NEW r \in Requests, GetBuild(r) PROVE VarTypes'
  BY <1>4 DEF GetBuild, VarTypes, timeVars
<1>5. ASSUME NEW r \in Requests, GetPublish(r) PROVE VarTypes'
  <2>1. gid[r] \in Ids /\ gs[r] \in Sessions
    BY <1>5 DEF GetPublish, GetLocals
  <2> QED
    BY <1>5, <2>1 DEF GetPublish, VarTypes, timeVars
<1>6. ASSUME NEW r \in Requests, GetLoses(r) PROVE VarTypes'
  <2>1. gid[r] \in Ids
    BY <1>6 DEF GetLoses, GetLocals
  <2> QED
    BY <1>6, <2>1 DEF GetLoses, VarTypes, timeVars
<1>7. ASSUME NEW r \in Requests, GetSynced(r) PROVE VarTypes'
  BY <1>7 DEF GetSynced, VarTypes, timeVars
<1>8. ASSUME NEW r \in Requests, GetNotSynced(r) PROVE VarTypes'
  BY <1>8 DEF GetNotSynced, VarTypes, timeVars
<1>9. ASSUME NEW r \in Requests, GetDrop(r) PROVE VarTypes'
  <2>1. gid[r] \in Ids
    BY <1>9 DEF GetDrop, GetLocals
  <2> QED
    BY <1>9, <2>1, RemoveType, ReturnType DEF GetDrop, VarTypes
<1>10. ASSUME NEW r \in Requests, Use(r) PROVE VarTypes'
  <2>1. idle \in [Sessions -> 0..Expiry] /\ 0 \in 0..Expiry
    BY DEF VarTypes
  <2>2. idle' = [idle EXCEPT ![gs[r]] = 0]
    BY <1>10 DEF Use
  <2>3. idle' \in [Sessions -> 0..Expiry]
    BY <2>1, <2>2
  <2> QED
    BY <1>10, <2>3 DEF Use, VarTypes, getVars
<1>11. ASSUME NEW r \in Requests, Release(r) PROVE VarTypes'
  BY <1>11, ReturnType DEF Release, VarTypes, timeVars
<1>12. ASSUME NEW s \in Sessions, CacheStops(s) PROVE VarTypes'
  BY <1>12 DEF CacheStops, VarTypes, timeVars, getVars
<1>13. ASSUME NEW s \in Sessions, CacheStopped(s) PROVE VarTypes'
  <2>1. owner[s] \in Ids
    BY <1>13 DEF CacheStopped, Goroutines, VarTypes
  <2> QED
    BY <1>13, <2>1, RemoveType DEF CacheStopped, VarTypes, getVars
<1>14. ASSUME NEW s \in Sessions, Expires(s) PROVE VarTypes'
  BY <1>14 DEF Expires, VarTypes, timeVars, getVars
<1>15. ASSUME NEW s \in Sessions, ContextDone(s) PROVE VarTypes'
  BY <1>15 DEF ContextDone, VarTypes, timeVars, getVars
<1>16. ASSUME NEW s \in Sessions, ExpirationDone(s) PROVE VarTypes'
  <2>1. owner[s] \in Ids
    BY <1>16 DEF ExpirationDone, Goroutines, VarTypes
  <2> QED
    BY <1>16, <2>1, RemoveType DEF ExpirationDone, VarTypes, getVars
<1>17. CASE Tick
  BY <1>17 DEF Tick, UpTo, VarTypes, getVars
<1>18. CASE UNCHANGED vars
  BY <1>18 DEF vars, VarTypes
<1> QED
  BY <1>1, <1>2, <1>3, <1>4, <1>5, <1>6, <1>7, <1>8, <1>9, <1>10, <1>11, <1>12, <1>13,
     <1>14, <1>15, <1>16, <1>17, <1>18 DEF Next, GetStep, SessionStep

-----------------------------------------------------------------------------
(* The inductive invariant.                                                *)

(* Session numbers are given out in order. *)
Numbered == \A s \in Sessions : owner[s] # NoId => s <= nsess

(* A Get call that is still building has a session number of its own, for  *)
(* which nothing has been published.                                       *)
Building ==
  \A r \in Requests : gpc[r] \in {"build", "publish"} =>
    /\ gs[r] <= nsess
    /\ owner[gs[r]] = NoId
    /\ \A q \in Requests \ {r} : gpc[q] \in {"build", "publish"} => gs[q] # gs[r]

IInv == /\ VarTypes /\ GetLocals /\ Goroutines /\ Numbered /\ Building
        /\ ActiveIsLive /\ NoOrphans /\ OwnClient

LEMMA InitIInv == Init => IInv
<1> SUFFICES ASSUME Init PROVE IInv
  OBVIOUS
<1>1. VarTypes
  BY TypeInit
<1> QED
  BY <1>1 DEF Init, IInv, GetLocals, Goroutines, Numbered, Building, ActiveIsLive, NoOrphans,
              OwnClient, Published

(* The request variables change at one request only. *)
LEMMA ReturnEffect ==
  ASSUME VarTypes, NEW r \in Requests, Return(r)
  PROVE  gpc'[r] = "idle" /\ \A q \in Requests : q # r => gpc'[q] = gpc[q] /\ gid'[q] = gid[q] /\ gs'[q] = gs[q]
BY DEF Return, VarTypes

(* remove(id) keeps what the invariant says about the map, and the entry   *)
(* of the id is gone: any other entry is of another session.               *)
LEMMA RemoveSafe ==
  ASSUME VarTypes, ActiveIsLive, NoOrphans, Goroutines, NEW id \in Ids, Remove(id), owner' = owner
  PROVE  /\ active'[id] = None
         /\ \A i \in Ids : i # id => active'[i] = active[i]
         /\ \A i \in Ids : active'[i] # None =>
              owner'[active'[i]] = i /\ ~cancelled'[active'[i]] /\ i # id
         /\ NoOrphans'
         /\ \A s \in Sessions : owner[s] = NoId => ~cancelled'[s]
<1>0. None \notin Sessions
  BY DEF None, Sessions
<1>1. active'[id] = None /\ \A i \in Ids : i # id => active'[i] = active[i]
  BY DEF Remove, VarTypes
<1>2. \A s \in Sessions : cancelled'[s] <=> (cancelled[s] \/ s = active[id])
  BY DEF Remove
<1>3. \A i \in Ids : active[i] # None =>
        active[i] \in Sessions /\ owner[active[i]] = i /\ ~cancelled[active[i]]
  BY DEF ActiveIsLive, VarTypes
<1>4. ASSUME NEW i \in Ids, active'[i] # None
      PROVE  owner'[active'[i]] = i /\ ~cancelled'[active'[i]] /\ i # id
  <2>1. i # id /\ active'[i] = active[i]
    BY <1>1, <1>4
  <2>2. active[i] \in Sessions /\ owner[active[i]] = i /\ ~cancelled[active[i]]
    BY <1>3, <1>4, <2>1
  <2>3. active[i] # active[id]
    BY <1>3, <2>1, <2>2, <1>0
  <2> QED
    BY <1>2, <2>1, <2>2, <2>3
<1>5. NoOrphans'
  <2> SUFFICES ASSUME NEW s \in Sessions, owner[s] # NoId, active'[owner[s]] # s
               PROVE  cancelled'[s]
    BY DEF NoOrphans, Published
  <2>1. owner[s] \in Ids
    BY DEF VarTypes
  <2>2. CASE active[owner[s]] = s
    <3>1. owner[s] = id
      BY <1>1, <2>1, <2>2
    <3> QED
      BY <1>2, <2>2, <3>1
  <2>3. CASE active[owner[s]] # s
    BY <1>2, <2>3 DEF NoOrphans, Published
  <2> QED
    BY <2>2, <2>3
<1>6. \A s \in Sessions : owner[s] = NoId => ~cancelled'[s]
  BY <1>2, <1>3, <1>0, ClientCacheAssumption DEF Goroutines
<1> QED
  BY <1>1, <1>4, <1>5, <1>6

LEMMA IInvInductive == IInv /\ [Next]_vars => IInv'
<1> SUFFICES ASSUME IInv, [Next]_vars PROVE IInv'
  OBVIOUS
<1> USE ClientCacheAssumption
<1>0. VarTypes /\ VarTypes' /\ GetLocals /\ Goroutines /\ Numbered /\ Building
      /\ ActiveIsLive /\ NoOrphans /\ OwnClient
  BY TypeInductive DEF IInv
<1>n. None \notin Sessions
  BY DEF None, Sessions
<1>1. ASSUME NEW r \in Requests, NEW id \in Ids, GetHit(r, id) PROVE IInv'
  <2>1. /\ gpc'[r] = "using" /\ gid'[r] = id /\ gs'[r] = active[id]
        /\ \A q \in Requests : q # r => gpc'[q] = gpc[q] /\ gid'[q] = gid[q] /\ gs'[q] = gs[q]
        /\ UNCHANGED <<active, nsess, owner, cancelled, g1, g2>>
    BY <1>0, <1>1 DEF GetHit, VarTypes
  <2>2. active[id] \in Sessions /\ owner[active[id]] = id
    BY <1>0, <1>1 DEF GetHit, ActiveIsLive, VarTypes
  <2>3. GetLocals' /\ Goroutines' /\ Numbered'
    BY <1>0, <2>1, <2>2 DEF GetLocals, Goroutines, Numbered
  <2>4. Building'
    BY <1>0, <2>1 DEF Building
  <2>5. ActiveIsLive' /\ NoOrphans'
    BY <1>0, <2>1 DEF ActiveIsLive, NoOrphans, Published
  <2>6. OwnClient'
    BY <1>0, <2>1, <2>2 DEF OwnClient
  <2> QED
    BY <1>0, <2>3, <2>4, <2>5, <2>6 DEF IInv
<1>2. ASSUME NEW r \in Requests, NEW id \in Ids, GetMiss(r, id) PROVE IInv'
  <2>1. /\ gpc'[r] = "build" /\ gid'[r] = id /\ gs'[r] = nsess + 1 /\ nsess' = nsess + 1
        /\ nsess + 1 \in Sessions
        /\ \A q \in Requests : q # r => gpc'[q] = gpc[q] /\ gid'[q] = gid[q] /\ gs'[q] = gs[q]
        /\ UNCHANGED <<active, owner, cancelled, g1, g2>>
    BY <1>0, <1>2 DEF GetMiss, VarTypes, Sessions
  <2>2. owner[nsess + 1] = NoId /\ nsess \in Nat
    BY <1>0, <2>1 DEF Numbered, VarTypes
  <2>3. GetLocals' /\ Goroutines'
    BY <1>0, <2>1 DEF GetLocals, Goroutines
  <2>4. Numbered'
    BY <1>0, <2>1, <2>2 DEF Numbered, Sessions
  <2>5. Building'
    <3>1. ASSUME NEW q \in Requests, q # r, gpc[q] \in {"build", "publish"}
          PROVE  gs[q] \in Nat /\ gs[q] <= nsess /\ gs[q] # nsess + 1
      <4>1. gs[q] \in Sessions /\ gs[q] <= nsess
        BY <1>0, <3>1 DEF Building, GetLocals
      <4> QED
        BY <2>2, <4>1 DEF Sessions
    <3> QED
      BY <1>0, <2>1, <2>2, <3>1 DEF Building
  <2>6. ActiveIsLive' /\ NoOrphans'
    BY <1>0, <2>1 DEF ActiveIsLive, NoOrphans, Published
  <2>7. OwnClient'
    BY <1>0, <2>1 DEF OwnClient
  <2> QED
    BY <1>0, <2>3, <2>4, <2>5, <2>6, <2>7 DEF IInv
<1>3. ASSUME NEW r \in Requests, GetBuildFails(r) \/ Release(r) PROVE IInv'
  <2>1. /\ gpc'[r] = "idle"
        /\ \A q \in Requests : q # r => gpc'[q] = gpc[q] /\ gid'[q] = gid[q] /\ gs'[q] = gs[q]
    BY <1>0, <1>3, ReturnEffect DEF GetBuildFails, Release
  <2>2. UNCHANGED <<active, nsess, owner, cancelled, g1, g2>>
    BY <1>3 DEF GetBuildFails, Release
  <2>3. GetLocals' /\ Goroutines' /\ Numbered'
    BY <1>0, <2>1, <2>2 DEF GetLocals, Goroutines, Numbered
  <2>4. Building' /\ OwnClient'
    BY <1>0, <2>1, <2>2 DEF Building, OwnClient
  <2>5. ActiveIsLive' /\ NoOrphans'
    BY <1>0, <2>2 DEF ActiveIsLive, NoOrphans, Published
  <2> QED
    BY <1>0, <2>3, <2>4, <2>5 DEF IInv
<1>4. ASSUME NEW r \in Requests, GetBuild(r) PROVE IInv'
  <2>1. /\ gpc[r] = "build" /\ gpc'[r] = "publish"
        /\ \A q \in Requests : q # r => gpc'[q] = gpc[q]
        /\ UNCHANGED <<active, nsess, owner, cancelled, g1, g2, gid, gs>>
    BY <1>0, <1>4 DEF GetBuild, VarTypes
  <2>2. GetLocals' /\ Goroutines' /\ Numbered'
    BY <1>0, <2>1 DEF GetLocals, Goroutines, Numbered
  <2>3. Building' /\ OwnClient'
    BY <1>0, <2>1 DEF Building, OwnClient
  <2>4. ActiveIsLive' /\ NoOrphans'
    BY <1>0, <2>1 DEF ActiveIsLive, NoOrphans, Published
  <2> QED
    BY <1>0, <2>2, <2>3, <2>4 DEF IInv
<1>5. ASSUME NEW r \in Requests, GetPublish(r) PROVE IInv'
  <2> DEFINE s == gs[r]
             id == gid[r]
  <2>1. /\ gpc[r] = "publish" /\ gpc'[r] = "sync"
        /\ \A q \in Requests : q # r => gpc'[q] = gpc[q]
        /\ UNCHANGED <<nsess, cancelled, gid, gs>>
        /\ s \in Sessions /\ id \in Ids /\ active[id] = None
        /\ owner[s] = NoId /\ s <= nsess
    BY <1>0, <1>5 DEF GetPublish, VarTypes, GetLocals, Building
  <2>2. /\ active'[id] = s /\ \A i \in Ids : i # id => active'[i] = active[i]
        /\ owner'[s] = id /\ g1'[s] = "start" /\ g2'[s] = "select"
        /\ \A z \in Sessions : z # s => owner'[z] = owner[z] /\ g1'[z] = g1[z] /\ g2'[z] = g2[z]
    BY <1>0, <1>5, <2>1 DEF GetPublish, VarTypes
  <2> HIDE DEF s, id
  <2>3. GetLocals' /\ Goroutines' /\ Numbered'
    BY <1>0, <2>1, <2>2 DEF GetLocals, Goroutines, Numbered
  <2>4. Building'
    <3>1. \A q \in Requests : q # r /\ gpc[q] \in {"build", "publish"} => gs[q] # s /\ gs[q] \in Sessions
      BY <1>0, <2>1 DEF Building, GetLocals, s
    <3> QED
      BY <1>0, <2>1, <2>2, <3>1 DEF Building
  <2>5. OwnClient'
    <3>1. ASSUME NEW q \in Requests, q # r, gpc[q] \in {"sync", "drop", "using"}
          PROVE  gs[q] \in Sessions /\ gs[q] # s
      BY <1>0, <2>1, <3>1 DEF OwnClient, GetLocals
    <3>2. gs'[r] = s /\ gid'[r] = id
      BY <2>1 DEF s, id
    <3> QED
      BY <1>0, <2>1, <2>2, <3>1, <3>2 DEF OwnClient
  <2>6. ActiveIsLive'
    <3>1. \A i \in Ids : active[i] # None => active[i] \in Sessions /\ active[i] # s
      BY <1>0, <2>1 DEF ActiveIsLive, VarTypes
    <3>2. ~cancelled'[s]
      BY <1>0, <2>1 DEF Goroutines
    <3> QED
      BY <1>0, <2>1, <2>2, <3>1, <3>2 DEF ActiveIsLive
  <2>7. NoOrphans'
    <3> SUFFICES ASSUME NEW z \in Sessions, owner'[z] # NoId, active'[owner'[z]] # z
                 PROVE  cancelled'[z]
      BY DEF NoOrphans, Published
    <3>1. z # s /\ owner'[z] = owner[z] /\ owner[z] \in Ids
      BY <1>0, <2>2 DEF VarTypes
    <3>2. active[owner[z]] # z
      BY <1>n, <2>1, <2>2, <3>1
    <3> QED
      BY <1>0, <2>1, <3>1, <3>2 DEF NoOrphans, Published
  <2> QED
    BY <1>0, <2>3, <2>4, <2>5, <2>6, <2>7 DEF IInv
<1>6. ASSUME NEW r \in Requests, GetLoses(r) PROVE IInv'
  <2>1. /\ gpc'[r] = "using" /\ gid' = gid /\ gs'[r] = active[gid[r]] /\ gid[r] \in Ids
        /\ \A q \in Requests : q # r => gpc'[q] = gpc[q] /\ gs'[q] = gs[q]
        /\ UNCHANGED <<active, nsess, owner, cancelled, g1, g2>>
    BY <1>0, <1>6 DEF GetLoses, VarTypes, GetLocals
  <2>2. active[gid[r]] \in Sessions /\ owner[active[gid[r]]] = gid[r]
    BY <1>0, <1>6, <2>1 DEF GetLoses, ActiveIsLive, VarTypes
  <2>3. GetLocals' /\ Goroutines' /\ Numbered'
    BY <1>0, <2>1, <2>2 DEF GetLocals, Goroutines, Numbered
  <2>4. Building'
    BY <1>0, <2>1 DEF Building
  <2>5. ActiveIsLive' /\ NoOrphans'
    BY <1>0, <2>1 DEF ActiveIsLive, NoOrphans, Published
  <2>6. OwnClient'
    BY <1>0, <2>1, <2>2 DEF OwnClient
  <2> QED
    BY <1>0, <2>3, <2>4, <2>5, <2>6 DEF IInv
<1>7. ASSUME NEW r \in Requests, GetSynced(r) \/ GetNotSynced(r) PROVE IInv'
  <2>1. /\ gpc[r] = "sync" /\ gpc'[r] \in {"using", "drop"}
        /\ \A q \in Requests : q # r => gpc'[q] = gpc[q]
        /\ UNCHANGED <<active, nsess, owner, cancelled, g1, g2, gid, gs>>
    BY <1>0, <1>7 DEF GetSynced, GetNotSynced, VarTypes
  <2>2. GetLocals' /\ Goroutines' /\ Numbered'
    BY <1>0, <2>1 DEF GetLocals, Goroutines, Numbered
  <2>3. Building' /\ OwnClient'
    BY <1>0, <2>1 DEF Building, OwnClient
  <2>4. ActiveIsLive' /\ NoOrphans'
    BY <1>0, <2>1 DEF ActiveIsLive, NoOrphans, Published
  <2> QED
    BY <1>0, <2>2, <2>3, <2>4 DEF IInv
<1>8. ASSUME NEW r \in Requests, GetDrop(r) PROVE IInv'
  <2>1. /\ gpc'[r] = "idle"
        /\ \A q \in Requests : q # r => gpc'[q] = gpc[q] /\ gid'[q] = gid[q] /\ gs'[q] = gs[q]
    BY <1>0, <1>8, ReturnEffect DEF GetDrop
  <2>2. gid[r] \in Ids /\ Remove(gid[r]) /\ UNCHANGED <<nsess, owner, g1, g2>>
    BY <1>0, <1>8 DEF GetDrop, GetLocals
  <2>3. /\ \A i \in Ids : i # gid[r] => active'[i] = active[i]
        /\ \A i \in Ids : active'[i] # None =>
             owner'[active'[i]] = i /\ ~cancelled'[active'[i]] /\ i # gid[r]
        /\ NoOrphans'
        /\ \A s \in Sessions : owner[s] = NoId => ~cancelled'[s]
    BY <1>0, <2>2, RemoveSafe
  <2>4. GetLocals' /\ Goroutines' /\ Numbered'
    BY <1>0, <2>1, <2>2, <2>3 DEF GetLocals, Goroutines, Numbered
  <2>5. Building' /\ OwnClient'
    BY <1>0, <2>1, <2>2 DEF Building, OwnClient
  <2>6. ActiveIsLive'
    BY <1>0, <2>2, <2>3 DEF ActiveIsLive
  <2> QED
    BY <1>0, <2>3, <2>4, <2>5, <2>6 DEF IInv
<1>9. ASSUME NEW s \in Sessions, CacheStopped(s) \/ ExpirationDone(s) PROVE IInv'
  <2>1. owner[s] \in Ids
    BY <1>0, <1>9 DEF CacheStopped, ExpirationDone, Goroutines, VarTypes
  <2>2. Remove(owner[s]) /\ UNCHANGED <<nsess, owner, gpc, gid, gs>>
    BY <1>9 DEF CacheStopped, ExpirationDone, getVars
  <2>3. /\ \A z \in Sessions : z # s => g1'[z] = g1[z] /\ g2'[z] = g2[z]
        /\ g1'[s] = "none" => g1[s] = "none"
        /\ g2'[s] = "none" => g2[s] = "none"
    BY <1>0, <1>9 DEF CacheStopped, ExpirationDone, VarTypes
  <2>4. /\ \A i \in Ids : i # owner[s] => active'[i] = active[i]
        /\ \A i \in Ids : active'[i] # None =>
             owner'[active'[i]] = i /\ ~cancelled'[active'[i]] /\ i # owner[s]
        /\ NoOrphans'
        /\ \A z \in Sessions : owner[z] = NoId => ~cancelled'[z]
    BY <1>0, <2>1, <2>2, RemoveSafe
  <2>5. Goroutines'
    <3>1. owner[s] # NoId
      BY <2>1
    <3> QED
      BY <1>0, <2>2, <2>3, <2>4, <3>1 DEF Goroutines
  <2>6. GetLocals' /\ Numbered' /\ Building' /\ OwnClient'
    BY <1>0, <2>2 DEF GetLocals, Numbered, Building, OwnClient
  <2>7. ActiveIsLive'
    <3> SUFFICES ASSUME NEW i \in Ids, active'[i] # None
                 PROVE  /\ owner'[active'[i]] = i /\ ~cancelled'[active'[i]]
                        /\ g1'[active'[i]] \in {"start", "remove"}
                        /\ g2'[active'[i]] \in {"select", "remove"}
      BY DEF ActiveIsLive
    <3>1. active'[i] = active[i] /\ owner[active[i]] = i /\ i # owner[s] /\ ~cancelled'[active'[i]]
      BY <2>2, <2>4
    <3>2. active[i] \in Sessions /\ active[i] # s
      BY <1>0, <3>1 DEF VarTypes
    <3> QED
      BY <1>0, <2>2, <2>3, <3>1, <3>2 DEF ActiveIsLive
  <2> QED
    BY <1>0, <2>4, <2>5, <2>6, <2>7 DEF IInv
<1>10. ASSUME NEW s \in Sessions, CacheStops(s) \/ Expires(s) \/ ContextDone(s) PROVE IInv'
  <2>1. UNCHANGED <<active, nsess, owner, cancelled, gpc, gid, gs>>
    BY <1>10 DEF CacheStops, Expires, ContextDone, getVars
  <2>2. /\ \A z \in Sessions : z # s => g1'[z] = g1[z] /\ g2'[z] = g2[z]
        /\ g1'[s] = g1[s] \/ (g1[s] = "start" /\ g1'[s] = "remove")
        /\ g2'[s] = g2[s] \/ (g2[s] = "select" /\ g2'[s] = "remove")
    BY <1>0, <1>10 DEF CacheStops, Expires, ContextDone, VarTypes
  <2>3. owner[s] # NoId
    BY <1>0, <1>10 DEF CacheStops, Expires, ContextDone, Goroutines
  <2>4. Goroutines'
    BY <1>0, <2>1, <2>2, <2>3 DEF Goroutines
  <2>5. GetLocals' /\ Numbered' /\ Building' /\ OwnClient' /\ NoOrphans'
    BY <1>0, <2>1 DEF GetLocals, Numbered, Building, OwnClient, NoOrphans, Published
  <2>6. ActiveIsLive'
    <3>1. \A i \in Ids : active[i] # None => active[i] \in Sessions
      BY <1>0 DEF VarTypes
    <3> QED
      BY <1>0, <2>1, <2>2, <3>1 DEF ActiveIsLive
  <2> QED
    BY <1>0, <2>4, <2>5, <2>6 DEF IInv
<1>11. ASSUME Tick \/ UNCHANGED vars \/ \E r \in Requests : Use(r) PROVE IInv'
  <2>1. UNCHANGED <<active, nsess, owner, cancelled, g1, g2, gpc, gid, gs>>
    BY <1>11 DEF Tick, Use, vars, getVars
  <2> QED
    BY <1>0, <2>1 DEF IInv, GetLocals, Goroutines, Numbered, Building, ActiveIsLive, NoOrphans,
                      OwnClient, Published
<1> QED
  BY <1>1, <1>2, <1>3, <1>4, <1>5, <1>6, <1>7, <1>8, <1>9, <1>10, <1>11
     DEF Next, GetStep, SessionStep

-----------------------------------------------------------------------------
LEMMA Invariant == Spec => []IInv
BY InitIInv, IInvInductive, PTL DEF Spec

(* The variables of the client cache keep their types, and every request   *)
(* that is in Get or uses a client has a session.                          *)
THEOREM TypeCorrect == Spec => []TypeOK
<1>1. IInv => TypeOK
  BY DEF IInv, TypeOK
<1> QED
  BY <1>1, Invariant, PTL

(* Get hands out only sessions that are alive and watched, and none is     *)
(* left running outside the map: remove, called by id from three places,   *)
(* never leaves a cancelled session there, however Get calls race.         *)
THEOREM SessionsAreLive == Spec => []ActiveIffLive
<1>1. IInv => ActiveIffLive
  BY DEF IInv, ActiveIffLive
<1> QED
  BY <1>1, Invariant, PTL

(* A caller never gets a client that was built for another id.             *)
THEOREM ClientsAreOwn == Spec => []OwnClient
<1>1. IInv => OwnClient
  BY DEF IInv
<1> QED
  BY <1>1, Invariant, PTL
=============================================================================
