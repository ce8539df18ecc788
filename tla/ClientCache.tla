---------------------------- MODULE ClientCache ----------------------------
(***************************************************************************)
(* internal/clients/clients.go: the cache of Kubernetes clients.           *)
(*                                                                         *)
(* Cache.Get returns the client of the active session for an id (a salted  *)
(* hash of the caller's credentials), or builds a new session and puts it  *)
(* in the map active.  Building happens without the lock, so calls for the *)
(* same id race to publish their session.  A published session has two     *)
(* goroutines: one runs its cache until that stops, one waits for the      *)
(* expiration ticker or the end of the session's context.  Both, and a Get *)
(* whose cache does not sync, end with remove(id).                         *)
(*                                                                         *)
(* A session is a number, in the order in which Get calls begin to build.  *)
(* remove cancels the context of a session and stops its ticker together,  *)
(* so one variable stands for both.                                        *)
(***************************************************************************)
EXTENDS Integers, FiniteSets

CONSTANTS
  Ids,          \* client ids
  Requests,     \* goroutines that call Get
  MaxSessions,  \* bound on the number of sessions that are built
  Expiry        \* the expiry option, in ticks

None == 0
NoId == "no id"
Sessions == 1..MaxSessions

ASSUME ClientCacheAssumption ==
  /\ MaxSessions \in Nat
  /\ Expiry \in Nat \ {0}
  /\ NoId \notin Ids

VARIABLES
  active,     \* active[id]: the session in the map, or None
  nsess,      \* number of sessions that Get calls have begun to build
  owner,      \* owner[s]: the id that s was published for, or NoId
  cancelled,  \* cancelled[s]: its context is cancelled and its ticker stopped
  g1,         \* g1[s]: the goroutine that runs ca.Start
  g2,         \* g2[s]: the goroutine that waits for the expiration
  age,        \* age[s]: ticks since its ticker was created, up to Expiry
  idle,       \* history: ticks since its client was last used, up to Expiry
  gpc,        \* gpc[r]: where request r is in Get
  gid,        \* gid[r]: the id it asked for
  gs          \* gs[r]: the session it builds, or whose client it has

vars == <<active, nsess, owner, cancelled, g1, g2, age, idle, gpc, gid, gs>>
getVars == <<gpc, gid, gs>>
timeVars == <<age, idle>>

(* A session that is or was in the map. *)
Published(s) == owner[s] # NoId

-----------------------------------------------------------------------------
Init ==
  /\ active = [id \in Ids |-> None]
  /\ nsess = 0
  /\ owner = [s \in Sessions |-> NoId]
  /\ cancelled = [s \in Sessions |-> FALSE]
  /\ g1 = [s \in Sessions |-> "none"]
  /\ g2 = [s \in Sessions |-> "none"]
  /\ age = [s \in Sessions |-> 0]
  /\ idle = [s \in Sessions |-> 0]
  /\ gpc = [r \in Requests |-> "idle"]
  /\ gid = [r \in Requests |-> NoId]
  /\ gs = [r \in Requests |-> None]

(* remove(id), under the lock: whatever session the map has for the id is  *)
(* cancelled, its ticker stopped, and its entry deleted.  (A tick that is  *)
(* still in the channel makes no difference: the context is done too.)     *)
Remove(id) ==
  /\ active' = [active EXCEPT ![id] = None]
  /\ cancelled' = [s \in Sessions |-> cancelled[s] \/ s = active[id]]
  /\ age' = [s \in Sessions |-> IF s = active[id] THEN 0 ELSE age[s]]
  /\ idle' = [s \in Sessions |-> IF s = active[id] THEN 0 ELSE idle[s]]

-----------------------------------------------------------------------------
(* Cache.Get *)

(* Mutant: Get uses what the map gives without looking whether it is there. *)
GetHitUnchecked(r, id) ==
  /\ gpc[r] = "idle"
  /\ gpc' = [gpc EXCEPT ![r] = "using"]
  /\ gid' = [gid EXCEPT ![r] = id]
  /\ gs' = [gs EXCEPT ![r] = active[id]]
  /\ UNCHANGED <<active, nsess, owner, cancelled, g1, g2, timeVars>>

(* The read under RLock finds a session: Get returns its client. *)
GetHit(r, id) ==
  /\ gpc[r] = "idle"
  /\ active[id] # None
  /\ gpc' = [gpc EXCEPT ![r] = "using"]
  /\ gid' = [gid EXCEPT ![r] = id]
  /\ gs' = [gs EXCEPT ![r] = active[id]]
  /\ UNCHANGED <<active, nsess, owner, cancelled, g1, g2, timeVars>>

(* It finds none: Get goes on to build a session. *)
GetMiss(r, id) ==
  /\ gpc[r] = "idle"
  /\ active[id] = None
  /\ nsess < MaxSessions
  /\ nsess' = nsess + 1
  /\ gpc' = [gpc EXCEPT ![r] = "build"]
  /\ gid' = [gid EXCEPT ![r] = id]
  /\ gs' = [gs EXCEPT ![r] = nsess + 1]
  /\ UNCHANGED <<active, owner, cancelled, g1, g2, timeVars>>

(* A Get that returns leaves nothing behind in the request. *)
Return(r) ==
  /\ gpc' = [gpc EXCEPT ![r] = "idle"]
  /\ gid' = [gid EXCEPT ![r] = NoId]
  /\ gs' = [gs EXCEPT ![r] = None]

(* rest.HTTPClientFor, newCache or newClient returns an error. *)
GetBuildFails(r) ==
  /\ gpc[r] = "build"
  /\ Return(r)
  /\ UNCHANGED <<active, nsess, owner, cancelled, g1, g2, timeVars>>

(* The HTTP client, the cache and the client are built; the ticker and the *)
(* context of the session are created.                                     *)
GetBuild(r) ==
  /\ gpc[r] = "build"
  /\ gpc' = [gpc EXCEPT ![r] = "publish"]
  /\ UNCHANGED <<active, nsess, owner, cancelled, g1, g2, timeVars, gid, gs>>

(* Mutant: Get does not look again once it has the lock. *)
GetPublishBlindly(r) ==
  /\ gpc[r] = "publish"
  /\ active' = [active EXCEPT ![gid[r]] = gs[r]]
  /\ owner' = [owner EXCEPT ![gs[r]] = gid[r]]
  /\ g1' = [g1 EXCEPT ![gs[r]] = "start"]
  /\ g2' = [g2 EXCEPT ![gs[r]] = "select"]
  /\ gpc' = [gpc EXCEPT ![r] = "sync"]
  /\ UNCHANGED <<nsess, cancelled, timeVars, gid, gs>>

(* Under the lock the map still has no session for the id: this one is put *)
(* there and its goroutines are started.                                   *)
GetPublish(r) ==
  /\ gpc[r] = "publish"
  /\ active[gid[r]] = None
  /\ active' = [active EXCEPT ![gid[r]] = gs[r]]
  /\ owner' = [owner EXCEPT ![gs[r]] = gid[r]]
  /\ g1' = [g1 EXCEPT ![gs[r]] = "start"]
  /\ g2' = [g2 EXCEPT ![gs[r]] = "select"]
  /\ gpc' = [gpc EXCEPT ![r] = "sync"]
  /\ UNCHANGED <<nsess, cancelled, timeVars, gid, gs>>

(* Mutant: a Get that comes second returns the client it has built. *)
GetLosesOwn(r) ==
  /\ gpc[r] = "publish"
  /\ active[gid[r]] # None
  /\ gpc' = [gpc EXCEPT ![r] = "using"]
  /\ UNCHANGED <<active, nsess, owner, cancelled, g1, g2, timeVars, gid, gs>>

(* Another goroutine has put its session there: Get returns the client of  *)
(* that one and forgets its own, which was never started.                  *)
GetLoses(r) ==
  /\ gpc[r] = "publish"
  /\ active[gid[r]] # None
  /\ gpc' = [gpc EXCEPT ![r] = "using"]
  /\ gs' = [gs EXCEPT ![r] = active[gid[r]]]
  /\ UNCHANGED <<active, nsess, owner, cancelled, g1, g2, timeVars, gid>>

(* WaitForCacheSync returns true, which it does only for a cache that runs. *)
GetSynced(r) ==
  /\ gpc[r] = "sync"
  /\ g1[gs[r]] = "start"
  /\ ~cancelled[gs[r]]
  /\ gpc' = [gpc EXCEPT ![r] = "using"]
  /\ UNCHANGED <<active, nsess, owner, cancelled, g1, g2, timeVars, gid, gs>>

(* WaitForCacheSync returns false: because the context is cancelled, or    *)
(* because the cache gives up.                                             *)
GetNotSynced(r) ==
  /\ gpc[r] = "sync"
  /\ gpc' = [gpc EXCEPT ![r] = "drop"]
  /\ UNCHANGED <<active, nsess, owner, cancelled, g1, g2, timeVars, gid, gs>>

(* remove(id), and Get returns the error. *)
GetDrop(r) ==
  /\ gpc[r] = "drop"
  /\ Remove(gid[r])
  /\ Return(r)
  /\ UNCHANGED <<nsess, owner, g1, g2>>

(* The request calls a method of its client, or is finished with it. *)
Use(r) ==
  /\ gpc[r] = "using"
  /\ idle' = [idle EXCEPT ![gs[r]] = 0]
  /\ UNCHANGED <<active, nsess, owner, cancelled, g1, g2, age, getVars>>

Release(r) ==
  /\ gpc[r] = "using"
  /\ Return(r)
  /\ UNCHANGED <<active, nsess, owner, cancelled, g1, g2, timeVars>>

-----------------------------------------------------------------------------
(* The goroutines of a session. *)

(* ca.Start returns: the context is cancelled, or the cache crashed. *)
CacheStops(s) ==
  /\ g1[s] = "start"
  /\ g1' = [g1 EXCEPT ![s] = "remove"]
  /\ UNCHANGED <<active, nsess, owner, cancelled, g2, timeVars, getVars>>

CacheStopped(s) ==
  /\ g1[s] = "remove"
  /\ Remove(owner[s])
  /\ g1' = [g1 EXCEPT ![s] = "done"]
  /\ UNCHANGED <<nsess, owner, g2, getVars>>

(* case <-expiration.C() *)
Expires(s) ==
  /\ g2[s] = "select"
  /\ age[s] = Expiry
  /\ g2' = [g2 EXCEPT ![s] = "remove"]
  /\ UNCHANGED <<active, nsess, owner, cancelled, g1, timeVars, getVars>>

(* case <-ctx.Done() *)
ContextDone(s) ==
  /\ g2[s] = "select"
  /\ cancelled[s]
  /\ g2' = [g2 EXCEPT ![s] = "remove"]
  /\ UNCHANGED <<active, nsess, owner, cancelled, g1, timeVars, getVars>>

(* Mutant: the goroutine ends without remove. *)
ExpirationForgets(s) ==
  /\ g2[s] = "remove"
  /\ g2' = [g2 EXCEPT ![s] = "done"]
  /\ UNCHANGED <<active, cancelled, nsess, owner, g1, timeVars, getVars>>

ExpirationDone(s) ==
  /\ g2[s] = "remove"
  /\ Remove(owner[s])
  /\ g2' = [g2 EXCEPT ![s] = "done"]
  /\ UNCHANGED <<nsess, owner, g1, getVars>>

(* The bound of the model on the two clocks of a session: once a ticker has *)
(* fired, more ticks tell nothing apart.                                   *)
UpTo(n) == IF n < Expiry THEN n ELSE Expiry

(* The sessions whose ticker runs, for which time passes. *)
Running == {s \in Sessions :
              /\ Published(s) \/ \E r \in Requests : gpc[r] = "publish" /\ gs[r] = s
              /\ ~cancelled[s]}

Tick ==
  /\ \E s \in Running : age[s] < Expiry \/ idle[s] < Expiry
  /\ age' = [s \in Sessions |-> IF s \in Running THEN UpTo(age[s] + 1) ELSE age[s]]
  /\ idle' = [s \in Sessions |-> IF s \in Running THEN UpTo(idle[s] + 1) ELSE idle[s]]
  /\ UNCHANGED <<active, nsess, owner, cancelled, g1, g2, getVars>>

-----------------------------------------------------------------------------
GetStep(r) ==
  \/ GetBuildFails(r) \/ GetBuild(r) \/ GetPublish(r) \/ GetLoses(r)
  \/ GetSynced(r) \/ GetDrop(r)

SessionStep(s) == CacheStopped(s) \/ ContextDone(s) \/ Expires(s) \/ ExpirationDone(s)

Next ==
  \/ \E r \in Requests :
       \/ \E id \in Ids : GetHit(r, id) \/ GetMiss(r, id)
       \/ GetStep(r) \/ GetNotSynced(r) \/ Use(r) \/ Release(r)
  \/ \E s \in Sessions : SessionStep(s) \/ CacheStops(s)
  \/ Tick

Spec == Init /\ [][Next]_vars

(* Goroutines that can run do, and time passes.  A cache stops once its    *)
(* context is cancelled, and WaitForCacheSync then returns false; nothing  *)
(* obliges a cache to sync or to crash, or a request to call Get.          *)
Fairness ==
  /\ WF_vars(Tick)
  /\ \A r \in Requests :
       /\ WF_vars(GetBuildFails(r) \/ GetBuild(r) \/ GetPublish(r) \/ GetLoses(r) \/ GetDrop(r))
       /\ WF_vars(GetNotSynced(r) /\ cancelled[gs[r]])
  /\ \A s \in Sessions :
       /\ WF_vars(SessionStep(s))
       /\ WF_vars(CacheStops(s) /\ cancelled[s])

FairSpec == Spec /\ Fairness

-----------------------------------------------------------------------------
VarTypes ==
  /\ active \in [Ids -> Sessions \cup {None}]
  /\ nsess \in 0..MaxSessions
  /\ owner \in [Sessions -> Ids \cup {NoId}]
  /\ cancelled \in [Sessions -> BOOLEAN]
  /\ g1 \in [Sessions -> {"none", "start", "remove", "done"}]
  /\ g2 \in [Sessions -> {"none", "select", "remove", "done"}]
  /\ age \in [Sessions -> 0..Expiry]
  /\ idle \in [Sessions -> 0..Expiry]
  /\ gpc \in [Requests -> {"idle", "build", "publish", "sync", "drop", "using"}]
  /\ gid \in [Requests -> Ids \cup {NoId}]
  /\ gs \in [Requests -> Sessions \cup {None}]

(* A request in the middle of Get, or with a client, has an id and a session. *)
GetLocals ==
  \A r \in Requests : gpc[r] # "idle" => gid[r] \in Ids /\ gs[r] \in Sessions

TypeOK == VarTypes /\ GetLocals

(* A session that Get may hand out is alive: it belongs to the id it is    *)
(* filed under, nobody has cancelled it, and both its goroutines are still *)
(* there to take it out of the map when it stops or expires.               *)
ActiveIsLive ==
  \A id \in Ids : LET s == active[id] IN
    s # None =>
      /\ owner[s] = id
      /\ ~cancelled[s]
      /\ g1[s] \in {"start", "remove"}
      /\ g2[s] \in {"select", "remove"}

(* No session goes on running outside the map, where nothing could stop    *)
(* it: whatever was published and is no longer active has been cancelled.  *)
NoOrphans ==
  \A s \in Sessions : Published(s) /\ active[owner[s]] # s => cancelled[s]

(* A session is alive exactly while it is active, although removal goes by *)
(* id, and the goroutines of a session that has been replaced go on.       *)
ActiveIffLive == ActiveIsLive /\ NoOrphans

(* A request that has or waits for a client has it from a session of the   *)
(* id it asked for, however Get calls for different ids interleave.        *)
OwnClient ==
  \A r \in Requests : gpc[r] \in {"sync", "drop", "using"} => owner[gs[r]] = gid[r]

(* Every published session ends: it is cancelled, its cache stops and both *)
(* its goroutines return (clients.go:307-323), also if it never synced.    *)
SessionsEnd == \A s \in Sessions : (g1[s] = "start") ~> (g1[s] = "done" /\ g2[s] = "done")

(* A call of Get returns, whether the cache syncs, crashes or expires.     *)
GetReturns ==
  \A r \in Requests :
    (gpc[r] \in {"build", "publish", "sync", "drop"}) ~> (gpc[r] \in {"idle", "using"})

(* Nothing that Get starts goes on for ever, nor does Get.                 *)
AllReturn == SessionsEnd /\ GetReturns

(* "We expired, and should remove ourself from the session cache"          *)
(* (clients.go:317): a session leaves the map only when one of its own     *)
(* goroutines, or the Get call that published it, takes it out.            *)
RemovedByItself ==
  [][\A id \in Ids : active[id] # None /\ active'[id] = None =>
       \/ g1[active[id]] = "remove"
       \/ g2[active[id]] = "remove"
       \/ \E r \in Requests : gpc[r] = "drop" /\ gs[r] = active[id]]_vars

(* "Each time any of a client's methods are called the expiry time is      *)
(* reset" (clients.go:166): a session expires only if its client has not   *)
(* been used for the expiry duration.                                      *)
ExpiresOnlyIdle ==
  [][\A s \in Sessions :
       g2[s] = "select" /\ g2'[s] = "remove" /\ ~cancelled[s] => idle[s] = Expiry]_vars
=============================================================================
