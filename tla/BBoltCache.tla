----------------------------- MODULE BBoltCache -----------------------------
(***************************************************************************)
(* internal/cache/bbolt_cache.go: the cache that moves objects nobody has  *)
(* read for a minute from memory to a bolt database and reads them back.   *)
(*                                                                         *)
(* Three kinds of goroutine share it.  Informers put a new version of an   *)
(* object through putObject and then into their store.  The cleaner (see   *)
(* the Cleaner module; here it is a map of what is scheduled) passes       *)
(* expired objects to cleanup, which writes them to the database and       *)
(* zeroes them.  Readers run Get and List, and the readers of one request  *)
(* share a read transaction.                                               *)
(*                                                                         *)
(* Objects are memory cells.  The underlying cache (external) copies the   *)
(* stored object into the one the caller passed, without a deep copy, so   *)
(* what is scheduled and filled from the database is the caller's copy.    *)
(***************************************************************************)
EXTENDS Integers, Sequences, FiniteSets

CONSTANTS
  Keys,       \* uids of objects: positive integers, cleanup sorts them
  Readers,    \* Get and List calls in progress
  Requests,   \* the requests they belong to
  Failures,   \* whether the database, marshalFn and unmarshalFn fail
  MaxVersion  \* bound on the number of versions of objects

ASSUME BBoltCacheAssumption ==
  /\ Keys \subseteq Nat \ {0}
  /\ IsFiniteSet(Keys)
  /\ IsFiniteSet(Readers)
  /\ "store" \notin Readers
  /\ Failures \in BOOLEAN
  /\ MaxVersion \in Nat

(* What is in a cell or in the database: a version of the object, the      *)
(* zeroed object that only has its uid, one without even that, or one that *)
(* was copied while it was being zeroed or is filled in part.              *)
Versions == 1..MaxVersion
Empty    == 0
Blank    == -1
Torn     == -2
Missing  == -3     \* no key in the bucket
Contents == Versions \cup {Empty, Blank, Torn}

NoUID == 0         \* the key of an object without uid

Stored(v)  == <<"store", v>>
Copy(r, k) == <<r, k>>       \* what the caller passed to r is filled with
Cells  == {Stored(v) : v \in Versions} \cup {Copy(r, k) : r \in Readers, k \in Keys}
NoCell == Stored(0)

NoBucket == [bucket |-> FALSE, data |-> [k \in Keys |-> Missing]]
NoTx     == [open |-> FALSE, snap |-> NoBucket]

VARIABLES
  nver,      \* number of versions so far
  uid,       \* uid[v]: the key of the object v is a version of
  store,     \* store[k]: the version in the informer's store, 0 if none
  putting,   \* the version that is between putObject and the store, or 0
  heap,      \* heap[c]: what is in cell c
  sched,     \* sched[k]: the cell the cleaner holds for the key
  young,     \* young[k]: the readers that run since before it was scheduled
  db,        \* the committed content of the database
  cpc,       \* where the cleaner's goroutine is in cleanup
  objs,      \* the cells it still has to clean
  wtx,       \* the content as seen by its write transaction
  rpc,       \* rpc[r]: where reader r is
  req,       \* req[r]: its request
  want,      \* want[r]: the keys of the items it still has to rehydrate
  item,      \* item[r]: the key of the item it is rehydrating
  floor,     \* history: floor[r][k]: the stored version when r read k, or 0
  failed,    \* failed[r]: Get or List returns an error
  bx,        \* bx[q]: the boltTxCtx of the request and its tx
  leaked,    \* leaked[q]: the snapshots of the read transactions that the
             \* request has forgotten and never rolls back
  spoilt,    \* history: objects that were read during their own cleanup or
             \* are older in the snapshot of a request that has read them,
             \* or whose value could not be unmarshalled
  cancelled, \* the context of Start's errgroup is done
  closed     \* the database is closed and the file removed

informerVars == <<nver, uid, store, putting>>
cleanerVars  == <<cpc, objs, wtx>>
readerVars   == <<rpc, req, want, item, floor, failed>>
startVars    == <<cancelled, closed>>

vars == <<informerVars, heap, sched, young, db, cleanerVars, readerVars, bx, leaked, spoilt,
          startVars>>

-----------------------------------------------------------------------------
Init ==
  /\ nver = 0
  /\ uid = [v \in Versions |-> NoUID]
  /\ store = [k \in Keys |-> 0]
  /\ putting = 0
  /\ heap = [c \in Cells |-> Empty]
  /\ sched = [k \in Keys \cup {NoUID} |-> NoCell]
  /\ young = [k \in Keys \cup {NoUID} |-> {}]
  /\ db = NoBucket
  /\ cpc = "idle"
  /\ objs = <<>>
  /\ wtx = NoBucket
  /\ rpc = [r \in Readers |-> "idle"]
  /\ req \in [Readers -> Requests]
  /\ want = [r \in Readers |-> {}]
  /\ item = [r \in Readers |-> NoUID]
  /\ floor = [r \in Readers |-> [k \in Keys |-> 0]]
  /\ failed = [r \in Readers |-> FALSE]
  /\ bx = [q \in Requests |-> [used |-> 0, tx |-> NoTx]]
  /\ leaked = [q \in Requests |-> {}]
  /\ spoilt = {}
  /\ cancelled = FALSE
  /\ closed = FALSE

Reading(r) == rpc[r] \notin {"idle", "returned"}

(* A Get or List that returns the object is in progress. *)
IsRead(k) == \E r \in Readers : Reading(r) /\ floor[r][k] # 0

KeyOf(c) == IF c[1] = "store" THEN uid[c[2]] ELSE c[2]

(* getKey: the uid of the object, if it has one. *)
getKey(c) == IF heap[c] = Blank THEN NoUID ELSE KeyOf(c)

(* cleanup is to write the object, or has not committed what it has        *)
(* written.                                                                *)
InCleanup(k) ==
  \/ /\ cpc \in {"update", "put", "zero", "uid"}
     /\ \E i \in 1..Len(objs) : KeyOf(objs[i]) = k
  \/ /\ cpc \in {"put", "zero", "uid"}
     /\ wtx.data[k] # db.data[k]

(* The bucket that the readers of a request share is older than what is    *)
(* committed of the object.                                                *)
IsStale(q, k) == bx[q].tx.snap.bucket /\ bx[q].tx.snap.data[k] # db.data[k]

(* c.cleaner.Schedule(object, 1*time.Minute): it replaces the cell of the  *)
(* key.  What runs now will have ended when the minute is over.            *)
Schedule(k, c, busy) ==
  /\ sched' = [sched EXCEPT ![k] = c]
  /\ young' = [young EXCEPT ![k] = busy]

-----------------------------------------------------------------------------
(* The informer. *)

(* putObject, called for a new version before it is stored. *)
putObject(k) ==
  /\ ~cancelled
  /\ putting = 0
  /\ nver < MaxVersion
  /\ LET v == nver + 1
     IN /\ nver' = v
        /\ uid' = [uid EXCEPT ![v] = k]
        /\ putting' = v
        /\ heap' = [heap EXCEPT ![Stored(v)] = v]
        /\ Schedule(k, Stored(v), {r \in Readers : Reading(r)} \cup {"store"})
  /\ UNCHANGED <<store, db, cleanerVars, readerVars, bx, leaked, spoilt, startVars>>

(* The informer replaces the object in its store. *)
Put ==
  /\ putting # 0
  /\ store' = [store EXCEPT ![uid[putting]] = putting]
  /\ putting' = 0
  /\ young' = [k \in DOMAIN young |-> young[k] \ {"store"}]
  /\ UNCHANGED <<nver, uid, heap, sched, db, cleanerVars, readerVars, bx, leaked, spoilt,
                 startVars>>

-----------------------------------------------------------------------------
(* cleanup. *)

(* The cleaner collects the cells of some keys whose minute is over, and   *)
(* cleanup sorts them by key.                                              *)
Collect(ks) ==
  /\ cpc = "idle"
  /\ ks # {}
  /\ \A k \in ks : sched[k] # NoCell /\ young[k] = {}
  /\ \E sorted \in [1..Cardinality(ks) -> ks] :
       /\ \A i, j \in 1..Cardinality(ks) : i < j => sorted[i] < sorted[j]
       /\ objs' = [i \in 1..Cardinality(ks) |-> sched[sorted[i]]]
  /\ sched' = [k \in DOMAIN sched |-> IF k \in ks THEN NoCell ELSE sched[k]]
  /\ cpc' = "update"
  /\ spoilt' = spoilt \cup {k \in Keys : IsRead(k) /\ \E j \in ks : KeyOf(sched[j]) = k}
  /\ UNCHANGED <<informerVars, heap, young, db, wtx, readerVars, bx, leaked, startVars>>

(* db.Update begins a transaction; CreateBucketIfNotExists. *)
CleanBegin ==
  /\ cpc = "update"
  /\ ~closed
  /\ wtx' = [db EXCEPT !.bucket = TRUE]
  /\ cpc' = "put"
  /\ UNCHANGED <<informerVars, heap, sched, young, db, objs, readerVars, bx, leaked, spoilt,
                 startVars>>

(* Mutant: a key that exists is not written again. *)
CleanPutOnce ==
  /\ cpc = "put"
  /\ objs # <<>>
  /\ getKey(Head(objs)) # NoUID
  /\ wtx' = [wtx EXCEPT !.data[getKey(Head(objs))] = IF @ = Missing THEN heap[Head(objs)] ELSE @]
  /\ cpc' = "zero"
  /\ UNCHANGED <<informerVars, heap, sched, young, db, objs, readerVars, bx, leaked, spoilt,
                 startVars>>

(* marshalFn and Put.  A key must not be empty. *)
CleanPut ==
  /\ cpc = "put"
  /\ objs # <<>>
  /\ getKey(Head(objs)) # NoUID
  /\ wtx' = [wtx EXCEPT !.data[getKey(Head(objs))] = heap[Head(objs)]]
  /\ cpc' = "zero"
  /\ UNCHANGED <<informerVars, heap, sched, young, db, objs, readerVars, bx, leaked, spoilt,
                 startVars>>

(* setZero: SetZeroValue, *)
SetZeroValue ==
  /\ cpc = "zero"
  /\ heap' = [heap EXCEPT ![Head(objs)] = Blank]
  /\ cpc' = "uid"
  /\ UNCHANGED <<informerVars, sched, young, db, objs, wtx, readerVars, bx, leaked, spoilt,
                 startVars>>

(* and the deferred SetUID. *)
SetUID ==
  /\ cpc = "uid"
  /\ heap' = [heap EXCEPT ![Head(objs)] = Empty]
  /\ objs' = Tail(objs)
  /\ cpc' = "put"
  /\ UNCHANGED <<informerVars, sched, young, db, wtx, readerVars, bx, leaked, spoilt,
                 startVars>>

CleanCommit ==
  /\ cpc = "put"
  /\ objs = <<>>
  /\ db' = wtx
  /\ cpc' = "idle"
  /\ UNCHANGED <<informerVars, heap, sched, young, objs, wtx, readerVars, bx, leaked, spoilt,
                 startVars>>

(* An error rolls the transaction back, ends the cleaner's Start and with  *)
(* it the cache.                                                           *)
CleanFails ==
  /\ \/ cpc = "update" /\ (closed \/ Failures)
     \/ cpc = "put" /\ objs # <<>> /\ getKey(Head(objs)) = NoUID
     \/ cpc \in {"put", "zero"} /\ Failures
  /\ cpc' = "stopped"
  /\ cancelled' = TRUE
  /\ UNCHANGED <<informerVars, heap, sched, young, db, objs, wtx, readerVars, bx, leaked, spoilt,
                 closed>>

-----------------------------------------------------------------------------
(* Get and List; a Get is a List of one item. *)

(* c.Cache.Get or c.Cache.List fills the cells of the caller.  A cell that *)
(* cleanup is zeroing meanwhile is copied in either of two wrong ways.     *)
Read(r, ks) ==
  /\ rpc[r] = "idle"
  /\ ks # {}
  /\ \A k \in ks : store[k] # 0
  /\ \A k \in Keys : Copy(r, k) # sched[k] /\ Copy(r, k) # sched[NoUID]
  /\ \A i \in 1..Len(objs) : objs[i][1] # r
  /\ \E torn \in {Blank, Torn} :
       heap' = [c \in Cells |->
                  IF c[1] = r /\ c[2] \in ks
                  THEN IF cpc = "uid" /\ Stored(store[c[2]]) = Head(objs) THEN torn
                       ELSE heap[Stored(store[c[2]])]
                  ELSE heap[c]]
  /\ want' = [want EXCEPT ![r] = ks]
  /\ floor' = [floor EXCEPT ![r] = [k \in Keys |-> IF k \in ks THEN store[k] ELSE 0]]
  /\ failed' = [failed EXCEPT ![r] = FALSE]
  /\ rpc' = [rpc EXCEPT ![r] = "tx"]
  /\ spoilt' = spoilt \cup {k \in ks : InCleanup(k) \/ IsStale(req[r], k)}
  /\ UNCHANGED <<informerVars, sched, young, db, cleanerVars, req, item, bx, leaked, startVars>>

(* txOnce counts the reader. *)
txOnce(r) ==
  /\ rpc[r] = "tx"
  /\ bx' = [bx EXCEPT ![req[r]].used = @ + 1]
  /\ rpc' = [rpc EXCEPT ![r] = "items"]
  /\ UNCHANGED <<informerVars, heap, sched, young, db, cleanerVars, req, want, item, floor,
                 failed, leaked, spoilt, startVars>>

(* rehydrateObject: Schedule, and then isZero. *)
rehydrateObject(r, k) ==
  LET c == Copy(r, k) IN
  /\ rpc[r] = "items"
  /\ k \in want[r]
  /\ Schedule(getKey(c), c, {p \in Readers : Reading(p)} \cup IF putting = 0 THEN {} ELSE {"store"})
  /\ IF heap[c] \in {Empty, Blank}
     THEN /\ rpc' = [rpc EXCEPT ![r] = "bucket"]
          /\ item' = [item EXCEPT ![r] = k]
          /\ UNCHANGED want
     ELSE /\ want' = [want EXCEPT ![r] = @ \ {k}]
          /\ UNCHANGED <<rpc, item>>
  /\ UNCHANGED <<informerVars, heap, db, cleanerVars, req, floor, failed, bx, leaked, spoilt,
                 startVars>>

(* getBucket when the request has a bucket already. *)
SharedBucket(r) ==
  /\ rpc[r] = "bucket"
  /\ bx[req[r]].tx.snap.bucket
  /\ rpc' = [rpc EXCEPT ![r] = "value"]
  /\ UNCHANGED <<informerVars, heap, sched, young, db, cleanerVars, req, want, item, floor,
                 failed, bx, leaked, spoilt, startVars>>

(* getBucket begins a read transaction: a snapshot of what is committed.   *)
(* If there is no bucket in it the next call begins another one.           *)
NewBucket(r) ==
  /\ rpc[r] = "bucket"
  /\ ~bx[req[r]].tx.snap.bucket
  /\ ~closed
  /\ bx' = [bx EXCEPT ![req[r]].tx = [open |-> TRUE, snap |-> db]]
  /\ leaked' = [leaked EXCEPT ![req[r]] =
                   IF bx[req[r]].tx.open THEN @ \cup {bx[req[r]].tx.snap} ELSE @]
  /\ rpc' = [rpc EXCEPT ![r] = IF db.bucket THEN "value" ELSE "done"]
  /\ failed' = [failed EXCEPT ![r] = ~db.bucket]
  /\ UNCHANGED <<informerVars, heap, sched, young, db, cleanerVars, req, want, item, floor,
                 spoilt, startVars>>

(* The database is closed. *)
NoDB(r) ==
  /\ rpc[r] = "bucket"
  /\ ~bx[req[r]].tx.snap.bucket
  /\ closed
  /\ rpc' = [rpc EXCEPT ![r] = "done"]
  /\ failed' = [failed EXCEPT ![r] = TRUE]
  /\ UNCHANGED <<informerVars, heap, sched, young, db, cleanerVars, req, want, item, floor,
                 bx, leaked, spoilt, startVars>>

(* Mutant: the value is unmarshalled into an object that is dropped. *)
ValueDropped(r) ==
  /\ rpc[r] = "value"
  /\ want' = [want EXCEPT ![r] = @ \ {item[r]}]
  /\ rpc' = [rpc EXCEPT ![r] = "items"]
  /\ UNCHANGED <<informerVars, heap, sched, young, db, cleanerVars, req, item, floor, failed,
                 bx, leaked, spoilt, startVars>>

(* b.Get. *)
Got(r) == IF getKey(Copy(r, item[r])) = NoUID THEN Missing
          ELSE bx[req[r]].tx.snap.data[item[r]]

(* b.Get and unmarshalFn. *)
Value(r) ==
  /\ rpc[r] = "value"
  /\ Got(r) # Missing
  /\ heap' = [heap EXCEPT ![Copy(r, item[r])] = Got(r)]
  /\ want' = [want EXCEPT ![r] = @ \ {item[r]}]
  /\ rpc' = [rpc EXCEPT ![r] = "items"]
  /\ UNCHANGED <<informerVars, sched, young, db, cleanerVars, req, item, floor, failed, bx,
                 leaked, spoilt, startVars>>

(* There is no such key. *)
NoKey(r) ==
  /\ rpc[r] = "value"
  /\ Got(r) = Missing
  /\ rpc' = [rpc EXCEPT ![r] = "done"]
  /\ failed' = [failed EXCEPT ![r] = TRUE]
  /\ UNCHANGED <<informerVars, heap, sched, young, db, cleanerVars, req, want, item, floor, bx,
                 leaked, spoilt, startVars>>

(* unmarshalFn fails, and may have filled a part of the object. *)
UnmarshalFails(r) ==
  /\ Failures
  /\ rpc[r] = "value"
  /\ Got(r) # Missing
  /\ heap' \in {heap, [heap EXCEPT ![Copy(r, item[r])] = Torn]}
  /\ rpc' = [rpc EXCEPT ![r] = "done"]
  /\ failed' = [failed EXCEPT ![r] = TRUE]
  /\ spoilt' = spoilt \cup {item[r]}
  /\ UNCHANGED <<informerVars, sched, young, db, cleanerVars, req, want, item, floor, bx,
                 leaked, startVars>>

(* All items are there. *)
AllItems(r) ==
  /\ rpc[r] = "items"
  /\ want[r] = {}
  /\ rpc' = [rpc EXCEPT ![r] = "done"]
  /\ UNCHANGED <<informerVars, heap, sched, young, db, cleanerVars, req, want, item, floor,
                 failed, bx, leaked, spoilt, startVars>>

(* Mutant: every reader rolls the shared transaction back. *)
doneAlways(r) ==
  /\ rpc[r] = "done"
  /\ bx' = [bx EXCEPT ![req[r]] = [used |-> @.used - 1, tx |-> NoTx]]
  /\ rpc' = [rpc EXCEPT ![r] = "returned"]
  /\ young' = [k \in DOMAIN young |-> young[k] \ {r}]
  /\ UNCHANGED <<informerVars, heap, sched, db, cleanerVars, req, want, item, floor, failed,
                 leaked, spoilt, startVars>>

(* Mutant: used is compared before it is decremented. *)
doneKeeps(r) ==
  /\ rpc[r] = "done"
  /\ bx' = [bx EXCEPT ![req[r]] =
              [used |-> @.used - 1, tx |-> IF @.used > 0 THEN @.tx ELSE NoTx]]
  /\ rpc' = [rpc EXCEPT ![r] = "returned"]
  /\ young' = [k \in DOMAIN young |-> young[k] \ {r}]
  /\ UNCHANGED <<informerVars, heap, sched, db, cleanerVars, req, want, item, floor, failed,
                 leaked, spoilt, startVars>>

(* Mutant: the error path calls done, too. *)
doneTwice(r) ==
  /\ rpc[r] = "done"
  /\ bx' = [bx EXCEPT ![req[r]] =
              [used |-> @.used - (IF failed[r] THEN 2 ELSE 1),
               tx |-> IF @.used > 1 THEN @.tx ELSE NoTx]]
  /\ rpc' = [rpc EXCEPT ![r] = "returned"]
  /\ young' = [k \in DOMAIN young |-> young[k] \ {r}]
  /\ UNCHANGED <<informerVars, heap, sched, db, cleanerVars, req, want, item, floor, failed,
                 leaked, spoilt, startVars>>

(* done: the last reader of the request rolls the transaction back; Get or *)
(* List returns.                                                           *)
done(r) ==
  /\ rpc[r] = "done"
  /\ bx' = [bx EXCEPT ![req[r]] =
              [used |-> @.used - 1, tx |-> IF @.used > 1 THEN @.tx ELSE NoTx]]
  /\ rpc' = [rpc EXCEPT ![r] = "returned"]
  /\ young' = [k \in DOMAIN young |-> young[k] \ {r}]
  /\ UNCHANGED <<informerVars, heap, sched, db, cleanerVars, req, want, item, floor, failed,
                 leaked, spoilt, startVars>>

(* The caller is through with what it read. *)
Release(r) ==
  /\ rpc[r] = "returned"
  /\ rpc' = [rpc EXCEPT ![r] = "idle"]
  /\ floor' = [floor EXCEPT ![r] = [k \in Keys |-> 0]]
  /\ UNCHANGED <<informerVars, heap, sched, young, db, cleanerVars, req, want, item, failed,
                 bx, leaked, spoilt, startVars>>

-----------------------------------------------------------------------------
(* Start. *)

(* The context of Start is done. *)
Cancel ==
  /\ ~cancelled
  /\ cancelled' = TRUE
  /\ UNCHANGED <<informerVars, heap, sched, young, db, cleanerVars, readerVars, bx, leaked, spoilt,
                 closed>>

(* The cleaner's Start returns. *)
CleanerDone ==
  /\ cpc = "idle"
  /\ cancelled
  /\ cpc' = "stopped"
  /\ UNCHANGED <<informerVars, heap, sched, young, db, objs, wtx, readerVars, bx, leaked, spoilt,
                 startVars>>

(* db.Close waits for all transactions. *)
Close ==
  /\ cancelled
  /\ ~closed
  /\ cpc \in {"idle", "update", "stopped"}
  /\ \A q \in Requests : leaked[q] = {}
  /\ \A q \in Requests : ~bx[q].tx.open
  /\ closed' = TRUE
  /\ UNCHANGED <<informerVars, heap, sched, young, db, cleanerVars, readerVars, bx, leaked, spoilt,
                 cancelled>>

-----------------------------------------------------------------------------
Cleaner ==
  \/ \E ks \in SUBSET DOMAIN sched : Collect(ks)
  \/ CleanBegin \/ CleanPut \/ SetZeroValue \/ SetUID \/ CleanCommit \/ CleanFails
  \/ CleanerDone

Reader(r) ==
  \/ txOnce(r)
  \/ \E k \in Keys : rehydrateObject(r, k)
  \/ SharedBucket(r) \/ NewBucket(r) \/ NoDB(r)
  \/ Value(r) \/ NoKey(r) \/ UnmarshalFails(r)
  \/ AllItems(r)
  \/ done(r)

Next ==
  \/ \E k \in Keys : putObject(k)
  \/ Put
  \/ Cleaner
  \/ \E r \in Readers :
       \/ \E ks \in SUBSET Keys : Read(r, ks)
       \/ Reader(r)
       \/ Release(r)
  \/ Cancel
  \/ Close

Spec == Init /\ [][Next]_vars

(* Goroutines that can run do; the select of the cleaner does not put off  *)
(* the end of its context for ever, and a reader that begins a transaction *)
(* while Close waits comes after it.                                       *)
Fairness ==
  /\ WF_vars(Put)
  /\ WF_vars(Cleaner) /\ SF_vars(CleanerDone)
  /\ SF_vars(Close)
  /\ \A r \in Readers : WF_vars(Reader(r))

FairSpec == Spec /\ Fairness

-----------------------------------------------------------------------------
Snapshots == [bucket : BOOLEAN, data : [Keys -> Contents \cup {Missing}]]

TypeOK ==
  /\ nver \in 0..MaxVersion
  /\ uid \in [Versions -> Keys \cup {NoUID}]
  /\ store \in [Keys -> 0..MaxVersion]
  /\ putting \in 0..MaxVersion
  /\ heap \in [Cells -> Contents]
  /\ sched \in [Keys \cup {NoUID} -> Cells \cup {NoCell}]
  /\ young \in [Keys \cup {NoUID} -> SUBSET (Readers \cup {"store"})]
  /\ db \in Snapshots
  /\ cpc \in {"idle", "update", "put", "zero", "uid", "stopped"}
  /\ objs \in Seq(Cells)
  /\ wtx \in Snapshots
  /\ rpc \in [Readers -> {"idle", "tx", "items", "bucket", "value", "done", "returned"}]
  /\ req \in [Readers -> Requests]
  /\ want \in [Readers -> SUBSET Keys]
  /\ item \in [Readers -> Keys \cup {NoUID}]
  /\ floor \in [Readers -> [Keys -> 0..MaxVersion]]
  /\ failed \in [Readers -> BOOLEAN]
  /\ bx \in [Requests -> [used : Nat, tx : [open : BOOLEAN, snap : Snapshots]]]
  /\ leaked \in [Requests -> SUBSET Snapshots]
  /\ spoilt \subseteq Keys
  /\ cancelled \in BOOLEAN
  /\ closed \in BOOLEAN

InTx(r) == rpc[r] \in {"items", "bucket", "value", "done"}

(* A reader that looks for a value has a bucket whose transaction no other *)
(* reader of the request has rolled back or replaced, and the database of  *)
(* which is not closed.                                                    *)
BucketIsOpen ==
  \A r \in Readers : rpc[r] = "value" =>
    bx[req[r]].tx.open /\ bx[req[r]].tx.snap.bucket /\ ~closed

(* The transaction that a request has begun last is open only while one of *)
(* its readers is between txOnce and done, and one that it has forgotten   *)
(* was begun when there was no bucket yet (bbolt_cache.go:317-345).        *)
TxIsUsed ==
  \A q \in Requests :
    /\ bx[q].tx.open => \E r \in Readers : req[r] = q /\ InTx(r)
    /\ \A snap \in leaked[q] : ~snap.bucket

(* Readers of a request come and go without taking the transaction from    *)
(* each other or leaving it open, but for those that are begun again       *)
(* because there is no bucket.                                             *)
TxMatchesReaders == BucketIsOpen /\ TxIsUsed

(* "a shared read transaction for the entire request that will be rolled   *)
(* back when the last reader calls done()" (bbolt_cache.go:297-298): every *)
(* open transaction of a request, forgotten or not, has a reader.          *)
RolledBackByLast ==
  \A q \in Requests : bx[q].tx.open \/ leaked[q] # {} => \E r \in Readers : req[r] = q /\ InTx(r)

(* Until the cache is told to stop, what Get and List return is not older  *)
(* than what the informer had stored when they began, whether it was in    *)
(* memory or in the database.                                              *)
ReadIsCurrent ==
  \A r \in Readers : rpc[r] = "done" /\ ~failed[r] /\ ~cancelled =>
    \A k \in Keys \ spoilt : floor[r][k] # 0 => heap[Copy(r, k)] >= floor[r][k]

(* A read fails only when the cache has been told to stop, or because of   *)
(* an object that is spoilt: others are found, though they were zeroed.    *)
ReadSucceeds ==
  \A r \in Readers : rpc[r] = "done" /\ failed[r] =>
    cancelled \/ \E k \in spoilt : floor[r][k] # 0

(* Until then every object that is in the store can be read as it is, in   *)
(* any interleaving with informers, other reads and cleanups but these: a  *)
(* cleanup of the same object, and a cleanup of it since the request began *)
(* its transaction.                                                        *)
ReadsAreRight == ReadSucceeds /\ ReadIsCurrent

(* While the cleaner runs, and is not in the middle of cleanup, an object  *)
(* that was zeroed in memory is stored in the database as it was           *)
(* (bbolt_cache.go:166-167, 214-215).                                      *)
IsPersisted(k) ==
  cpc = "idle" /\ store[k] # 0 /\ heap[Stored(store[k])] = Empty
    => db.bucket /\ db.data[k] = store[k]

ZeroedIsPersisted == \A k \in Keys : IsPersisted(k)

(* The same but for objects that are spoilt: what else readers schedule,   *)
(* from memory or from the database, is never older than what it replaces, *)
(* and a cleanup that is under way hurts nothing it does not hold.         *)
UnspoiltIsPersisted == \A k \in Keys \ spoilt : IsPersisted(k)

(* When the context is done Start returns: the cleaner stops and the       *)
(* database is closed, unless a request always has a reader, one after the *)
(* other, that keeps its transaction open, or has forgotten one.           *)
StartReturns ==
  (\A q \in Requests : []<>(bx[q].used = 0)) =>
    (cancelled ~> ((\E q \in Requests : leaked[q] # {}) \/ (closed /\ cpc = "stopped")))
=============================================================================
