-------------------------- MODULE BBoltCacheProofs --------------------------
(***************************************************************************)
(* What BBoltCache promises, for every set of keys, readers and requests   *)
(* and any number of versions.                                             *)
(*                                                                         *)
(* The first half, up to TransactionsMatchReaders, is about transactions.  *)
(* The second half is about data.  Cleanups and reads overlap freely in    *)
(* both; what the second says of an object excepts those that are spoilt.  *)
(***************************************************************************)
EXTENDS BBoltCache, FiniteSetTheorems, TLAPS

(* The readers that txOnce has counted for a request, and done has not.    *)
UsersIn(q, rq, pc) ==
  {r \in Readers : rq[r] = q /\ pc[r] \in {"items", "bucket", "value", "done"}}

Users(q) == UsersIn(q, req, rpc)

Counted == \A q \in Requests : bx[q].used = Cardinality(Users(q))

(* cleanup zeroes an object it holds; a reader in the database has an item. *)
HasWork ==
  /\ cpc \in {"zero", "uid"} => objs # <<>>
  /\ \A r \in Readers : rpc[r] \in {"bucket", "value"} => item[r] \in want[r]

(* A bucket belongs to an open transaction, and db.Close waits for those.  *)
BucketInTx == \A q \in Requests : bx[q].tx.snap.bucket => bx[q].tx.open

OpenBeforeClose == \A q \in Requests : bx[q].tx.open => ~closed

TxInv ==
  TypeOK /\ Counted /\ HasWork /\ BucketInTx /\ OpenBeforeClose /\ TxMatchesReaders

-----------------------------------------------------------------------------
(* Cells and keys. *)

LEMMA CellFacts ==
  /\ \A v, w : Stored(v) = Stored(w) => v = w
  /\ \A r, k, s, j : Copy(r, k) = Copy(s, j) => r = s /\ k = j
  /\ \A r \in Readers : \A k, v : Copy(r, k) # Stored(v)
  /\ \A v : Stored(v)[1] = "store" /\ Stored(v)[2] = v
  /\ \A r, k : Copy(r, k)[1] = r /\ Copy(r, k)[2] = k
  /\ NoCell \notin Cells
  BY BBoltCacheAssumption DEF Stored, Copy, Cells, NoCell, Versions

LEMMA CellTypes ==
  /\ \A v \in Versions : Stored(v) \in Cells
  /\ \A r \in Readers, k \in Keys : Copy(r, k) \in Cells
  /\ \A c \in Cells : \/ \E v \in Versions : c = Stored(v)
                      \/ \E r \in Readers, k \in Keys : c = Copy(r, k)
  BY DEF Cells

LEMMA KeyFacts ==
  /\ \A v : KeyOf(Stored(v)) = uid[v]
  /\ \A r \in Readers : \A k : KeyOf(Copy(r, k)) = k
<1>1. "store" \notin Readers
  BY BBoltCacheAssumption
<1> QED
  BY <1>1, CellFacts DEF KeyOf

LEMMA KeyTypes ==
  ASSUME TypeOK
  PROVE  /\ \A c \in Cells : KeyOf(c) \in Keys \cup {NoUID}
         /\ \A c \in Cells : getKey(c) \in Keys \cup {NoUID}
<1>1. ASSUME NEW c \in Cells
      PROVE  KeyOf(c) \in Keys \cup {NoUID}
  <2>1. CASE \E v \in Versions : c = Stored(v)
    BY <2>1, KeyFacts DEF TypeOK
  <2>2. CASE \E r \in Readers, k \in Keys : c = Copy(r, k)
    BY <2>2, KeyFacts
  <2> QED
    BY <2>1, <2>2, CellTypes
<1> QED
  BY <1>1 DEF getKey

LEMMA KeySets ==
  /\ 0 \notin Keys /\ Keys \subseteq Nat
  /\ IsFiniteSet(Keys) /\ IsFiniteSet(Readers)
  BY BBoltCacheAssumption

LEMMA VersionTypes == MaxVersion \in Nat /\ Versions = 1..MaxVersion
  BY BBoltCacheAssumption DEF Versions

LEMMA ContentTypes ==
  /\ \A v \in Versions : v \in Contents /\ v # Empty /\ v # Blank /\ v # Missing
  /\ Empty \in Contents /\ Blank \in Contents /\ Torn \in Contents
  /\ Missing \notin Contents /\ Empty # Blank
  BY BBoltCacheAssumption DEF Versions, Contents, Empty, Blank, Torn, Missing

LEMMA FiniteKeySets ==
  ASSUME NEW ks \in SUBSET (Keys \cup {NoUID})
  PROVE  IsFiniteSet(ks) /\ Cardinality(ks) \in Nat
<1>1. IsFiniteSet(Keys \cup {NoUID})
  BY KeySets, FS_AddElement
<1>2. IsFiniteSet(ks)
  BY <1>1, FS_Subset
<1> QED
  BY <1>2, FS_CardinalityType

-----------------------------------------------------------------------------
(* Types. *)

LEMMA ExceptType ==
  ASSUME NEW S, NEW T, NEW f \in [S -> T], NEW x, NEW y \in T
  PROVE  [f EXCEPT ![x] = y] \in [S -> T]
  OBVIOUS

LEMMA InitTypes == Init => TypeOK
<1> SUFFICES ASSUME Init PROVE TypeOK
  OBVIOUS
<1>1. NoBucket \in Snapshots
  BY DEF NoBucket, Snapshots
<1>2. NoTx \in [open : BOOLEAN, snap : Snapshots]
  BY <1>1 DEF NoTx
<1>3. bx \in [Requests -> [used : Nat, tx : [open : BOOLEAN, snap : Snapshots]]]
  BY <1>2 DEF Init
<1>4. objs \in Seq(Cells)
  BY DEF Init
<1>5. /\ nver \in 0..MaxVersion /\ putting \in 0..MaxVersion
      /\ store \in [Keys -> 0..MaxVersion]
      /\ floor \in [Readers -> [Keys -> 0..MaxVersion]]
  BY VersionTypes DEF Init
<1>6. /\ uid \in [Versions -> Keys \cup {NoUID}]
      /\ heap \in [Cells -> Contents]
      /\ sched \in [Keys \cup {NoUID} -> Cells \cup {NoCell}]
      /\ young \in [Keys \cup {NoUID} -> SUBSET (Readers \cup {"store"})]
  BY ContentTypes DEF Init
<1>7. /\ rpc \in [Readers -> {"idle", "tx", "items", "bucket", "value", "done", "returned"}]
      /\ req \in [Readers -> Requests]
      /\ want \in [Readers -> SUBSET Keys]
      /\ item \in [Readers -> Keys \cup {NoUID}]
      /\ failed \in [Readers -> BOOLEAN]
  BY DEF Init
<1>8. db \in Snapshots /\ wtx \in Snapshots
  BY <1>1 DEF Init
<1>9. /\ cpc = "idle" /\ cancelled = FALSE /\ closed = FALSE
      /\ leaked \in [Requests -> SUBSET Snapshots] /\ spoilt \subseteq Keys
  BY DEF Init
<1> QED
  BY <1>3, <1>4, <1>5, <1>6, <1>7, <1>8, <1>9 DEF TypeOK

LEMMA InformerTypes ==
  ASSUME TypeOK
  PROVE  /\ \A k \in Keys : putObject(k) => TypeOK'
         /\ Put => TypeOK'
<1>1. ASSUME NEW k \in Keys, putObject(k)
      PROVE  TypeOK'
  <2> DEFINE v == nver + 1
  <2>1. v \in Versions /\ nver' = v /\ putting' = v
    BY <1>1, VersionTypes DEF putObject, TypeOK
  <2>2. Stored(v) \in Cells
    BY <2>1, CellTypes
  <2>3. uid' \in [Versions -> Keys \cup {NoUID}]
    BY <1>1, <2>1 DEF putObject, TypeOK
  <2>4. heap' \in [Cells -> Contents]
    BY <1>1, <2>1, ContentTypes DEF putObject, TypeOK
  <2>5. /\ sched' \in [Keys \cup {NoUID} -> Cells \cup {NoCell}]
        /\ young' \in [Keys \cup {NoUID} -> SUBSET (Readers \cup {"store"})]
    BY <1>1, <2>2 DEF putObject, Schedule, TypeOK
  <2>6. UNCHANGED <<store, db, cleanerVars, readerVars, bx, leaked, spoilt, startVars>>
    BY <1>1 DEF putObject
  <2> QED
    BY <2>1, <2>3, <2>4, <2>5, <2>6, VersionTypes
       DEF TypeOK, cleanerVars, readerVars, startVars
<1>2. ASSUME Put
      PROVE  TypeOK'
  <2> DEFINE k == uid[putting]
             v == putting
  <2>0. store \in [Keys -> 0..MaxVersion] /\ v \in 0..MaxVersion /\ 0 \in 0..MaxVersion
    BY VersionTypes DEF TypeOK
  <2>1. store' \in [Keys -> 0..MaxVersion] /\ putting' \in 0..MaxVersion
    <3>1. store' = [store EXCEPT ![k] = v] /\ putting' = 0
      BY <1>2 DEF Put
    <3> HIDE DEF k, v
    <3> QED
      BY <2>0, <3>1
  <2>2. young' \in [Keys \cup {NoUID} -> SUBSET (Readers \cup {"store"})]
    BY <1>2 DEF Put, TypeOK
  <2>3. UNCHANGED <<nver, uid, heap, sched, db, cleanerVars, readerVars, bx, leaked, spoilt,
                    startVars>>
    BY <1>2 DEF Put
  <2> QED
    BY <2>1, <2>2, <2>3 DEF TypeOK, cleanerVars, readerVars, startVars
<1> QED
  BY <1>1, <1>2

(* What Collect hands to cleanup: a cell for each key, in their order.     *)
LEMMA Collected ==
  ASSUME TypeOK, NEW ks \in SUBSET (Keys \cup {NoUID}), Collect(ks)
  PROVE  /\ objs' \in Seq(Cells)
         /\ \E sorted \in [1..Len(objs') -> ks] :
              /\ \A i, j \in 1..Len(objs') : i < j => sorted[i] < sorted[j]
              /\ \A i \in 1..Len(objs') : objs'[i] = sched[sorted[i]]
<1> DEFINE n == Cardinality(ks)
<1>1. n \in Nat
  BY FiniteKeySets
<1>2. PICK sorted \in [1..n -> ks] :
        /\ \A i, j \in 1..n : i < j => sorted[i] < sorted[j]
        /\ objs' = [i \in 1..n |-> sched[sorted[i]]]
  BY DEF Collect
<1>3. \A i \in 1..n : sched[sorted[i]] \in Cells
  BY <1>2 DEF Collect, TypeOK
<1> HIDE DEF n
<1>4. objs' \in Seq(Cells) /\ Len(objs') = n
  BY <1>1, <1>2, <1>3
<1> QED
  BY <1>2, <1>4

LEMMA HeadAndTail ==
  ASSUME NEW s \in Seq(Cells), s # <<>>
  PROVE  /\ Len(s) \in Nat /\ Len(s) > 0
         /\ Head(s) = s[1] /\ Head(s) \in Cells
         /\ Tail(s) \in Seq(Cells) /\ Len(Tail(s)) = Len(s) - 1
         /\ \A i \in 1..Len(Tail(s)) : Tail(s)[i] = s[i + 1]
  OBVIOUS

LEMMA CleanerTypes ==
  ASSUME TypeOK, HasWork, Cleaner
  PROVE  TypeOK'
<1>1. ASSUME NEW ks \in SUBSET DOMAIN sched, Collect(ks)
      PROVE  TypeOK'
  <2>1. ks \in SUBSET (Keys \cup {NoUID})
    BY DEF TypeOK
  <2>2. objs' \in Seq(Cells)
    BY <1>1, <2>1, Collected
  <2>3. sched' \in [Keys \cup {NoUID} -> Cells \cup {NoCell}]
    BY <1>1 DEF Collect, TypeOK
  <2>4. cpc' = "update"
    BY <1>1 DEF Collect
  <2>5. UNCHANGED <<informerVars, heap, young, db, wtx, readerVars, bx, leaked, startVars>>
    BY <1>1 DEF Collect
  <2>6. spoilt' \subseteq Keys
    BY <1>1 DEF Collect, TypeOK
  <2> QED
    BY <2>2, <2>3, <2>4, <2>5, <2>6 DEF TypeOK, informerVars, readerVars, startVars
<1>2. ASSUME CleanBegin
      PROVE  TypeOK'
  BY <1>2 DEF CleanBegin, TypeOK, Snapshots, informerVars, readerVars, startVars
<1>3. ASSUME CleanPut
      PROVE  TypeOK'
  <2> DEFINE c == Head(objs)
             k == getKey(c)
  <2>1. c \in Cells
    BY <1>3, HeadAndTail DEF CleanPut, TypeOK
  <2>2. heap[c] \in Contents \cup {Missing}
    BY <2>1 DEF TypeOK
  <2>3. wtx' = [wtx EXCEPT !.data[k] = heap[c]] /\ cpc' = "zero"
    BY <1>3 DEF CleanPut
  <2>4. wtx' \in Snapshots
    <3> HIDE DEF k, c
    <3> QED
      BY <2>2, <2>3 DEF TypeOK, Snapshots
  <2>5. UNCHANGED <<informerVars, heap, sched, young, db, objs, readerVars, bx, leaked, spoilt,
                    startVars>>
    BY <1>3 DEF CleanPut
  <2> QED
    BY <2>3, <2>4, <2>5 DEF TypeOK, informerVars, readerVars, startVars
<1>4. ASSUME SetZeroValue
      PROVE  TypeOK'
  <2>1. heap' \in [Cells -> Contents]
    BY <1>4, ContentTypes DEF SetZeroValue, TypeOK
  <2> QED
    BY <1>4, <2>1 DEF SetZeroValue, TypeOK, informerVars, readerVars, startVars
<1>5. ASSUME SetUID
      PROVE  TypeOK'
  <2>1. heap' \in [Cells -> Contents]
    BY <1>5, ContentTypes DEF SetUID, TypeOK
  <2>2. objs' \in Seq(Cells)
    BY <1>5, HeadAndTail DEF SetUID, HasWork, TypeOK
  <2> QED
    BY <1>5, <2>1, <2>2 DEF SetUID, TypeOK, informerVars, readerVars, startVars
<1>6. ASSUME CleanCommit
      PROVE  TypeOK'
  BY <1>6 DEF CleanCommit, TypeOK, informerVars, readerVars, startVars
<1>7. ASSUME CleanFails
      PROVE  TypeOK'
  BY <1>7 DEF CleanFails, TypeOK, informerVars, readerVars
<1>8. ASSUME CleanerDone
      PROVE  TypeOK'
  BY <1>8 DEF CleanerDone, TypeOK, informerVars, readerVars, startVars
<1> QED
  BY <1>1, <1>2, <1>3, <1>4, <1>5, <1>6, <1>7, <1>8 DEF Cleaner

LEMMA ReadTypes ==
  ASSUME TypeOK, NEW r \in Readers, NEW ks \in SUBSET Keys, Read(r, ks)
  PROVE  TypeOK'
<1>1. heap' \in [Cells -> Contents]
  <2>1. \A k \in ks : heap[Stored(store[k])] \in Contents
    <3>1. \A k \in ks : store[k] \in Versions
      BY VersionTypes DEF Read, TypeOK
    <3> QED
      BY <3>1, CellTypes DEF TypeOK
  <2>2. PICK torn \in {Blank, Torn} :
          heap' = [c \in Cells |->
                     IF c[1] = r /\ c[2] \in ks
                     THEN IF cpc = "uid" /\ Stored(store[c[2]]) = Head(objs) THEN torn
                          ELSE heap[Stored(store[c[2]])]
                     ELSE heap[c]]
    BY DEF Read
  <2> QED
    BY <2>1, <2>2, ContentTypes DEF TypeOK
<1>2. /\ want' \in [Readers -> SUBSET Keys]
      /\ failed' \in [Readers -> BOOLEAN]
      /\ rpc' \in [Readers -> {"idle", "tx", "items", "bucket", "value", "done", "returned"}]
  BY DEF Read, TypeOK
<1>3. floor' \in [Readers -> [Keys -> 0..MaxVersion]]
  <2>1. [k \in Keys |-> IF k \in ks THEN store[k] ELSE 0] \in [Keys -> 0..MaxVersion]
    BY VersionTypes DEF TypeOK
  <2> QED
    BY <2>1 DEF Read, TypeOK
<1>4. spoilt' \subseteq Keys
  BY DEF Read, TypeOK
<1> QED
  BY <1>1, <1>2, <1>3, <1>4 DEF Read, TypeOK, informerVars, cleanerVars, startVars

(* The number of readers that txOnce has counted. *)
LEMMA UsersCounted ==
  ASSUME NEW q \in Requests
  PROVE  IsFiniteSet(Users(q)) /\ Cardinality(Users(q)) \in Nat
<1>1. Users(q) \subseteq Readers
  BY DEF Users, UsersIn
<1>2. IsFiniteSet(Users(q))
  BY <1>1, KeySets, FS_Subset
<1> QED
  BY <1>2, FS_CardinalityType

LEMMA UserIsCounted ==
  ASSUME TypeOK, Counted, NEW r \in Readers, InTx(r)
  PROVE  bx[req[r]].used > 0
<1> DEFINE q == req[r]
<1>1. q \in Requests /\ r \in Users(q)
  BY DEF TypeOK, Users, UsersIn, InTx
<1>2. Cardinality(Users(q)) # 0
  BY <1>1, UsersCounted, FS_EmptySet
<1> QED
  BY <1>1, <1>2, UsersCounted DEF Counted

LEMMA ReaderTypes ==
  ASSUME TypeOK, Counted, HasWork, NEW r \in Readers, Reader(r)
  PROVE  TypeOK'
<1>1. ASSUME txOnce(r)
      PROVE  TypeOK'
  <2>1. req[r] \in Requests /\ bx[req[r]].used + 1 \in Nat
    BY DEF TypeOK
  <2>2. bx' \in [Requests -> [used : Nat, tx : [open : BOOLEAN, snap : Snapshots]]]
    <3> DEFINE u == bx[req[r]].used + 1
    <3>1. bx' = [bx EXCEPT ![req[r]].used = u]
      BY <1>1 DEF txOnce
    <3> HIDE DEF u
    <3> QED
      BY <2>1, <3>1 DEF TypeOK, u
  <2> QED
    BY <1>1, <2>2 DEF txOnce, TypeOK, informerVars, cleanerVars, startVars
<1>2. ASSUME NEW k \in Keys, rehydrateObject(r, k)
      PROVE  TypeOK'
  <2> DEFINE c == Copy(r, k)
  <2>1. c \in Cells /\ getKey(c) \in Keys \cup {NoUID}
    BY CellTypes, KeyTypes
  <2>2. /\ sched' \in [Keys \cup {NoUID} -> Cells \cup {NoCell}]
        /\ young' \in [Keys \cup {NoUID} -> SUBSET (Readers \cup {"store"})]
    <3> HIDE DEF c
    <3>1. PICK busy \in SUBSET (Readers \cup {"store"}) : Schedule(getKey(c), c, busy)
      BY <1>2 DEF rehydrateObject, c
    <3> QED
      BY <2>1, <3>1 DEF Schedule, TypeOK
  <2>3. rpc' \in [Readers -> {"idle", "tx", "items", "bucket", "value", "done", "returned"}]
    BY <1>2 DEF rehydrateObject, TypeOK
  <2>4. item' \in [Readers -> Keys \cup {NoUID}] /\ want' \in [Readers -> SUBSET Keys]
    <3> DEFINE left == want[r] \ {k}
    <3>1. \/ want' = want /\ item' = [item EXCEPT ![r] = k]
          \/ want' = [want EXCEPT ![r] = left] /\ item' = item
      BY <1>2 DEF rehydrateObject
    <3>2. left \in SUBSET Keys /\ want \in [Readers -> SUBSET Keys]
      BY DEF TypeOK
    <3> HIDE DEF left
    <3>3. [want EXCEPT ![r] = left] \in [Readers -> SUBSET Keys]
      BY <3>2, ExceptType
    <3>4. want' \in [Readers -> SUBSET Keys]
      BY <3>1, <3>2, <3>3
    <3>5. item' \in [Readers -> Keys \cup {NoUID}]
      BY <3>1 DEF TypeOK
    <3> QED
      BY <3>4, <3>5
  <2>5. UNCHANGED <<informerVars, heap, db, cleanerVars, req, floor, failed, bx, leaked, spoilt,
                    startVars>>
    BY <1>2 DEF rehydrateObject
  <2> QED
    BY <2>2, <2>3, <2>4, <2>5 DEF TypeOK, informerVars, cleanerVars, startVars
<1>3. ASSUME SharedBucket(r)
      PROVE  TypeOK'
  BY <1>3 DEF SharedBucket, TypeOK, informerVars, cleanerVars, startVars
<1>4. ASSUME NewBucket(r)
      PROVE  TypeOK'
  <2>1. [open |-> TRUE, snap |-> db] \in [open : BOOLEAN, snap : Snapshots]
    BY DEF TypeOK
  <2>2. bx' \in [Requests -> [used : Nat, tx : [open : BOOLEAN, snap : Snapshots]]]
    <3> DEFINE tx == [open |-> TRUE, snap |-> db]
    <3>1. bx' = [bx EXCEPT ![req[r]].tx = tx]
      BY <1>4 DEF NewBucket
    <3> HIDE DEF tx
    <3> QED
      BY <2>1, <3>1 DEF TypeOK, tx
  <2>3. /\ rpc' \in [Readers -> {"idle", "tx", "items", "bucket", "value", "done", "returned"}]
        /\ failed' \in [Readers -> BOOLEAN]
    BY <1>4 DEF NewBucket, TypeOK, Snapshots
  <2>4. UNCHANGED <<informerVars, heap, sched, young, db, cleanerVars, req, want, item, floor,
                    spoilt, startVars>>
    BY <1>4 DEF NewBucket
  <2>5. leaked' \in [Requests -> SUBSET Snapshots]
    <3> DEFINE l == IF bx[req[r]].tx.open
                    THEN leaked[req[r]] \cup {bx[req[r]].tx.snap} ELSE leaked[req[r]]
    <3>1. leaked' = [leaked EXCEPT ![req[r]] = l]
      BY <1>4 DEF NewBucket
    <3>2. l \in SUBSET Snapshots
      BY DEF TypeOK
    <3> HIDE DEF l
    <3> QED
      BY <3>1, <3>2 DEF TypeOK
  <2> QED
    BY <2>2, <2>3, <2>4, <2>5 DEF TypeOK, informerVars, cleanerVars, startVars
<1>5. ASSUME NoDB(r)
      PROVE  TypeOK'
  BY <1>5 DEF NoDB, TypeOK, informerVars, cleanerVars, startVars
<1>6. ASSUME Value(r)
      PROVE  TypeOK'
  <2> DEFINE c == Copy(r, item[r])
             v == Got(r)
             left == want[r] \ {item[r]}
  <2>1. item[r] \in Keys /\ req[r] \in Requests /\ left \in SUBSET Keys
    BY <1>6 DEF Value, HasWork, TypeOK
  <2>2. bx[req[r]].tx.snap \in Snapshots
    BY <2>1 DEF TypeOK
  <2>3. v \in Contents \cup {Missing}
    BY <2>1, <2>2 DEF Got, Snapshots
  <2>4. /\ v # Missing
        /\ heap' = [heap EXCEPT ![c] = v]
        /\ want' = [want EXCEPT ![r] = left]
        /\ rpc' = [rpc EXCEPT ![r] = "items"]
    BY <1>6 DEF Value
  <2> HIDE DEF c, v, left
  <2>5. heap' \in [Cells -> Contents]
    BY <2>3, <2>4 DEF TypeOK
  <2>6. want' \in [Readers -> SUBSET Keys]
    <3>1. want \in [Readers -> SUBSET Keys]
      BY DEF TypeOK
    <3> QED
      BY <2>1, <2>4, <3>1, ExceptType
  <2>7. rpc' \in [Readers -> {"idle", "tx", "items", "bucket", "value", "done", "returned"}]
    BY <2>4 DEF TypeOK
  <2>8. UNCHANGED <<informerVars, sched, young, db, cleanerVars, req, item, floor, failed, bx,
                    leaked, spoilt, startVars>>
    BY <1>6 DEF Value
  <2> QED
    BY <2>5, <2>6, <2>7, <2>8 DEF TypeOK, informerVars, cleanerVars, startVars
<1>9. ASSUME NoKey(r)
      PROVE  TypeOK'
  BY <1>9 DEF NoKey, TypeOK, informerVars, cleanerVars, startVars
<1>10. ASSUME UnmarshalFails(r)
       PROVE  TypeOK'
  <2>1. heap' \in [Cells -> Contents]
    BY <1>10, ContentTypes DEF UnmarshalFails, TypeOK
  <2>2. spoilt' \subseteq Keys
    BY <1>10 DEF UnmarshalFails, HasWork, TypeOK
  <2> QED
    BY <1>10, <2>1, <2>2 DEF UnmarshalFails, TypeOK, informerVars, cleanerVars, startVars
<1>7. ASSUME AllItems(r)
      PROVE  TypeOK'
  BY <1>7 DEF AllItems, TypeOK, informerVars, cleanerVars, startVars
<1>8. ASSUME done(r)
      PROVE  TypeOK'
  <2> DEFINE q == req[r]
             b == [used |-> bx[q].used - 1, tx |-> IF bx[q].used > 1 THEN bx[q].tx ELSE NoTx]
  <2>1. q \in Requests /\ bx[q].used \in Nat /\ bx[q].used > 0
    BY <1>8, UserIsCounted DEF done, InTx, TypeOK
  <2>2. NoTx \in [open : BOOLEAN, snap : Snapshots]
    <3>1. NoBucket \in Snapshots
      BY DEF NoBucket, Snapshots
    <3> QED
      BY <3>1 DEF NoTx
  <2>3. bx[q].tx \in [open : BOOLEAN, snap : Snapshots]
    BY <2>1 DEF TypeOK
  <2>4. b \in [used : Nat, tx : [open : BOOLEAN, snap : Snapshots]]
    BY <2>1, <2>2, <2>3
  <2>5. bx' = [bx EXCEPT ![q] = b]
    BY <1>8 DEF done
  <2> HIDE DEF b, q
  <2>6. bx' \in [Requests -> [used : Nat, tx : [open : BOOLEAN, snap : Snapshots]]]
    BY <2>4, <2>5 DEF TypeOK
  <2>7. /\ rpc' \in [Readers -> {"idle", "tx", "items", "bucket", "value", "done", "returned"}]
        /\ young' \in [Keys \cup {NoUID} -> SUBSET (Readers \cup {"store"})]
    BY <1>8 DEF done, TypeOK
  <2>8. UNCHANGED <<informerVars, heap, sched, db, cleanerVars, req, want, item, floor, failed,
                    leaked, spoilt, startVars>>
    BY <1>8 DEF done
  <2> QED
    BY <2>6, <2>7, <2>8 DEF TypeOK, informerVars, cleanerVars, startVars
<1> QED
  BY <1>1, <1>2, <1>3, <1>4, <1>5, <1>6, <1>7, <1>8, <1>9, <1>10 DEF Reader

LEMMA NextTypes ==
  ASSUME TypeOK, Counted, HasWork, [Next]_vars
  PROVE  TypeOK'
<1>1. CASE \E r \in Readers : Release(r)
  BY <1>1, VersionTypes DEF Release, TypeOK, informerVars, cleanerVars, startVars
<1>2. CASE Cancel \/ Close
  BY <1>2 DEF Cancel, Close, TypeOK, informerVars, cleanerVars, readerVars
<1>3. CASE UNCHANGED vars
  BY <1>3 DEF vars, TypeOK, informerVars, cleanerVars, readerVars, startVars
<1> QED
  BY <1>1, <1>2, <1>3, InformerTypes, CleanerTypes, ReadTypes, ReaderTypes DEF Next

-----------------------------------------------------------------------------
(* Transactions. *)

TxKept == Counted /\ BucketInTx /\ OpenBeforeClose /\ TxMatchesReaders

(* A step that neither counts a reader nor touches a transaction.          *)
LEMMA TxSame ==
  ASSUME TxInv, TypeOK', UNCHANGED <<req, bx, leaked, closed>>,
         \A r \in Readers : InTx(r)' <=> InTx(r),
         \A r \in Readers : rpc'[r] = "value" => rpc[r] = "value" \/ bx[req[r]].tx.snap.bucket
  PROVE  TxKept'
<1>1. \A q \in Requests : UsersIn(q, req', rpc') = Users(q)
  BY DEF Users, UsersIn, InTx
<1>2. Counted' /\ BucketInTx' /\ OpenBeforeClose'
  BY <1>1 DEF TxInv, Counted, Users, BucketInTx, OpenBeforeClose
<1>3. BucketIsOpen'
  <2> SUFFICES ASSUME NEW r \in Readers, rpc'[r] = "value"
               PROVE  bx[req[r]].tx.open /\ bx[req[r]].tx.snap.bucket /\ ~closed
    BY DEF BucketIsOpen
  <2>1. req[r] \in Requests
    BY DEF TxInv, TypeOK
  <2> QED
    BY <2>1 DEF TxInv, TxMatchesReaders, BucketIsOpen, BucketInTx, OpenBeforeClose
<1>4. TxIsUsed'
  BY DEF TxInv, TxMatchesReaders, TxIsUsed
<1> QED
  BY <1>2, <1>3, <1>4 DEF TxKept, TxMatchesReaders

(* Another reader of the request comes, or one leaves.                     *)
LEMMA UserAdded ==
  ASSUME TypeOK, TypeOK', Counted, NEW r \in Readers, ~InTx(r), InTx(r)', UNCHANGED req,
         \A p \in Readers \ {r} : InTx(p)' <=> InTx(p)
  PROVE  \A q \in Requests :
           Cardinality(UsersIn(q, req', rpc')) = IF q = req[r] THEN bx[q].used + 1 ELSE bx[q].used
<1> SUFFICES ASSUME NEW q \in Requests
             PROVE  Cardinality(UsersIn(q, req', rpc')) = IF q = req[r] THEN bx[q].used + 1
                                             ELSE bx[q].used
  OBVIOUS
<1> DEFINE new == UsersIn(q, req', rpc')
<1>2. CASE q = req[r]
  <2>1. new = Users(q) \cup {r} /\ r \notin Users(q)
    BY <1>2 DEF Users, UsersIn, InTx
  <2>2. Cardinality(Users(q) \cup {r}) = Cardinality(Users(q)) + 1
    BY <2>1, UsersCounted, FS_AddElement
  <2> HIDE DEF new
  <2>3. Cardinality(new) = bx[q].used + 1
    BY <2>1, <2>2 DEF Counted
  <2> QED
    BY <1>2, <2>3 DEF new
<1>3. CASE q # req[r]
  <2>1. new = Users(q)
    BY <1>3 DEF Users, UsersIn, InTx
  <2> QED
    BY <1>3, <2>1 DEF Counted
<1> QED
  BY <1>2, <1>3

LEMMA UserRemoved ==
  ASSUME TypeOK, TypeOK', Counted, NEW r \in Readers, InTx(r), ~InTx(r)', UNCHANGED req,
         \A p \in Readers \ {r} : InTx(p)' <=> InTx(p)
  PROVE  \A q \in Requests :
           Cardinality(UsersIn(q, req', rpc')) = IF q = req[r] THEN bx[q].used - 1 ELSE bx[q].used
<1> SUFFICES ASSUME NEW q \in Requests
             PROVE  Cardinality(UsersIn(q, req', rpc')) = IF q = req[r] THEN bx[q].used - 1
                                             ELSE bx[q].used
  OBVIOUS
<1> DEFINE new == UsersIn(q, req', rpc')
<1>2. CASE q = req[r]
  <2>1. new = Users(q) \ {r} /\ r \in Users(q)
    BY <1>2 DEF Users, UsersIn, InTx
  <2> QED
    BY <1>2, <2>1, UsersCounted, FS_RemoveElement DEF Counted
<1>3. CASE q # req[r]
  <2>1. new = Users(q)
    BY <1>3 DEF Users, UsersIn, InTx
  <2> QED
    BY <1>3, <2>1 DEF Counted
<1> QED
  BY <1>2, <1>3

(* txOnce: what is shared stays as it is, and has a user more.             *)
LEMMA TxOnceTx ==
  ASSUME TxInv, TypeOK', NEW r \in Readers, txOnce(r)
  PROVE  TxKept'
<1> DEFINE q == req[r]
           u == bx[q].used + 1
<1>1. q \in Requests /\ bx' = [bx EXCEPT ![q].used = u] /\ rpc' = [rpc EXCEPT ![r] = "items"]
      /\ UNCHANGED <<req, leaked, closed>> /\ rpc[r] = "tx"
  BY DEF txOnce, TxInv, TypeOK, startVars
<1>2. /\ ~InTx(r) /\ InTx(r)'
      /\ \A p \in Readers \ {r} : InTx(p)' <=> InTx(p)
      /\ \A p \in Readers : rpc'[p] = "value" => rpc[p] = "value"
  BY <1>1 DEF InTx, TxInv, TypeOK
<1> HIDE DEF q, u
<1>3. \A p \in Requests : bx'[p].tx = bx[p].tx
                          /\ bx'[p].used = IF p = q THEN u ELSE bx[p].used
  BY <1>1 DEF TxInv, TypeOK
<1>4. Counted'
  <2>1. \A p \in Requests : Cardinality(UsersIn(p, req', rpc')) =
                              IF p = q THEN bx[p].used + 1 ELSE bx[p].used
    BY <1>1, <1>2, UserAdded DEF TxInv, q
  <2>2. u = bx[q].used + 1
    BY DEF q, u
  <2> QED
    BY <1>3, <2>1, <2>2 DEF Counted, Users
<1>5. BucketInTx' /\ OpenBeforeClose'
  BY <1>1, <1>3 DEF TxInv, BucketInTx, OpenBeforeClose
<1>6. BucketIsOpen'
  <2>1. \A p \in Readers : req[p] \in Requests
    BY DEF TxInv, TypeOK
  <2> QED
    BY <1>1, <1>2, <1>3, <2>1 DEF TxInv, TxMatchesReaders, BucketIsOpen
<1>7. TxIsUsed'
  BY <1>1, <1>2, <1>3 DEF TxInv, TxMatchesReaders, TxIsUsed
<1> QED
  BY <1>4, <1>5, <1>6, <1>7 DEF TxKept, TxMatchesReaders

(* getBucket: the new transaction is open and its reader uses it.          *)
LEMMA NewBucketTx ==
  ASSUME TxInv, TypeOK', NEW r \in Readers, NewBucket(r)
  PROVE  TxKept'
<1> DEFINE q == req[r]
           tx == [open |-> TRUE, snap |-> db]
<1>1. /\ q \in Requests /\ bx' = [bx EXCEPT ![q].tx = tx]
      /\ rpc' = [rpc EXCEPT ![r] = IF db.bucket THEN "value" ELSE "done"]
      /\ UNCHANGED <<req, closed>> /\ rpc[r] = "bucket" /\ ~closed
  BY DEF NewBucket, TxInv, TypeOK, startVars
<1>2. /\ \A p \in Readers : InTx(p)' <=> InTx(p)
      /\ InTx(r)
      /\ \A p \in Readers \ {r} : rpc'[p] = rpc[p]
  BY <1>1 DEF InTx, TxInv, TypeOK
<1>3. tx.open /\ tx.snap = db
  OBVIOUS
<1>l. leaked' = [leaked EXCEPT ![q] = IF bx[q].tx.open THEN @ \cup {bx[q].tx.snap} ELSE @]
      /\ ~bx[q].tx.snap.bucket
  BY DEF NewBucket
<1> HIDE DEF q, tx
<1>4. \A p \in Requests : bx'[p].used = bx[p].used
                          /\ bx'[p].tx = IF p = q THEN tx ELSE bx[p].tx
  BY <1>1 DEF TxInv, TypeOK
<1>5. \A p \in Requests : UsersIn(p, req', rpc') = Users(p)
  BY <1>1, <1>2 DEF Users, UsersIn, InTx
<1>6. Counted'
  BY <1>4, <1>5 DEF TxInv, Counted, Users
<1>7. BucketInTx' /\ OpenBeforeClose'
  BY <1>1, <1>3, <1>4 DEF TxInv, BucketInTx, OpenBeforeClose
<1>8. BucketIsOpen'
  <2>1. \A p \in Readers : req[p] \in Requests
    BY DEF TxInv, TypeOK
  <2>2. rpc'[r] = "value" => tx.snap.bucket
    BY <1>1, <1>3 DEF TxInv, TypeOK
  <2>3. \A p \in Readers \ {r} : rpc'[p] = "value" => bx[req[p]].tx.snap.bucket
    BY <1>2 DEF TxInv, TxMatchesReaders, BucketIsOpen
  <2>4. \A p \in Readers : rpc'[p] = "value" => bx'[req[p]].tx.open /\ bx'[req[p]].tx.snap.bucket
    BY <1>l, <1>3, <1>4, <2>1, <2>2, <2>3 DEF TxInv, BucketInTx, q
  <2> QED
    BY <1>1, <2>4 DEF BucketIsOpen
<1>9. TxIsUsed'
  <2>1. ASSUME NEW p \in Requests, bx'[p].tx.open
        PROVE  \E s \in Readers : req[s] = p /\ InTx(s)'
    BY <1>1, <1>2, <1>4, <2>1 DEF TxInv, TxMatchesReaders, TxIsUsed, q
  <2>2. ASSUME NEW p \in Requests, NEW snap \in leaked'[p]
        PROVE  ~snap.bucket
    <3>1. snap \in leaked[p] \/ snap = bx[q].tx.snap
      BY <1>1, <1>l DEF TxInv, TypeOK
    <3> QED
      BY <1>l, <3>1 DEF TxInv, TxMatchesReaders, TxIsUsed
  <2> QED
    BY <1>1, <2>1, <2>2 DEF TxIsUsed
<1> QED
  BY <1>6, <1>7, <1>8, <1>9 DEF TxKept, TxMatchesReaders

(* done: the transaction is rolled back if used says that there is no      *)
(* other reader, and used is the number of readers.                        *)
LEMMA DoneTx ==
  ASSUME TxInv, TypeOK', NEW r \in Readers, done(r)
  PROVE  TxKept'
<1> DEFINE q == req[r]
           b == [used |-> bx[q].used - 1, tx |-> IF bx[q].used > 1 THEN bx[q].tx ELSE NoTx]
<1>1. /\ q \in Requests /\ bx' = [bx EXCEPT ![q] = b]
      /\ rpc' = [rpc EXCEPT ![r] = "returned"]
      /\ UNCHANGED <<req, leaked, closed>> /\ rpc[r] = "done"
  BY DEF done, TxInv, TypeOK, startVars
<1>2. /\ InTx(r) /\ ~InTx(r)'
      /\ \A p \in Readers \ {r} : InTx(p)' <=> InTx(p)
      /\ \A p \in Readers : rpc'[p] = "value" => rpc[p] = "value"
  BY <1>1 DEF InTx, TxInv, TypeOK
<1>3. b.used = bx[q].used - 1 /\ b.tx = IF bx[q].used > 1 THEN bx[q].tx ELSE NoTx
  OBVIOUS
<1>4. ~NoTx.open /\ ~NoTx.snap.bucket
  BY DEF NoTx, NoBucket
<1> HIDE DEF q, b
<1>5. \A p \in Requests : bx'[p] = IF p = q THEN b ELSE bx[p]
  BY <1>1 DEF TxInv, TypeOK
<1>6. \A p \in Requests : Cardinality(UsersIn(p, req', rpc')) =
                               IF p = q THEN bx[p].used - 1 ELSE bx[p].used
  BY <1>1, <1>2, UserRemoved DEF TxInv, q
<1>7. Counted'
  BY <1>3, <1>5, <1>6 DEF Counted, Users
<1>8. BucketInTx' /\ OpenBeforeClose'
  BY <1>1, <1>3, <1>4, <1>5 DEF TxInv, BucketInTx, OpenBeforeClose
<1>9. ASSUME NEW s \in Readers, rpc'[s] = "value"
      PROVE  bx'[req[s]].tx.open /\ bx'[req[s]].tx.snap.bucket /\ ~closed
  <2>1. /\ req[s] \in Requests /\ s # r /\ ~closed
        /\ bx[req[s]].tx.open /\ bx[req[s]].tx.snap.bucket
    BY <1>1, <1>2, <1>9 DEF TxInv, TxMatchesReaders, BucketIsOpen, TypeOK
  <2>2. CASE req[s] # q
    BY <1>5, <2>1, <2>2
  <2>3. CASE req[s] = q
    <3> DEFINE left == UsersIn(q, req', rpc')
    <3>1. s \in left
      BY <1>1, <1>9, <2>3 DEF UsersIn
    <3>2. IsFiniteSet(left)
      <4>1. left \subseteq Readers
        BY DEF UsersIn
      <4> QED
        BY <4>1, KeySets, FS_Subset
    <3>3. Cardinality(left) # 0 /\ Cardinality(left) \in Nat
      BY <3>1, <3>2, FS_EmptySet, FS_CardinalityType
    <3>4. bx[q].used > 1
      BY <1>1, <1>6, <3>3 DEF TxInv, TypeOK
    <3> QED
      BY <1>1, <1>3, <1>5, <2>1, <2>3, <3>4
  <2> QED
    BY <2>2, <2>3
<1>10. BucketIsOpen'
  BY <1>1, <1>9 DEF BucketIsOpen
<1>11. ASSUME NEW p \in Requests, bx'[p].tx.open
       PROVE  \E s \in Readers : req[s] = p /\ InTx(s)'
  <2>1. CASE p # q
    BY <1>1, <1>2, <1>5, <1>11, <2>1 DEF TxInv, TxMatchesReaders, TxIsUsed, q
  <2>2. CASE p = q
    <3>1. bx[q].used > 1
      BY <1>1, <1>3, <1>4, <1>5, <1>11, <2>2
    <3>2. Cardinality(UsersIn(q, req', rpc')) # 0
      <4>1. q \in Requests /\ bx[q].used \in Nat
        BY <1>1 DEF TxInv, TypeOK
      <4>2. Cardinality(UsersIn(q, req', rpc')) = bx[q].used - 1
        BY <1>6, <4>1
      <4> QED
        BY <3>1, <4>1, <4>2
    <3>3. UsersIn(q, req', rpc') # {}
      BY <3>2, FS_EmptySet
    <3> QED
      BY <1>1, <2>2, <3>3 DEF UsersIn, InTx
  <2> QED
    BY <2>1, <2>2
<1>12. TxIsUsed'
  BY <1>1, <1>11 DEF TxInv, TxMatchesReaders, TxIsUsed
<1> QED
  BY <1>7, <1>8, <1>10, <1>12 DEF TxKept, TxMatchesReaders

(* A step that leaves requests and their transactions alone.               *)
LEMMA OtherTx ==
  ASSUME TxInv, TypeOK', UNCHANGED <<rpc, req, bx, leaked, closed>>
  PROVE  TxKept'
<1>1. \A r \in Readers : InTx(r)' <=> InTx(r)
  BY DEF InTx
<1> QED
  BY <1>1, TxSame

LEMMA ReaderTx ==
  ASSUME TxInv, TypeOK', NEW r \in Readers, Reader(r)
  PROVE  TxKept'
<1> USE DEF TxInv, TypeOK
<1>1. CASE \E k \in Keys : rehydrateObject(r, k)
  BY <1>1, TxSame DEF rehydrateObject, InTx, startVars
<1>2. CASE SharedBucket(r)
  BY <1>2, TxSame DEF SharedBucket, InTx, startVars
<1>3. CASE NoDB(r)
  BY <1>3, TxSame DEF NoDB, InTx, startVars
<1>4. CASE Value(r)
  BY <1>4, TxSame DEF Value, InTx, startVars
<1>5. CASE AllItems(r)
  BY <1>5, TxSame DEF AllItems, InTx, startVars
<1>6. CASE NoKey(r)
  BY <1>6, TxSame DEF NoKey, InTx, startVars
<1>7. CASE UnmarshalFails(r)
  BY <1>7, TxSame DEF UnmarshalFails, InTx, startVars
<1> QED
  BY <1>1, <1>2, <1>3, <1>4, <1>5, <1>6, <1>7, TxOnceTx, NewBucketTx, DoneTx DEF Reader

LEMMA CloseTx ==
  ASSUME TxInv, TypeOK', Close
  PROVE  TxKept'
<1>1. /\ \A q \in Requests : ~bx[q].tx.open /\ ~bx[q].tx.snap.bucket
      /\ UNCHANGED <<rpc, req, bx, leaked>>
  BY DEF Close, readerVars, TxInv, BucketInTx
<1>2. \A r \in Readers : req[r] \in Requests
  BY DEF TxInv, TypeOK
<1>3. \A q \in Requests : UsersIn(q, req', rpc') = Users(q)
  BY <1>1 DEF Users
<1>4. Counted' /\ BucketInTx' /\ OpenBeforeClose'
  BY <1>1, <1>3 DEF TxInv, Counted, BucketInTx, OpenBeforeClose, Users
<1>5. TxMatchesReaders'
  BY <1>1, <1>2 DEF TxInv, TxMatchesReaders, BucketIsOpen, TxIsUsed
<1> QED
  BY <1>4, <1>5 DEF TxKept

(* A step of an informer, the cleaner or Start has nothing to do with the  *)
(* readers.                                                                *)
LEMMA NotAReader ==
  ASSUME \/ \E k \in Keys : putObject(k)
         \/ Put \/ Cleaner \/ Cancel \/ UNCHANGED vars
  PROVE  UNCHANGED <<readerVars, bx, leaked, closed>>
  BY DEF putObject, Put, Cleaner, Cancel, vars, startVars, Collect, CleanBegin, CleanPut,
         SetZeroValue, SetUID, CleanCommit, CleanFails, CleanerDone

LEMMA NextHasWork ==
  ASSUME TypeOK, TypeOK', HasWork, [Next]_vars
  PROVE  HasWork'
<1> USE DEF TypeOK
<1>1. CASE Cleaner
  <2>1. UNCHANGED <<rpc, item, want>>
    BY <1>1, NotAReader DEF readerVars
  <2>2. cpc' \in {"zero", "uid"} => objs' # <<>>
    BY <1>1 DEF HasWork, Cleaner, Collect, CleanBegin, CleanPut, SetZeroValue, SetUID,
                CleanCommit, CleanFails, CleanerDone
  <2> QED
    BY <2>1, <2>2 DEF HasWork
<1>2. CASE (\E k \in Keys : putObject(k)) \/ Put \/ Cancel \/ Close \/ UNCHANGED vars
  BY <1>2 DEF HasWork, putObject, Put, Cancel, Close, vars, cleanerVars, readerVars
<1>3. ASSUME NEW r \in Readers, UNCHANGED cleanerVars,
             \A p \in Readers \ {r} :
               rpc'[p] = rpc[p] /\ item'[p] = item[p] /\ want'[p] = want[p],
             rpc'[r] \in {"bucket", "value"} => item'[r] \in want'[r]
      PROVE  HasWork'
  BY <1>3 DEF HasWork, cleanerVars
<1>4. ASSUME NEW r \in Readers, NEW ks \in SUBSET Keys, Read(r, ks)
      PROVE  HasWork'
  BY <1>3, <1>4 DEF Read
<1>5. ASSUME NEW r \in Readers, Release(r)
      PROVE  HasWork'
  BY <1>3, <1>5 DEF Release
<1>6. ASSUME NEW r \in Readers, Reader(r)
      PROVE  HasWork'
  <2>1. CASE txOnce(r)
    BY <1>3, <2>1 DEF txOnce
  <2>2. ASSUME NEW k \in Keys, rehydrateObject(r, k)
        PROVE  HasWork'
    <3>1. UNCHANGED cleanerVars
      BY <2>2 DEF rehydrateObject
    <3>2. \A p \in Readers \ {r} :
            rpc'[p] = rpc[p] /\ item'[p] = item[p] /\ want'[p] = want[p]
      BY <2>2 DEF rehydrateObject
    <3>3. rpc'[r] \in {"bucket", "value"} => item'[r] \in want'[r]
      BY <2>2 DEF rehydrateObject
    <3> QED
      BY <1>3, <3>1, <3>2, <3>3
  <2>3. CASE SharedBucket(r)
    BY <1>3, <2>3 DEF SharedBucket, HasWork
  <2>4. CASE NewBucket(r)
    BY <1>3, <2>4 DEF NewBucket, HasWork
  <2>5. CASE NoDB(r)
    BY <1>3, <2>5 DEF NoDB
  <2>6. CASE Value(r)
    <3>1. UNCHANGED <<cleanerVars, item>>
      BY <2>6 DEF Value
    <3>2. /\ rpc' = [rpc EXCEPT ![r] = "items"]
          /\ \A p \in Readers \ {r} : want'[p] = want[p]
      BY <2>6 DEF Value
    <3> QED
      BY <1>3, <3>1, <3>2
  <2>7. CASE AllItems(r)
    BY <1>3, <2>7 DEF AllItems
  <2>8. CASE done(r)
    BY <1>3, <2>8 DEF done
  <2>9. CASE NoKey(r)
    BY <1>3, <2>9 DEF NoKey
  <2>10. CASE UnmarshalFails(r)
    BY <1>3, <2>10 DEF UnmarshalFails
  <2> QED
    BY <1>6, <2>1, <2>2, <2>3, <2>4, <2>5, <2>6, <2>7, <2>8, <2>9, <2>10 DEF Reader
<1> QED
  BY <1>1, <1>2, <1>4, <1>5, <1>6 DEF Next

LEMMA InitTx == Init => TxInv
<1> SUFFICES ASSUME Init PROVE TxInv
  OBVIOUS
<1>1. TypeOK
  BY InitTypes
<1>2. \A q \in Requests : Users(q) = {}
  BY DEF Init, Users, UsersIn
<1>3. Counted
  BY <1>2, FS_EmptySet DEF Init, Counted
<1>4. \A q \in Requests : ~bx[q].tx.open /\ ~bx[q].tx.snap.bucket /\ leaked[q] = {}
  BY DEF Init, NoTx, NoBucket
<1>5. HasWork
  BY DEF Init, HasWork
<1>6. BucketIsOpen
  BY DEF Init, BucketIsOpen
<1> QED
  BY <1>1, <1>3, <1>4, <1>5, <1>6
     DEF TxInv, BucketInTx, OpenBeforeClose, TxMatchesReaders, TxIsUsed

LEMMA NextTx == TxInv /\ [Next]_vars => TxInv'
<1> SUFFICES ASSUME TxInv, [Next]_vars PROVE TxInv'
  OBVIOUS
<1>1. TypeOK'
  BY NextTypes DEF TxInv
<1>2. HasWork'
  BY <1>1, NextHasWork DEF TxInv
<1>3. TxKept'
  <2>1. CASE \/ \E k \in Keys : putObject(k)
             \/ Put \/ Cleaner \/ Cancel \/ UNCHANGED vars
    <3>1. UNCHANGED <<rpc, req, bx, leaked, closed>>
      BY <2>1, NotAReader DEF readerVars
    <3> QED
      BY <1>1, <3>1, OtherTx
  <2>2. CASE Close
    BY <1>1, <2>2, CloseTx
  <2>3. ASSUME NEW r \in Readers, NEW ks \in SUBSET Keys, Read(r, ks)
        PROVE  TxKept'
    BY <1>1, <2>3, TxSame DEF Read, InTx, startVars, TxInv, TypeOK
  <2>4. ASSUME NEW r \in Readers, Release(r)
        PROVE  TxKept'
    BY <1>1, <2>4, TxSame DEF Release, InTx, startVars, TxInv, TypeOK
  <2>5. ASSUME NEW r \in Readers, Reader(r)
        PROVE  TxKept'
    BY <1>1, <2>5, ReaderTx
  <2> QED
    BY <2>1, <2>2, <2>3, <2>4, <2>5 DEF Next
<1> QED
  BY <1>1, <1>2, <1>3 DEF TxInv, TxKept

LEMMA TxInvariant == Spec => []TxInv
  BY InitTx, NextTx, PTL DEF Spec

(* Every variable has its type; in particular used, the number of readers  *)
(* of a request's transaction, is never negative (bbolt_cache.go:297).     *)
THEOREM TypeCorrect == Spec => []TypeOK
<1>1. TxInv => TypeOK
  BY DEF TxInv
<1> QED
  BY <1>1, TxInvariant, PTL

(* However the readers of a request and the cleaner interleave, a reader   *)
(* that uses the bucket of its request finds its transaction open and the  *)
(* database, too; the transaction that was begun last is open only while   *)
(* the request has a reader, and those that are forgotten, which may stay  *)
(* open, were begun when there was no bucket (txOnce, getBucket and done). *)
THEOREM TransactionsMatchReaders == Spec => []TxMatchesReaders
<1>1. TxInv => TxMatchesReaders
  BY DEF TxInv
<1> QED
  BY <1>1, TxInvariant, PTL

-----------------------------------------------------------------------------
(* Data.  What follows holds while cleanup has not failed, of objects that *)
(* are not spoilt.                                                         *)

(* Versions are numbered as they come, and the store has the latest one    *)
(* that has arrived.                                                       *)
Versioned ==
  /\ nver \in 0..MaxVersion
  /\ \A v \in Versions : IF v <= nver THEN uid[v] \in Keys ELSE uid[v] = NoUID
  /\ \A v \in Versions : v <= nver /\ v # putting => v <= store[uid[v]]
  /\ \A k \in Keys : store[k] # 0 =>
       store[k] \in Versions /\ store[k] <= nver /\ uid[store[k]] = k
  /\ putting # 0 =>
       putting \in Versions /\ putting = nver /\ store[uid[putting]] < putting

(* A stored object is as it was, has been zeroed, or is being zeroed.      *)
StoredCells ==
  \A v \in Versions : uid[v] \notin spoilt =>
    /\ heap[Stored(v)] \in {v, Empty, Blank}
    /\ heap[Stored(v)] = Blank => cpc = "uid" /\ Head(objs) = Stored(v)
    /\ v = putting => heap[Stored(v)] = v

(* No reader copies an object that is being zeroed, or is spoilt by it.    *)
CopiedCells ==
  \A r \in Readers, k \in Keys \ spoilt :
    /\ heap[Copy(r, k)] \in Versions \cup {Empty, Blank}
    /\ heap[Copy(r, k)] = Blank => cpc = "uid" /\ Head(objs) = Copy(r, k)

(* In store st and memory hp the object of k is in memory no more. *)
Zeroed(k, st, hp) == st[k] # 0 /\ hp[Stored(st[k])] = Empty

(* Cell c holds what the informer stores for k, if memory does not. *)
UpToDate(c, k, st, hp) == Zeroed(k, st, hp) => hp[c] = st[k]

KeyIn(c, u) == IF c[1] = "store" THEN u[c[2]] ELSE c[2]

(* What is scheduled under a key is a cell of that object; only a copy of  *)
(* an object that was being zeroed has no key.                             *)
SchedKeys ==
  /\ \A k \in Keys : sched[k] # NoCell => KeyIn(sched[k], uid) = k
  /\ sched[NoUID] # NoCell => KeyIn(sched[NoUID], uid) \in spoilt

(* Of the versions themselves only the latest one is scheduled, as it was. *)
SchedVersions ==
  \A k \in Keys \ spoilt : \A v \in Versions : sched[k] = Stored(v) =>
    /\ v <= nver /\ heap[Stored(v)] = v
    /\ \A w \in Versions : w <= nver /\ uid[w] = k => w <= v

(* The reader looks for the object in the database. *)
InDb(r, k) == rpc[r] \in {"bucket", "value"} /\ item[r] = k

(* A scheduled copy will be up to date when its reader has filled it.      *)
SchedCopies ==
  \A k \in Keys \ spoilt : \A r \in Readers : sched[k] = Copy(r, k) =>
    closed \/ UpToDate(Copy(r, k), k, store, heap) \/ InDb(r, k)

(* What is not in the store yet is not collected. *)
SchedYoung ==
  putting # 0 => sched[uid[putting]] = NoCell \/ "store" \in young[uid[putting]]

Cleaning == cpc \in {"update", "put", "zero", "uid"}
InUpdate == cpc \in {"put", "zero", "uid"}

(* A read of an object that cleanup has taken is known to be spoilt.       *)
Quiet ==
  \A r \in Readers : \A k \in Keys :
    Reading(r) /\ floor[r][k] # 0 /\ InCleanup(k) => k \in spoilt

(* cleanup holds one cell of an object, which is scheduled no more.        *)
HeldKeys ==
  Cleaning => \A n \in 1..Len(objs) :
    /\ KeyIn(objs[n], uid) \in Keys
    /\ KeyIn(objs[n], uid) \notin spoilt =>
         \A m \in 1..Len(objs) : KeyIn(objs[m], uid) = KeyIn(objs[n], uid) => m = n

HeldOnce ==
  Cleaning => \A n \in 1..Len(objs) : KeyIn(objs[n], uid) \notin spoilt =>
    /\ sched[KeyIn(objs[n], uid)] # objs[n]
    /\ \A r \in Readers : sched[KeyIn(objs[n], uid)] # Copy(r, KeyIn(objs[n], uid))

(* A version that it holds has been stored.  If it is not the latest any   *)
(* more then that one is in memory.                                        *)
HeldVersions ==
  Cleaning => \A n \in 1..Len(objs) : \A v \in Versions :
    objs[n] = Stored(v) /\ uid[v] \notin spoilt =>
      /\ v <= nver /\ v # putting
      /\ (cpc = "uid" /\ n = 1) \/ heap[Stored(v)] = v
      /\ store[uid[v]] = v \/ ~Zeroed(uid[v], store, heap)

(* What it is still to write may replace what is in the database.          *)
HeldUpToDate ==
  Cleaning /\ ~closed => \A n \in 1..Len(objs) : KeyIn(objs[n], uid) \notin spoilt =>
    (cpc = "uid" /\ n = 1) \/ UpToDate(objs[n], KeyIn(objs[n], uid), store, heap)

(* The database as cleanup sees it. *)
Current == IF InUpdate THEN wtx ELSE db

(* It has every object that is in memory no more, and the one that is just *)
(* being zeroed.                                                           *)
Persisted ==
  /\ InUpdate => wtx.bucket /\ ~closed
  /\ \A k \in Keys : db.data[k] # Missing => db.bucket
  /\ \A k \in Keys \ spoilt : Zeroed(k, store, heap) =>
       Current.bucket /\ Current.data[k] = store[k]
  /\ cpc = "zero" /\ KeyIn(Head(objs), uid) \notin spoilt =>
       Current.data[KeyIn(Head(objs), uid)] = heap[Head(objs)]
  /\ cpc = "uid" => \A k \in Keys \ spoilt : store[k] # 0 /\ Head(objs) = Stored(store[k]) =>
       Current.data[k] = store[k]

(* In database d and transaction tx a reader finds version v of the object. *)
Finds(d, tx, k, v) ==
  d.bucket /\ d.data[k] = v /\ (tx.snap.bucket => tx.snap.data[k] = v)

(* What a reader has read, or is still to read from the database.          *)
InHand ==
  \A r \in Readers : Reading(r) =>
    /\ \A k \in want[r] : floor[r][k] # 0
    /\ rpc[r] \in {"bucket", "value"} /\ item[r] \notin spoilt => heap[Copy(r, item[r])] = Empty
    /\ \A k \in Keys \ spoilt : floor[r][k] # 0 =>
         /\ floor[r][k] \in Versions
         /\ Zeroed(k, store, heap) => floor[r][k] = store[k]
         /\ \/ heap[Copy(r, k)] = floor[r][k]
            \/ /\ heap[Copy(r, k)] = Empty
               /\ k \in want[r]
               /\ Finds(db, bx[req[r]].tx, k, floor[r][k])

(* A read fails because the database is closed or an object is spoilt.     *)
Succeeds ==
  \A r \in Readers : Reading(r) =>
    IF rpc[r] = "done"
    THEN IF failed[r] THEN closed \/ \E k \in spoilt : floor[r][k] # 0 ELSE want[r] = {}
    ELSE ~failed[r]

Memory == StoredCells /\ CopiedCells
Sched  == SchedKeys /\ SchedVersions /\ SchedCopies /\ SchedYoung
Held   == HeldKeys /\ HeldOnce /\ HeldVersions /\ HeldUpToDate
Reads  == Quiet /\ InHand /\ Succeeds

Data == Versioned /\ Memory /\ Sched /\ Held /\ Persisted /\ Reads

(* When cleanup has failed the cache has been told to stop. *)
Stops == (closed => cancelled) /\ (cpc = "stopped" => cancelled)

DataInv == TxInv /\ Stops /\ (cpc # "stopped" => Data)

LEMMA KeyInFacts ==
  /\ \A v, u : KeyIn(Stored(v), u) = u[v]
  /\ \A r \in Readers : \A k, u : KeyIn(Copy(r, k), u) = k
  /\ \A c : KeyOf(c) = KeyIn(c, uid)
<1>1. "store" \notin Readers
  BY BBoltCacheAssumption
<1> QED
  BY <1>1, CellFacts DEF KeyIn, KeyOf

LEMMA FirstHeld ==
  ASSUME TypeOK, objs # <<>>
  PROVE  Head(objs) = objs[1] /\ 1 \in 1..Len(objs) /\ Head(objs) \in Cells
  BY HeadAndTail DEF TypeOK

(* No object without a uid is read or spoilt. *)
LEMMA NoUIDFacts ==
  ASSUME TypeOK
  PROVE  NoUID \notin Keys /\ NoUID \notin spoilt
  BY KeySets DEF NoUID, TypeOK

(* Only versions that were issued belong to an object. *)
LEMMA IssuedVersions ==
  ASSUME TypeOK, Data
  PROVE  \A v \in Versions : /\ uid[v] \in Keys <=> v <= nver
                             /\ v <= nver + 1 /\ ~(v <= nver) => v = nver + 1
  BY NoUIDFacts, VersionTypes DEF TypeOK, Data, Versioned

(* Neither the cells nor the values of an object that is being read are in *)
(* the hands of cleanup.                                                   *)
LEMMA ReadIsNotHeld ==
  ASSUME TypeOK, Data, NEW r \in Readers, Reading(r), NEW k \in Keys \ spoilt, floor[r][k] # 0
  PROVE  /\ ~InCleanup(k)
         /\ Cleaning => \A n \in 1..Len(objs) : KeyIn(objs[n], uid) # k
         /\ InUpdate => wtx.data[k] = db.data[k]
<1>1. ~InCleanup(k)
  BY DEF Data, Reads, Quiet
<1> QED
  BY <1>1, KeyInFacts DEF InCleanup, Cleaning, InUpdate

(* The cells of an object that is being read are not being zeroed. *)
LEMMA ReadIsNotBlank ==
  ASSUME TxInv, Data, NEW r \in Readers, Reading(r), NEW k \in Keys \ spoilt, floor[r][k] # 0
  PROVE  heap[Copy(r, k)] # Blank /\ getKey(Copy(r, k)) = k
<1>1. heap[Copy(r, k)] # Blank
  <2> SUFFICES ASSUME heap[Copy(r, k)] = Blank PROVE FALSE
    OBVIOUS
  <2>1. cpc = "uid" /\ Head(objs) = Copy(r, k)
    BY DEF Data, Memory, CopiedCells
  <2>2. objs[1] = Copy(r, k) /\ 1 \in 1..Len(objs)
    BY <2>1, FirstHeld DEF TxInv, HasWork
  <2> QED
    BY <2>1, <2>2, ReadIsNotHeld, KeyInFacts DEF TxInv, Cleaning
<1> QED
  BY <1>1, KeyInFacts DEF getKey

LEMMA InitData == Init => Stops /\ Data
<1> SUFFICES ASSUME Init PROVE Stops /\ Data
  OBVIOUS
<1>1. Stops
  BY DEF Init, Stops
<1>2. Versioned
  BY VersionTypes DEF Init, Versioned
<1>3. Memory
  <2>1. \A c \in Cells : heap[c] = Empty
    BY DEF Init
  <2>2. putting = 0
    BY DEF Init
  <2> QED
    BY <2>1, <2>2, CellTypes, ContentTypes, VersionTypes DEF Memory, StoredCells, CopiedCells
<1>4. \A k \in Keys \cup {NoUID} : sched[k] = NoCell
  BY DEF Init
<1>5. Sched
  <2>1. \A v \in Versions : Stored(v) # NoCell
    BY CellFacts, CellTypes
  <2>2. \A r \in Readers, k \in Keys : Copy(r, k) # NoCell
    BY CellFacts, CellTypes
  <2>3. putting = 0
    BY DEF Init
  <2> QED
    BY <1>4, <2>1, <2>2, <2>3
       DEF Sched, SchedKeys, SchedVersions, SchedCopies, SchedYoung
<1>6. Held
  BY DEF Init, Held, HeldKeys, HeldOnce, HeldVersions, HeldUpToDate, Cleaning
<1>7. Persisted
  BY DEF Init, Persisted, InUpdate, Zeroed, NoBucket
<1>8. Reads
  BY DEF Init, Reads, Quiet, InHand, Succeeds, Reading
<1> QED
  BY <1>1, <1>2, <1>3, <1>5, <1>6, <1>7, <1>8 DEF Data

-----------------------------------------------------------------------------
(* The informer. *)

LEMMA PutObjectEffect ==
  ASSUME TypeOK, Data, NEW k0 \in Keys, putObject(k0)
  PROVE  LET v0 == nver + 1 IN
         /\ v0 \in Versions /\ nver' = v0 /\ putting = 0 /\ putting' = v0
         /\ \A v \in Versions : uid'[v] = IF v = v0 THEN k0 ELSE uid[v]
         /\ \A v \in Versions : heap'[Stored(v)] = IF v = v0 THEN v ELSE heap[Stored(v)]
         /\ \A r \in Readers, k \in Keys : heap'[Copy(r, k)] = heap[Copy(r, k)]
         /\ \A k \in Keys \cup {NoUID} : sched'[k] = IF k = k0 THEN Stored(v0) ELSE sched[k]
         /\ "store" \in young'[k0]
         /\ UNCHANGED <<store, db, cleanerVars, readerVars, bx, leaked, spoilt, startVars>>
<1> DEFINE v0 == nver + 1
<1>1. v0 \in Versions
  BY VersionTypes DEF putObject, TypeOK
<1>2. /\ nver' = v0 /\ putting = 0 /\ putting' = v0
      /\ uid' = [uid EXCEPT ![v0] = k0]
      /\ heap' = [heap EXCEPT ![Stored(v0)] = v0]
      /\ sched' = [sched EXCEPT ![k0] = Stored(v0)]
      /\ young' = [young EXCEPT ![k0] = {r \in Readers : Reading(r)} \cup {"store"}]
      /\ UNCHANGED <<store, db, cleanerVars, readerVars, bx, leaked, spoilt, startVars>>
  BY DEF putObject, Schedule
<1> HIDE DEF v0
<1>3. \A v \in Versions : uid'[v] = IF v = v0 THEN k0 ELSE uid[v]
  BY <1>2 DEF TypeOK
<1>4. \A v \in Versions : heap'[Stored(v)] = IF v = v0 THEN v ELSE heap[Stored(v)]
  BY <1>2, CellFacts, CellTypes DEF TypeOK
<1>5. \A r \in Readers, k \in Keys : heap'[Copy(r, k)] = heap[Copy(r, k)]
  BY <1>2, CellFacts, CellTypes DEF TypeOK
<1>6. \A k \in Keys \cup {NoUID} : sched'[k] = IF k = k0 THEN Stored(v0) ELSE sched[k]
  BY <1>2 DEF TypeOK
<1>7. "store" \in young'[k0]
  BY <1>2 DEF TypeOK
<1> QED
  BY <1>1, <1>2, <1>3, <1>4, <1>5, <1>6, <1>7 DEF v0

LEMMA PutObjectData ==
  ASSUME TypeOK, TypeOK', Data, HasWork, NEW k0 \in Keys, putObject(k0)
  PROVE  Data'
<1> DEFINE v0 == nver + 1
<1>e. /\ v0 \in Versions /\ nver' = v0 /\ putting = 0 /\ putting' = v0
      /\ \A v \in Versions : uid'[v] = IF v = v0 THEN k0 ELSE uid[v]
      /\ \A v \in Versions : heap'[Stored(v)] = IF v = v0 THEN v ELSE heap[Stored(v)]
      /\ \A r \in Readers, k \in Keys : heap'[Copy(r, k)] = heap[Copy(r, k)]
      /\ \A k \in Keys \cup {NoUID} : sched'[k] = IF k = k0 THEN Stored(v0) ELSE sched[k]
      /\ "store" \in young'[k0]
  BY PutObjectEffect
<1>u. /\ store' = store /\ db' = db /\ cpc' = cpc /\ objs' = objs /\ wtx' = wtx
      /\ rpc' = rpc /\ req' = req /\ want' = want /\ item' = item /\ floor' = floor
      /\ failed' = failed /\ bx' = bx /\ spoilt' = spoilt /\ closed' = closed
  BY PutObjectEffect DEF cleanerVars, readerVars, startVars
<1>i. nver \in Int /\ v0 = nver + 1 /\ v0 \in Int /\ Versions = 1..MaxVersion
      /\ MaxVersion \in Nat /\ \A k \in Keys : store[k] \in Int
  BY VersionTypes DEF TypeOK
<1>n. /\ uid[v0] \notin Keys /\ NoUID \notin Keys /\ NoUID \notin spoilt
      /\ \A v \in Versions : uid[v] \in Keys <=> v <= nver
  BY <1>e, <1>i, IssuedVersions, NoUIDFacts
<1>s. spoilt \subseteq Keys
  BY DEF TypeOK
<1> HIDE DEF v0
<1>1. Versioned'
  BY <1>e, <1>u, <1>i DEF Data, Versioned
<1>2. Memory'
  <2>1. StoredCells'
    <3> SUFFICES ASSUME NEW v \in Versions, uid'[v] \notin spoilt
                 PROVE  /\ heap'[Stored(v)] \in {v, Empty, Blank}
                        /\ heap'[Stored(v)] = Blank => cpc = "uid" /\ Head(objs) = Stored(v)
                        /\ v = putting' => heap'[Stored(v)] = v
      BY <1>u DEF StoredCells
    <3>1. CASE v = v0
      BY <1>e, <3>1, ContentTypes
    <3>2. CASE v # v0
      BY <1>e, <3>2 DEF Data, Memory, StoredCells
    <3> QED
      BY <3>1, <3>2
  <2>2. CopiedCells'
    BY <1>e, <1>u DEF Data, Memory, CopiedCells
  <2> QED
    BY <2>1, <2>2 DEF Memory
<1>3. \A k \in Keys : Zeroed(k, store', heap') <=> Zeroed(k, store, heap)
  BY <1>e, <1>u, <1>i DEF Data, Versioned, Zeroed
<1>4. \A c \in Cells : KeyIn(c, uid) \in Keys => c # Stored(v0) /\ KeyIn(c, uid') = KeyIn(c, uid)
                                                /\ heap'[c] = heap[c]
  <2> SUFFICES ASSUME NEW c \in Cells, KeyIn(c, uid) \in Keys
               PROVE  c # Stored(v0) /\ KeyIn(c, uid') = KeyIn(c, uid) /\ heap'[c] = heap[c]
    OBVIOUS
  <2>1. CASE \E v \in Versions : c = Stored(v)
    BY <1>e, <1>n, <2>1, CellFacts, KeyInFacts
  <2>2. CASE \E r \in Readers, k \in Keys : c = Copy(r, k)
    BY <1>e, <2>2, CellFacts, KeyInFacts
  <2> QED
    BY <2>1, <2>2, CellTypes
<1>5. \A k \in Keys \cup {NoUID} : sched[k] # NoCell => sched[k] \in Cells
  BY DEF TypeOK
<1>6. SchedKeys'
  <2>1. KeyIn(Stored(v0), uid') = k0
    BY <1>e, KeyInFacts
  <2>2. \A k \in Keys : sched[k] # NoCell => KeyIn(sched[k], uid') = k
    BY <1>4, <1>5 DEF Data, Sched, SchedKeys
  <2>3. sched[NoUID] # NoCell => KeyIn(sched[NoUID], uid') \in spoilt
    BY <1>4, <1>5, <1>s DEF Data, Sched, SchedKeys
  <2> QED
    BY <1>e, <1>u, <1>n, <2>1, <2>2, <2>3 DEF SchedKeys
<1>7. SchedVersions'
  <2> SUFFICES ASSUME NEW k \in Keys \ spoilt, NEW v \in Versions, sched'[k] = Stored(v)
               PROVE  /\ v <= nver' /\ heap'[Stored(v)] = v
                      /\ \A w \in Versions : w <= nver' /\ uid'[w] = k => w <= v
    BY <1>u DEF SchedVersions
  <2>1. CASE k = k0
    BY <1>e, <1>i, <2>1, CellFacts
  <2>2. CASE k # k0
    <3>1. /\ v <= nver /\ heap[Stored(v)] = v
          /\ \A w \in Versions : w <= nver /\ uid[w] = k => w <= v
      BY <1>e, <2>2 DEF Data, Sched, SchedVersions
    <3> QED
      BY <1>e, <1>i, <2>2, <3>1
  <2> QED
    BY <2>1, <2>2
<1>8. SchedCopies'
  BY <1>e, <1>u, <1>3, CellFacts DEF Data, Sched, SchedCopies, UpToDate, InDb
<1>9. SchedYoung'
  BY <1>e, <1>u DEF SchedYoung
<1>10. Cleaning => \A n \in 1..Len(objs) :
         /\ KeyIn(objs[n], uid) \in Keys
         /\ KeyIn(objs[n], uid') = KeyIn(objs[n], uid)
         /\ objs[n] # Stored(v0)
         /\ heap'[objs[n]] = heap[objs[n]]
  <2>1. \A n \in 1..Len(objs) : objs[n] \in Cells
    BY DEF TypeOK
  <2> QED
    BY <1>4, <2>1 DEF Data, Held, HeldKeys
<1>11. HeldKeys'
  BY <1>u, <1>10 DEF Data, Held, HeldKeys, Cleaning
<1>12. HeldOnce'
  BY <1>e, <1>u, <1>10, CellFacts DEF Data, Held, HeldKeys, HeldOnce, Cleaning
<1>13. HeldVersions'
  <2> SUFFICES ASSUME Cleaning, NEW n \in 1..Len(objs), NEW v \in Versions,
                      objs[n] = Stored(v), uid'[v] \notin spoilt
               PROVE  /\ v <= nver' /\ v # putting'
                      /\ (cpc = "uid" /\ n = 1) \/ heap'[Stored(v)] = v
                      /\ store[uid'[v]] = v \/ ~Zeroed(uid'[v], store, heap')
    BY <1>u DEF HeldVersions, Cleaning
  <2>1. v # v0 /\ uid'[v] = uid[v] /\ uid[v] \in Keys /\ heap'[Stored(v)] = heap[Stored(v)]
    BY <1>e, <1>10, KeyInFacts
  <2>2. /\ v <= nver
        /\ (cpc = "uid" /\ n = 1) \/ heap[Stored(v)] = v
        /\ store[uid[v]] = v \/ ~Zeroed(uid[v], store, heap)
    BY <2>1 DEF Data, Held, HeldVersions
  <2> QED
    BY <1>e, <1>u, <1>i, <1>3, <2>1, <2>2
<1>14. HeldUpToDate'
  BY <1>u, <1>3, <1>10 DEF Data, Held, HeldUpToDate, Cleaning, UpToDate
<1>15. Persisted'
  <2>1. cpc \in {"zero", "uid"} =>
          KeyIn(Head(objs), uid') = KeyIn(Head(objs), uid) /\ heap'[Head(objs)] = heap[Head(objs)]
    BY <1>10, HeadAndTail DEF HasWork, TypeOK, Cleaning
  <2> QED
    BY <1>e, <1>u, <1>3, <2>1 DEF Data, Persisted, Current, InUpdate
<1>16. Reads'
  <2>1. Quiet'
    <3>1. \A k \in Keys : InCleanup(k)' <=> InCleanup(k)
      <4>1. \A c : KeyOf(c) = KeyIn(c, uid) /\ KeyOf(c)' = KeyIn(c, uid')
        BY DEF KeyOf, KeyIn
      <4> QED
        BY <1>u, <1>10, <4>1 DEF InCleanup, Cleaning
    <3> QED
      BY <1>u, <3>1 DEF Data, Reads, Quiet, Reading
  <2>2. InHand'
    BY <1>e, <1>u, <1>3 DEF Data, Reads, InHand, Finds, Reading, HasWork, TypeOK
  <2>3. Succeeds'
    BY <1>u DEF Data, Reads, Succeeds, Reading
  <2> QED
    BY <2>1, <2>2, <2>3 DEF Reads
<1> QED
  BY <1>1, <1>2, <1>6, <1>7, <1>8, <1>9, <1>11, <1>12, <1>13, <1>14, <1>15, <1>16
     DEF Data, Sched, Held

LEMMA PutEffect ==
  ASSUME TypeOK, Data, Put
  PROVE  LET k0 == uid[putting] IN
         /\ putting \in Versions /\ putting = nver /\ k0 \in Keys /\ putting' = 0
         /\ store[k0] < putting
         /\ \A k \in Keys : store'[k] = IF k = k0 THEN putting ELSE store[k]
         /\ \A k \in Keys \ spoilt : Zeroed(k, store', heap) <=> k # k0 /\ Zeroed(k, store, heap)
         /\ UNCHANGED <<nver, uid, heap, sched, db, cleanerVars, readerVars, bx, leaked, spoilt,
                        startVars>>
<1> DEFINE k0 == uid[putting]
<1>1. putting \in Versions /\ putting = nver /\ store[k0] < putting
  BY DEF Put, Data, Versioned
<1>2. k0 \in Keys
  BY <1>1, VersionTypes DEF Data, Versioned
<1>3. /\ store' = [store EXCEPT ![k0] = putting]
      /\ putting' = 0
      /\ UNCHANGED <<nver, uid, heap, sched, db, cleanerVars, readerVars, bx, leaked, spoilt,
                     startVars>>
  BY DEF Put
<1>4. k0 \notin spoilt => heap[Stored(putting)] = putting
  BY <1>1 DEF Data, Memory, StoredCells
<1> HIDE DEF k0
<1>5. \A k \in Keys : store'[k] = IF k = k0 THEN putting ELSE store[k]
  BY <1>3 DEF TypeOK
<1>6. \A k \in Keys \ spoilt : Zeroed(k, store', heap) <=> k # k0 /\ Zeroed(k, store, heap)
  BY <1>1, <1>4, <1>5, ContentTypes DEF Zeroed
<1> QED
  BY <1>1, <1>2, <1>3, <1>5, <1>6 DEF k0

LEMMA PutData ==
  ASSUME TypeOK, TypeOK', Data, HasWork, Put
  PROVE  Data'
<1> DEFINE k0 == uid[putting]
<1>e. /\ putting \in Versions /\ putting = nver /\ k0 \in Keys /\ putting' = 0
      /\ store[k0] < putting
      /\ \A k \in Keys : store'[k] = IF k = k0 THEN putting ELSE store[k]
      /\ \A k \in Keys \ spoilt : Zeroed(k, store', heap) <=> k # k0 /\ Zeroed(k, store, heap)
  BY PutEffect
<1>u. /\ nver' = nver /\ uid' = uid /\ heap' = heap /\ sched' = sched /\ db' = db
      /\ cpc' = cpc /\ objs' = objs /\ wtx' = wtx
      /\ rpc' = rpc /\ req' = req /\ want' = want /\ item' = item /\ floor' = floor
      /\ failed' = failed /\ bx' = bx /\ spoilt' = spoilt /\ closed' = closed
  BY PutEffect DEF cleanerVars, readerVars, startVars
<1>i. nver \in Int /\ Versions = 1..MaxVersion
      /\ MaxVersion \in Nat /\ \A k \in Keys : store[k] \in Int
  BY VersionTypes DEF TypeOK
<1>k. uid[putting] = k0
  OBVIOUS
<1> HIDE DEF k0
<1>1. Versioned'
  BY <1>e, <1>u, <1>i, <1>k DEF Data, Versioned
<1>2. Memory'
  BY <1>e, <1>u, <1>i DEF Data, Memory, StoredCells, CopiedCells
<1>3. SchedKeys' /\ SchedVersions'
  BY <1>u DEF Data, Sched, SchedKeys, SchedVersions
<1>4. SchedCopies'
  BY <1>e, <1>u DEF Data, Sched, SchedCopies, UpToDate, InDb
<1>5. SchedYoung'
  BY <1>e DEF SchedYoung
<1>6. HeldKeys' /\ HeldOnce'
  BY <1>u DEF Data, Held, HeldKeys, HeldOnce, Cleaning
<1>7. HeldVersions'
  <2> SUFFICES ASSUME Cleaning, NEW n \in 1..Len(objs), NEW v \in Versions,
                      objs[n] = Stored(v), uid[v] \notin spoilt
               PROVE  /\ v <= nver /\ v # putting'
                      /\ (cpc = "uid" /\ n = 1) \/ heap[Stored(v)] = v
                      /\ store'[uid[v]] = v \/ ~Zeroed(uid[v], store', heap)
    BY <1>u DEF HeldVersions, Cleaning
  <2>1. /\ v <= nver
        /\ (cpc = "uid" /\ n = 1) \/ heap[Stored(v)] = v
        /\ store[uid[v]] = v \/ ~Zeroed(uid[v], store, heap)
    BY DEF Data, Held, HeldVersions
  <2>2. uid[v] \in Keys
    BY <2>1, IssuedVersions
  <2> QED
    BY <1>e, <1>i, <2>1, <2>2
<1>8. HeldUpToDate'
  BY <1>e, <1>u DEF Data, Held, HeldKeys, HeldUpToDate, Cleaning, UpToDate
<1>9. Persisted'
  <2>1. k0 \notin spoilt /\ cpc = "uid" => Head(objs) # Stored(putting)
    <3>1. cpc = "uid" => Head(objs) = objs[1] /\ 1 \in 1..Len(objs)
      BY FirstHeld DEF HasWork
    <3> QED
      BY <1>e, <1>k, <3>1 DEF Data, Held, HeldVersions, Cleaning
  <2> QED
    BY <1>e, <1>u, <2>1 DEF Data, Persisted, Current, InUpdate
<1>10. Reads'
  <2>1. \A k \in Keys : InCleanup(k)' <=> InCleanup(k)
    BY <1>u DEF InCleanup, KeyOf
  <2>2. Quiet'
    BY <1>u, <2>1 DEF Data, Reads, Quiet, Reading
  <2>3. InHand'
    BY <1>e, <1>u DEF Data, Reads, InHand, Finds, Reading
  <2>4. Succeeds'
    BY <1>u DEF Data, Reads, Succeeds, Reading
  <2> QED
    BY <2>2, <2>3, <2>4 DEF Reads
<1> QED
  BY <1>1, <1>2, <1>3, <1>4, <1>5, <1>6, <1>7, <1>8, <1>9, <1>10 DEF Data, Sched, Held

-----------------------------------------------------------------------------
(* cleanup. *)

(* What cleanup does to objects that are not in its hands, and those that  *)
(* are being read are not, is nothing.                                     *)
LEMMA CleanerReads ==
  ASSUME TypeOK, HasWork, Data, UNCHANGED <<readerVars, bx, store, spoilt, closed>>,
         \A k \in Keys : InCleanup(k)' => InCleanup(k),
         \A k \in Keys \ spoilt : ~InCleanup(k) =>
           /\ \A r \in Readers : heap'[Copy(r, k)] = heap[Copy(r, k)]
           /\ Zeroed(k, store, heap') => Zeroed(k, store, heap)
           /\ db'.data[k] = db.data[k],
         db.bucket => db'.bucket
  PROVE  Reads'
<1>u. /\ rpc' = rpc /\ req' = req /\ want' = want /\ item' = item /\ floor' = floor
      /\ failed' = failed /\ bx' = bx /\ store' = store /\ spoilt' = spoilt /\ closed' = closed
  BY DEF readerVars
<1>1. Quiet'
  BY <1>u DEF Data, Reads, Quiet, Reading
<1>2. Succeeds'
  BY <1>u DEF Data, Reads, Succeeds, Reading
<1>3. InHand'
  <2> SUFFICES ASSUME NEW r \in Readers, Reading(r)
               PROVE  /\ \A k \in want[r] : floor[r][k] # 0
                      /\ rpc[r] \in {"bucket", "value"} /\ item[r] \notin spoilt =>
                           heap'[Copy(r, item[r])] = Empty
                      /\ \A k \in Keys \ spoilt : floor[r][k] # 0 =>
                           /\ floor[r][k] \in Versions
                           /\ Zeroed(k, store, heap') => floor[r][k] = store[k]
                           /\ \/ heap'[Copy(r, k)] = floor[r][k]
                              \/ /\ heap'[Copy(r, k)] = Empty
                                 /\ k \in want[r]
                                 /\ Finds(db', bx[req[r]].tx, k, floor[r][k])
    BY <1>u DEF InHand, Reading
  <2>1. \A k \in want[r] : floor[r][k] # 0
    BY DEF Data, Reads, InHand
  <2>2. ASSUME NEW k \in Keys \ spoilt, floor[r][k] # 0
        PROVE  /\ heap'[Copy(r, k)] = heap[Copy(r, k)]
               /\ Zeroed(k, store, heap') => Zeroed(k, store, heap)
               /\ db'.data[k] = db.data[k]
    BY <2>2, ReadIsNotHeld
  <2>3. ASSUME rpc[r] \in {"bucket", "value"}, item[r] \notin spoilt
        PROVE  heap'[Copy(r, item[r])] = Empty
    <3>1. item[r] \in Keys /\ item[r] \in want[r]
      BY <2>3 DEF HasWork, TypeOK
    <3> QED
      BY <2>1, <2>2, <2>3, <3>1 DEF Data, Reads, InHand
  <2>4. ASSUME NEW k \in Keys \ spoilt, floor[r][k] # 0
        PROVE  /\ floor[r][k] \in Versions
               /\ Zeroed(k, store, heap') => floor[r][k] = store[k]
               /\ \/ heap'[Copy(r, k)] = floor[r][k]
                  \/ /\ heap'[Copy(r, k)] = Empty
                     /\ k \in want[r]
                     /\ Finds(db', bx[req[r]].tx, k, floor[r][k])
    BY <2>2, <2>4 DEF Data, Reads, InHand, Finds
  <2> QED
    BY <2>1, <2>3, <2>4
<1> QED
  BY <1>1, <1>2, <1>3 DEF Reads

LEMMA CollectData ==
  ASSUME TxInv, TypeOK', Data, NEW ks \in SUBSET (Keys \cup {NoUID}), Collect(ks)
  PROVE  Data'
<1>t. TypeOK
  BY DEF TxInv
<1>u. /\ nver' = nver /\ uid' = uid /\ store' = store /\ putting' = putting
      /\ heap' = heap /\ young' = young /\ db' = db /\ wtx' = wtx
      /\ rpc' = rpc /\ req' = req /\ want' = want /\ item' = item /\ floor' = floor
      /\ failed' = failed /\ bx' = bx /\ closed' = closed
  BY DEF Collect, informerVars, readerVars, startVars
<1>1. /\ cpc = "idle" /\ cpc' = "update"
      /\ \A k \in ks : sched[k] # NoCell /\ young[k] = {}
  BY DEF Collect
<1>2. \A k \in Keys \cup {NoUID} : sched'[k] = IF k \in ks THEN NoCell ELSE sched[k]
  BY <1>t DEF Collect, TypeOK
<1>3. PICK sorted \in [1..Len(objs') -> ks] :
        /\ \A i, j \in 1..Len(objs') : i < j => sorted[i] < sorted[j]
        /\ \A i \in 1..Len(objs') : objs'[i] = sched[sorted[i]]
  BY <1>t, Collected
<1>4. /\ spoilt \subseteq spoilt' /\ spoilt' \subseteq Keys
      /\ NoUID \notin Keys
      /\ \A k \in Keys : IsRead(k) /\ (\E j \in ks : KeyIn(sched[j], uid) = k) => k \in spoilt'
  BY <1>t, NoUIDFacts, KeyInFacts DEF Collect, TypeOK
<1>5. \A v \in Versions : Stored(v) # NoCell
  BY CellFacts, CellTypes
<1>6. \A r \in Readers, k \in Keys : Copy(r, k) # NoCell
  BY CellFacts, CellTypes
<1>7. \A n \in 1..Len(objs') :
        /\ sorted[n] \in ks /\ objs'[n] = sched[sorted[n]] /\ objs'[n] \in Cells
        /\ KeyIn(objs'[n], uid) \in Keys
        /\ KeyIn(objs'[n], uid) \notin spoilt' => sorted[n] = KeyIn(objs'[n], uid)
  <2> SUFFICES ASSUME NEW n \in 1..Len(objs')
               PROVE  /\ sorted[n] \in ks /\ objs'[n] = sched[sorted[n]] /\ objs'[n] \in Cells
                      /\ KeyIn(objs'[n], uid) \in Keys
                      /\ KeyIn(objs'[n], uid) \notin spoilt' => sorted[n] = KeyIn(objs'[n], uid)
    OBVIOUS
  <2>1. sorted[n] \in ks /\ objs'[n] = sched[sorted[n]] /\ objs'[n] \in Cells
    BY <1>3 DEF TypeOK
  <2>2. sched[sorted[n]] # NoCell /\ (sorted[n] \in Keys \/ sorted[n] = NoUID)
    BY <1>1, <2>1
  <2> QED
    BY <1>4, <2>1, <2>2 DEF Data, Sched, SchedKeys
<1>8. ASSUME NEW k \in Keys \ spoilt', k \in ks, NEW v \in Versions, sched[k] = Stored(v)
      PROVE  /\ v <= nver /\ v # putting /\ uid[v] = k /\ heap[Stored(v)] = v
             /\ store[k] = v /\ ~Zeroed(k, store, heap)
  <2>1. v <= nver /\ uid[v] = k /\ heap[Stored(v)] = v
        /\ \A w \in Versions : w <= nver /\ uid[w] = k => w <= v
    BY <1>4, <1>5, <1>8, KeyInFacts DEF Data, Sched, SchedKeys, SchedVersions
  <2>2. v # putting
    <3>1. "store" \notin young[k] /\ sched[k] # NoCell
      BY <1>1, <1>8
    <3>2. v # 0
      BY VersionTypes
    <3> QED
      BY <2>1, <3>1, <3>2 DEF Data, Sched, SchedYoung
  <2>3. v <= store[k]
    BY <2>1, <2>2 DEF Data, Versioned
  <2>4. store[k] = v
    <3>1. v \in Int /\ 1 <= v /\ store[k] \in Int
      BY <1>t, VersionTypes DEF TypeOK
    <3>2. store[k] \in Versions /\ store[k] <= nver /\ uid[store[k]] = k
      BY <2>3, <3>1 DEF Data, Versioned
    <3>3. store[k] <= v
      BY <2>1, <3>2
    <3> QED
      BY <2>3, <3>1, <3>3
  <2> QED
    BY <2>1, <2>2, <2>4, ContentTypes DEF Zeroed
<1>9. Versioned'
  BY <1>u DEF Data, Versioned
<1>10. Memory'
  BY <1>u, <1>1, <1>4 DEF Data, Memory, StoredCells, CopiedCells
<1>11. Sched'
  <2>1. SchedKeys'
    BY <1>u, <1>2, <1>4 DEF Data, Sched, SchedKeys
  <2>2. SchedVersions'
    BY <1>u, <1>2, <1>4, <1>5 DEF Data, Sched, SchedVersions
  <2>3. SchedCopies'
    BY <1>u, <1>2, <1>4, <1>6 DEF Data, Sched, SchedCopies, InDb
  <2>4. SchedYoung'
    <3>1. putting # 0 => uid[putting] \in Keys
      BY <1>t, VersionTypes DEF Data, Versioned, TypeOK
    <3> QED
      BY <1>u, <1>2, <3>1 DEF Data, Sched, SchedYoung
  <2> QED
    BY <2>1, <2>2, <2>3, <2>4 DEF Sched
<1>12. HeldKeys'
  <2>1. ASSUME NEW n \in 1..Len(objs'), NEW m \in 1..Len(objs'),
               KeyIn(objs'[n], uid) \notin spoilt',
               KeyIn(objs'[m], uid) = KeyIn(objs'[n], uid)
        PROVE  m = n
    <3>1. Len(objs') \in Nat
      BY DEF TypeOK
    <3>2. sorted[n] \in Nat /\ sorted[m] = sorted[n]
      BY <1>7, <2>1, KeySets
    <3>3. ~(m < n) /\ ~(n < m)
      BY <1>3, <3>2
    <3> QED
      BY <3>1, <3>3
  <2> QED
    BY <1>u, <1>7, <2>1 DEF HeldKeys
<1>13. HeldOnce'
  <2>1. \A n \in 1..Len(objs') : sched'[sorted[n]] = NoCell /\ objs'[n] # NoCell
    BY <1>1, <1>2, <1>7
  <2> QED
    BY <1>u, <1>6, <1>7, <2>1 DEF HeldOnce
<1>14. HeldVersions'
  <2> SUFFICES ASSUME NEW n \in 1..Len(objs'), NEW v \in Versions, objs'[n] = Stored(v),
                      uid[v] \notin spoilt'
               PROVE  /\ v <= nver /\ v # putting /\ heap[Stored(v)] = v
                      /\ store[uid[v]] = v
    BY <1>u DEF HeldVersions
  <2>1. KeyIn(objs'[n], uid) = uid[v]
    BY KeyInFacts
  <2>2. uid[v] \in ks /\ uid[v] \in Keys /\ sched[uid[v]] = Stored(v)
    BY <1>7, <2>1
  <2> QED
    BY <1>8, <2>2
<1>15. HeldUpToDate'
  <2>1. ASSUME ~closed, NEW n \in 1..Len(objs'), KeyIn(objs'[n], uid) \notin spoilt'
        PROVE  UpToDate(objs'[n], KeyIn(objs'[n], uid), store, heap)
    <3> DEFINE k == KeyIn(objs'[n], uid)
    <3>1. k \in Keys \ spoilt' /\ k \in ks /\ objs'[n] = sched[k] /\ objs'[n] \in Cells
      BY <1>7, <2>1
    <3>2. CASE \E v \in Versions : objs'[n] = Stored(v)
      BY <1>8, <3>1, <3>2 DEF UpToDate
    <3>3. CASE \E r \in Readers, j \in Keys : objs'[n] = Copy(r, j)
      <4>1. PICK r \in Readers : objs'[n] = Copy(r, k)
        BY <3>3, KeyInFacts
      <4>2. ~InDb(r, k)
        <5> SUFFICES ASSUME InDb(r, k) PROVE FALSE
          OBVIOUS
        <5>1. Reading(r) /\ k \in want[r]
          BY DEF InDb, Reading, TxInv, HasWork
        <5>2. IsRead(k)
          BY <5>1 DEF Data, Reads, InHand, IsRead
        <5> QED
          BY <1>4, <3>1, <5>2
      <4> QED
        BY <1>4, <2>1, <3>1, <4>1, <4>2 DEF Data, Sched, SchedCopies
    <3> QED
      BY <3>1, <3>2, <3>3, CellTypes
  <2> QED
    BY <1>u, <2>1 DEF HeldUpToDate
<1>16. Persisted'
  BY <1>u, <1>1, <1>4 DEF Data, Persisted, Current, InUpdate
<1>17. Reads'
  <2>1. Quiet'
    <3> SUFFICES ASSUME NEW r \in Readers, NEW k \in Keys, Reading(r), floor[r][k] # 0,
                        InCleanup(k)'
                 PROVE  k \in spoilt'
      BY <1>u DEF Quiet, Reading
    <3>1. \E n \in 1..Len(objs') : KeyIn(objs'[n], uid) = k
      <4>1. \A c : KeyOf(c)' = KeyIn(c, uid')
        BY DEF KeyOf, KeyIn
      <4> QED
        BY <1>u, <1>1, <4>1 DEF InCleanup
    <3>2. IsRead(k)
      BY DEF IsRead
    <3> QED
      BY <1>4, <1>7, <3>1, <3>2
  <2>2. InHand'
    BY <1>u, <1>4 DEF Data, Reads, InHand, Reading
  <2>3. Succeeds'
    BY <1>u, <1>4 DEF Data, Reads, Succeeds, Reading
  <2> QED
    BY <2>1, <2>2, <2>3 DEF Reads
<1> QED
  BY <1>9, <1>10, <1>11, <1>12, <1>13, <1>14, <1>15, <1>16, <1>17 DEF Data, Held

LEMMA CleanBeginData ==
  ASSUME TxInv, TypeOK', Data, CleanBegin
  PROVE  Data'
<1>u. /\ nver' = nver /\ uid' = uid /\ store' = store /\ putting' = putting
      /\ heap' = heap /\ sched' = sched /\ young' = young /\ db' = db /\ objs' = objs
      /\ rpc' = rpc /\ item' = item /\ spoilt' = spoilt /\ closed' = closed
      /\ UNCHANGED <<readerVars, bx>>
  BY DEF CleanBegin, informerVars, readerVars, startVars
<1>1. /\ cpc = "update" /\ cpc' = "put" /\ ~closed
      /\ wtx'.bucket /\ wtx'.data = db.data
  BY DEF CleanBegin, TxInv, TypeOK, Snapshots
<1>2. Versioned' /\ Memory'
  BY <1>u, <1>1 DEF Data, Versioned, Memory, StoredCells, CopiedCells
<1>3. Sched'
  BY <1>u DEF Data, Sched, SchedKeys, SchedVersions, SchedCopies, SchedYoung, InDb
<1>4. Held'
  BY <1>u, <1>1 DEF Data, Held, HeldKeys, HeldOnce, HeldVersions, HeldUpToDate, Cleaning
<1>5. Persisted'
  BY <1>u, <1>1 DEF Data, Persisted, Current, InUpdate
<1>6. Reads'
  <2>1. \A k \in Keys : InCleanup(k)' => InCleanup(k)
    BY <1>u, <1>1 DEF InCleanup, KeyOf
  <2> QED
    BY <1>u, <2>1, CleanerReads DEF TxInv
<1> QED
  BY <1>2, <1>3, <1>4, <1>5, <1>6 DEF Data

(* An object that has its uid is written under its key. *)
LEMMA CleanPutEffect ==
  ASSUME TxInv, Data, CleanPut
  PROVE  LET c == Head(objs) IN
         /\ c \in Cells /\ c = objs[1] /\ 1 \in 1..Len(objs)
         /\ KeyIn(c, uid) \in Keys
         /\ wtx'.bucket = wtx.bucket
         /\ \A k \in Keys : wtx'.data[k] = IF k = KeyIn(c, uid) THEN heap[c] ELSE wtx.data[k]
<1> DEFINE c == Head(objs)
           k0 == KeyIn(c, uid)
<1>1. /\ cpc = "put" /\ objs # <<>> /\ getKey(c) # NoUID
      /\ wtx' = [wtx EXCEPT !.data[getKey(c)] = heap[c]]
  BY DEF CleanPut
<1>2. c \in Cells /\ c = objs[1] /\ 1 \in 1..Len(objs)
  BY <1>1, FirstHeld DEF TxInv
<1>3. getKey(c) = k0
  BY <1>1, KeyInFacts DEF getKey
<1>4. k0 \in Keys
  BY <1>1, <1>2 DEF Data, Held, HeldKeys, Cleaning
<1>5. /\ wtx'.bucket = wtx.bucket
      /\ \A k \in Keys : wtx'.data[k] = IF k = k0 THEN heap[c] ELSE wtx.data[k]
  <2> DEFINE x == heap[c]
  <2>1. wtx' = [wtx EXCEPT !.data[k0] = x] /\ wtx \in Snapshots
    BY <1>1, <1>3 DEF TxInv, TypeOK
  <2> HIDE DEF x, k0
  <2>2. /\ wtx'.bucket = wtx.bucket
        /\ \A k \in Keys : wtx'.data[k] = IF k = k0 THEN x ELSE wtx.data[k]
    BY <2>1 DEF Snapshots
  <2> QED
    BY <2>2 DEF x
<1> QED
  BY <1>2, <1>4, <1>5

LEMMA CleanPutData ==
  ASSUME TxInv, TypeOK', Data, CleanPut
  PROVE  Data'
<1> DEFINE c == Head(objs)
           k0 == KeyIn(c, uid)
<1>u. /\ nver' = nver /\ uid' = uid /\ store' = store /\ putting' = putting
      /\ heap' = heap /\ sched' = sched /\ young' = young /\ db' = db /\ objs' = objs
      /\ rpc' = rpc /\ item' = item /\ spoilt' = spoilt /\ closed' = closed
      /\ UNCHANGED <<readerVars, bx>>
  BY DEF CleanPut, informerVars, readerVars, startVars
<1>1. cpc = "put" /\ cpc' = "zero" /\ objs # <<>>
  BY DEF CleanPut
<1>2. /\ c \in Cells /\ c = objs[1] /\ 1 \in 1..Len(objs) /\ k0 \in Keys
      /\ wtx'.bucket = wtx.bucket
      /\ \A k \in Keys : wtx'.data[k] = IF k = k0 THEN heap[c] ELSE wtx.data[k]
  BY CleanPutEffect
<1>3. KeyIn(Head(objs), uid) = k0 /\ Head(objs) = c /\ KeyOf(objs[1]) = k0
  BY <1>2, KeyInFacts
<1> HIDE DEF c, k0
<1>4. k0 \notin spoilt => UpToDate(c, k0, store, heap)
  BY <1>1, <1>2, <1>3 DEF Data, Held, HeldUpToDate, Cleaning, Persisted, InUpdate
<1>5. Versioned' /\ Memory'
  BY <1>u, <1>1 DEF Data, Versioned, Memory, StoredCells, CopiedCells
<1>6. Sched'
  BY <1>u DEF Data, Sched, SchedKeys, SchedVersions, SchedCopies, SchedYoung, InDb
<1>7. Held'
  BY <1>u, <1>1 DEF Data, Held, HeldKeys, HeldOnce, HeldVersions, HeldUpToDate, Cleaning
<1>8. Persisted'
  <2>1. \A k \in Keys \ spoilt : Zeroed(k, store, heap) =>
          wtx'.bucket /\ wtx'.data[k] = store[k]
    BY <1>1, <1>2, <1>4 DEF Data, Persisted, Current, InUpdate, UpToDate
  <2>2. wtx'.data[KeyIn(Head(objs), uid)] = heap[Head(objs)]
    BY <1>2, <1>3
  <2>3. wtx'.bucket /\ ~closed
    BY <1>1, <1>2 DEF Data, Persisted, InUpdate
  <2> QED
    BY <1>u, <1>1, <2>1, <2>2, <2>3 DEF Data, Persisted, Current, InUpdate
<1>9. Reads'
  <2>1. ASSUME NEW k \in Keys, InCleanup(k)'
        PROVE  InCleanup(k)
    <3>1. CASE k = k0
      BY <1>1, <1>2, <1>3, <3>1 DEF InCleanup
    <3>2. CASE k # k0
      BY <1>u, <1>1, <1>2, <2>1, <3>2 DEF InCleanup, KeyOf
    <3> QED
      BY <3>1, <3>2
  <2> QED
    BY <1>u, <2>1, CleanerReads DEF TxInv
<1> QED
  BY <1>5, <1>6, <1>7, <1>8, <1>9 DEF Data

(* While the first object is zeroed nothing changes for the others.        *)
LEMMA ZeroingEffect ==
  ASSUME TxInv, Data, InUpdate, objs # <<>>, NEW x, x # Missing,
         heap' = [heap EXCEPT ![Head(objs)] = x]
  PROVE  LET c == Head(objs) IN
         /\ c \in Cells /\ c = objs[1] /\ 1 \in 1..Len(objs)
         /\ KeyIn(c, uid) \in Keys /\ InCleanup(KeyIn(c, uid))
         /\ \A d \in Cells : heap'[d] = IF d = c THEN x ELSE heap[d]
         /\ \A n \in 1..Len(objs) :
              /\ objs[n] \in Cells
              /\ n # 1 /\ KeyIn(objs[n], uid) \notin spoilt =>
                   objs[n] # c /\ KeyIn(objs[n], uid) # KeyIn(c, uid)
         /\ \A k \in Keys \ spoilt : sched[k] # c
         /\ \A k \in Keys : c = Stored(store[k]) /\ store[k] # 0 =>
              KeyIn(c, uid) = k /\ store[k] \in Versions
         /\ \A v \in Versions : v = putting /\ uid[v] \notin spoilt => c # Stored(v)
<1> DEFINE c == Head(objs)
<1>1. c \in Cells /\ c = objs[1] /\ 1 \in 1..Len(objs) /\ Cleaning
  BY FirstHeld DEF TxInv, InUpdate, Cleaning
<1>2. KeyIn(c, uid) \in Keys
  BY <1>1 DEF Data, Held, HeldKeys
<1>3. InCleanup(KeyIn(c, uid))
  BY <1>1, KeyInFacts DEF InCleanup, InUpdate
<1>4. \A d \in Cells : heap'[d] = IF d = c THEN x ELSE heap[d]
  BY <1>1 DEF TxInv, TypeOK
<1>5. \A n \in 1..Len(objs) :
        /\ objs[n] \in Cells
        /\ n # 1 /\ KeyIn(objs[n], uid) \notin spoilt =>
             objs[n] # c /\ KeyIn(objs[n], uid) # KeyIn(c, uid)
  BY <1>1 DEF Data, Held, HeldKeys, TxInv, TypeOK
<1>6. ASSUME NEW k \in Keys \ spoilt, sched[k] = c
      PROVE  FALSE
  <2>1. KeyIn(c, uid) = k
    BY <1>1, <1>6, CellFacts DEF Data, Sched, SchedKeys
  <2> QED
    BY <1>1, <1>6, <2>1 DEF Data, Held, HeldOnce
<1>7. \A k \in Keys : c = Stored(store[k]) /\ store[k] # 0 =>
        KeyIn(c, uid) = k /\ store[k] \in Versions
  BY KeyInFacts DEF Data, Versioned
<1>8. \A v \in Versions : v = putting /\ uid[v] \notin spoilt => c # Stored(v)
  BY <1>1 DEF Data, Held, HeldVersions, Versioned
<1> QED
  BY <1>1, <1>2, <1>3, <1>4, <1>5, <1>6, <1>7, <1>8

LEMMA SetZeroValueData ==
  ASSUME TxInv, TypeOK', Data, SetZeroValue
  PROVE  Data'
<1> DEFINE c == Head(objs)
           k0 == KeyIn(c, uid)
<1>t. TypeOK
  BY DEF TxInv
<1>u. /\ nver' = nver /\ uid' = uid /\ store' = store /\ putting' = putting
      /\ sched' = sched /\ young' = young /\ db' = db /\ objs' = objs /\ wtx' = wtx
      /\ rpc' = rpc /\ item' = item /\ spoilt' = spoilt /\ closed' = closed
      /\ UNCHANGED <<readerVars, bx>>
  BY DEF SetZeroValue, informerVars, readerVars, startVars
<1>1. /\ cpc = "zero" /\ cpc' = "uid" /\ objs # <<>> /\ Cleaning /\ InUpdate
      /\ heap' = [heap EXCEPT ![c] = Blank]
  BY DEF SetZeroValue, TxInv, HasWork, Cleaning, InUpdate
<1>2. Blank # Missing /\ Blank # Empty
  BY DEF Blank, Missing, Empty
<1>e. /\ c \in Cells /\ c = objs[1] /\ 1 \in 1..Len(objs)
      /\ k0 \in Keys /\ InCleanup(k0)
      /\ \A d \in Cells : heap'[d] = IF d = c THEN Blank ELSE heap[d]
      /\ \A n \in 1..Len(objs) :
           /\ objs[n] \in Cells
           /\ n # 1 /\ KeyIn(objs[n], uid) \notin spoilt => objs[n] # c
      /\ \A k \in Keys \ spoilt : sched[k] # c
      /\ \A k \in Keys : c = Stored(store[k]) /\ store[k] # 0 =>
           k0 = k /\ store[k] \in Versions
      /\ \A v \in Versions : v = putting /\ uid[v] \notin spoilt => c # Stored(v)
  BY <1>1, <1>2, ZeroingEffect
<1>3. KeyIn(Head(objs), uid) = k0 /\ Head(objs) = c /\ KeyIn(c, uid) = k0
  OBVIOUS
<1> HIDE DEF c, k0
<1>4. \A k \in Keys : Zeroed(k, store, heap') => Zeroed(k, store, heap) /\ c # Stored(store[k])
  <2> SUFFICES ASSUME NEW k \in Keys, Zeroed(k, store, heap')
               PROVE  Zeroed(k, store, heap) /\ c # Stored(store[k])
    OBVIOUS
  <2>1. store[k] # 0 /\ heap'[Stored(store[k])] = Empty
    BY DEF Zeroed
  <2>2. Stored(store[k]) \in Cells
    BY <2>1, CellTypes DEF Data, Versioned
  <2> QED
    BY <1>2, <1>e, <2>1, <2>2 DEF Zeroed
<1>5. Versioned'
  BY <1>u DEF Data, Versioned
<1>6. Memory'
  <2>1. StoredCells'
    <3>1. \A v \in Versions : heap'[Stored(v)] = IF Stored(v) = c THEN Blank ELSE heap[Stored(v)]
      BY <1>e, CellTypes
    <3>2. \A v \in Versions : uid[v] \notin spoilt => heap[Stored(v)] # Blank
      BY <1>1 DEF Data, Memory, StoredCells
    <3> QED
      BY <1>u, <1>1, <1>3, <1>e, <3>1, <3>2 DEF Data, Memory, StoredCells
  <2>2. CopiedCells'
    <3>1. \A r \in Readers, k \in Keys :
            heap'[Copy(r, k)] = IF Copy(r, k) = c THEN Blank ELSE heap[Copy(r, k)]
      BY <1>e, CellTypes
    <3>2. \A r \in Readers, k \in Keys \ spoilt : heap[Copy(r, k)] # Blank
      BY <1>1 DEF Data, Memory, CopiedCells
    <3> QED
      BY <1>u, <1>1, <1>3, <3>1, <3>2 DEF Data, Memory, CopiedCells
  <2> QED
    BY <2>1, <2>2 DEF Memory
<1>7. Sched'
  <2>1. \A k \in Keys \ spoilt : sched[k] \in Cells => heap'[sched[k]] = heap[sched[k]]
    BY <1>e
  <2>2. SchedKeys'
    BY <1>u DEF Data, Sched, SchedKeys
  <2>3. SchedVersions'
    <3>1. \A k \in Keys \ spoilt, v \in Versions :
            sched[k] = Stored(v) => heap'[Stored(v)] = heap[Stored(v)]
      BY <2>1, CellTypes
    <3> QED
      BY <1>u, <3>1 DEF Data, Sched, SchedVersions
  <2>4. SchedCopies'
    <3>1. \A k \in Keys \ spoilt, r \in Readers :
            sched[k] = Copy(r, k) => heap'[Copy(r, k)] = heap[Copy(r, k)]
      BY <2>1, CellTypes
    <3> QED
      BY <1>u, <1>4, <3>1 DEF Data, Sched, SchedCopies, UpToDate, InDb
  <2>5. SchedYoung'
    BY <1>u DEF Data, Sched, SchedYoung
  <2> QED
    BY <2>2, <2>3, <2>4, <2>5 DEF Sched
<1>8. HeldKeys' /\ HeldOnce'
  BY <1>u, <1>1 DEF Data, Held, HeldKeys, HeldOnce
<1>9. HeldVersions'
  <2> SUFFICES ASSUME NEW n \in 1..Len(objs), NEW v \in Versions, objs[n] = Stored(v),
                      uid[v] \notin spoilt
               PROVE  /\ v <= nver /\ v # putting
                      /\ n = 1 \/ heap'[Stored(v)] = v
                      /\ store[uid[v]] = v \/ ~Zeroed(uid[v], store, heap')
    BY <1>u, <1>1 DEF HeldVersions
  <2>1. /\ v <= nver /\ v # putting /\ heap[Stored(v)] = v
        /\ store[uid[v]] = v \/ ~Zeroed(uid[v], store, heap)
    BY <1>1 DEF Data, Held, HeldVersions
  <2>2. uid[v] \in Keys
    BY <1>t, <2>1, IssuedVersions
  <2>3. n # 1 => heap'[Stored(v)] = heap[Stored(v)]
    BY <1>e, KeyInFacts
  <2> QED
    BY <1>4, <2>1, <2>2, <2>3
<1>10. HeldUpToDate'
  <2>1. \A n \in 1..Len(objs) : n # 1 /\ KeyIn(objs[n], uid) \notin spoilt =>
          heap'[objs[n]] = heap[objs[n]]
    BY <1>e
  <2> QED
    BY <1>u, <1>1, <1>4, <2>1 DEF Data, Held, HeldKeys, HeldUpToDate, UpToDate
<1>11. Persisted'
  <2>1. wtx.bucket /\ ~closed /\ Current = wtx /\ Current' = wtx'
    BY <1>1 DEF Data, Persisted, Current, InUpdate
  <2>2. \A k \in Keys \ spoilt : Zeroed(k, store, heap') => wtx.data[k] = store[k]
    BY <1>4, <2>1 DEF Data, Persisted
  <2>3. \A k \in Keys \ spoilt : store[k] # 0 /\ c = Stored(store[k]) => wtx.data[k] = store[k]
    <3> SUFFICES ASSUME NEW k \in Keys \ spoilt, store[k] # 0, c = Stored(store[k])
                 PROVE  wtx.data[k] = store[k]
      OBVIOUS
    <3>1. k0 = k /\ store[k] \in Versions /\ uid[store[k]] = k
      BY <1>e DEF Data, Versioned
    <3>2. heap[c] = store[k]
      <4>1. objs[1] = Stored(store[k]) /\ 1 \in 1..Len(objs) /\ uid[store[k]] \notin spoilt
        BY <1>e, <3>1
      <4> QED
        BY <1>1, <3>1, <4>1 DEF Data, Held, HeldVersions
    <3> QED
      BY <1>1, <1>3, <2>1, <3>1, <3>2 DEF Data, Persisted
  <2> QED
    BY <1>u, <1>1, <1>3, <2>1, <2>2, <2>3 DEF Data, Persisted
<1>12. Reads'
  <2>1. \A k \in Keys : InCleanup(k)' => InCleanup(k)
    BY <1>u, <1>1 DEF InCleanup, KeyOf
  <2>2. \A k \in Keys \ spoilt : ~InCleanup(k) => k # k0
    BY <1>e
  <2>3. \A r \in Readers, k \in Keys : k # k0 => heap'[Copy(r, k)] = heap[Copy(r, k)]
    BY <1>3, <1>e, CellTypes, KeyInFacts
  <2> QED
    BY <1>t, <1>u, <1>4, <2>1, <2>2, <2>3, CleanerReads DEF TxInv
<1> QED
  BY <1>5, <1>6, <1>7, <1>8, <1>9, <1>10, <1>11, <1>12 DEF Data, Held

LEMMA SetUIDData ==
  ASSUME TxInv, TypeOK', Data, SetUID
  PROVE  Data'
<1> DEFINE c == Head(objs)
           k0 == KeyIn(c, uid)
<1>t. TypeOK
  BY DEF TxInv
<1>u. /\ nver' = nver /\ uid' = uid /\ store' = store /\ putting' = putting
      /\ sched' = sched /\ young' = young /\ db' = db /\ wtx' = wtx
      /\ rpc' = rpc /\ item' = item /\ spoilt' = spoilt /\ closed' = closed
      /\ UNCHANGED <<readerVars, bx>>
  BY DEF SetUID, informerVars, readerVars, startVars
<1>1. /\ cpc = "uid" /\ cpc' = "put" /\ objs # <<>> /\ Cleaning /\ InUpdate
      /\ heap' = [heap EXCEPT ![c] = Empty]
      /\ objs' = Tail(objs)
  BY DEF SetUID, TxInv, HasWork, Cleaning, InUpdate
<1>2. Blank # Empty /\ Empty # Missing
  BY DEF Blank, Missing, Empty
<1>e. /\ c \in Cells /\ c = objs[1] /\ 1 \in 1..Len(objs)
      /\ k0 \in Keys /\ InCleanup(k0)
      /\ \A d \in Cells : heap'[d] = IF d = c THEN Empty ELSE heap[d]
      /\ \A n \in 1..Len(objs) :
           /\ objs[n] \in Cells
           /\ n # 1 /\ KeyIn(objs[n], uid) \notin spoilt =>
                objs[n] # c /\ KeyIn(objs[n], uid) # k0
      /\ \A k \in Keys \ spoilt : sched[k] # c
      /\ \A k \in Keys : c = Stored(store[k]) /\ store[k] # 0 =>
           k0 = k /\ store[k] \in Versions
      /\ \A v \in Versions : v = putting /\ uid[v] \notin spoilt => c # Stored(v)
  BY <1>1, <1>2, ZeroingEffect
<1>3. Head(objs) = c /\ KeyIn(c, uid) = k0
  OBVIOUS
<1>4. \A n \in 1..Len(objs') : n + 1 \in 1..Len(objs) /\ n + 1 # 1 /\ objs'[n] = objs[n + 1]
  BY <1>t, <1>1, HeadAndTail DEF TypeOK
<1> HIDE DEF c, k0
<1>5. \A k \in Keys : Zeroed(k, store, heap') =>
        \/ Zeroed(k, store, heap)
        \/ store[k] # 0 /\ c = Stored(store[k]) /\ k0 = k
  <2> SUFFICES ASSUME NEW k \in Keys, Zeroed(k, store, heap')
               PROVE  \/ Zeroed(k, store, heap)
                      \/ store[k] # 0 /\ c = Stored(store[k]) /\ k0 = k
    OBVIOUS
  <2>1. store[k] # 0 /\ heap'[Stored(store[k])] = Empty
    BY DEF Zeroed
  <2>2. Stored(store[k]) \in Cells
    BY <2>1, CellTypes DEF Data, Versioned
  <2> QED
    BY <1>e, <2>1, <2>2 DEF Zeroed
<1>6. Versioned'
  BY <1>u DEF Data, Versioned
<1>7. Memory'
  <2>1. StoredCells'
    <3>1. \A v \in Versions : heap'[Stored(v)] = IF Stored(v) = c THEN Empty ELSE heap[Stored(v)]
      BY <1>e, CellTypes
    <3> QED
      BY <1>u, <1>1, <1>2, <1>3, <1>e, <3>1 DEF Data, Memory, StoredCells
  <2>2. CopiedCells'
    <3>1. \A r \in Readers, k \in Keys :
            heap'[Copy(r, k)] = IF Copy(r, k) = c THEN Empty ELSE heap[Copy(r, k)]
      BY <1>e, CellTypes
    <3> QED
      BY <1>u, <1>1, <1>2, <1>3, <3>1 DEF Data, Memory, CopiedCells
  <2> QED
    BY <2>1, <2>2 DEF Memory
<1>8. Sched'
  <2>1. \A k \in Keys \ spoilt : sched[k] \in Cells => heap'[sched[k]] = heap[sched[k]]
    BY <1>e
  <2>2. SchedKeys'
    BY <1>u DEF Data, Sched, SchedKeys
  <2>3. SchedVersions'
    <3>1. \A k \in Keys \ spoilt, v \in Versions :
            sched[k] = Stored(v) => heap'[Stored(v)] = heap[Stored(v)]
      BY <2>1, CellTypes
    <3> QED
      BY <1>u, <3>1 DEF Data, Sched, SchedVersions
  <2>4. SchedCopies'
    <3> SUFFICES ASSUME NEW k \in Keys \ spoilt, NEW r \in Readers, sched[k] = Copy(r, k)
                 PROVE  \/ closed \/ UpToDate(Copy(r, k), k, store, heap') \/ InDb(r, k)
      BY <1>u DEF SchedCopies, InDb
    <3>1. closed \/ UpToDate(Copy(r, k), k, store, heap) \/ InDb(r, k)
      BY DEF Data, Sched, SchedCopies
    <3>2. heap'[Copy(r, k)] = heap[Copy(r, k)]
      BY <2>1, CellTypes
    <3>3. k0 # k
      BY <1>1, <1>3, <1>e DEF Data, Held, HeldOnce
    <3> QED
      BY <1>5, <3>1, <3>2, <3>3 DEF UpToDate
  <2>5. SchedYoung'
    BY <1>u DEF Data, Sched, SchedYoung
  <2> QED
    BY <2>2, <2>3, <2>4, <2>5 DEF Sched
<1>9. \A n \in 1..Len(objs') :
        /\ KeyIn(objs'[n], uid) \in Keys
        /\ KeyIn(objs'[n], uid) \notin spoilt =>
             KeyIn(objs'[n], uid) # k0 /\ heap'[objs'[n]] = heap[objs'[n]]
  BY <1>1, <1>e, <1>4 DEF Data, Held, HeldKeys
<1>10. HeldKeys'
  <2>1. \A n \in 1..Len(objs') : KeyIn(objs'[n], uid) \notin spoilt =>
          \A m \in 1..Len(objs') : KeyIn(objs'[m], uid) = KeyIn(objs'[n], uid) => m = n
    <3> SUFFICES ASSUME NEW n \in 1..Len(objs'), NEW m \in 1..Len(objs'),
                        KeyIn(objs'[n], uid) \notin spoilt,
                        KeyIn(objs'[m], uid) = KeyIn(objs'[n], uid)
                 PROVE  m = n
      OBVIOUS
    <3>1. m + 1 = n + 1
      BY <1>1, <1>4 DEF Data, Held, HeldKeys
    <3> QED
      BY <3>1
  <2> QED
    BY <1>u, <1>9, <2>1 DEF HeldKeys
<1>11. HeldOnce'
  BY <1>u, <1>1, <1>4 DEF Data, Held, HeldOnce
<1>12. HeldVersions'
  <2> SUFFICES ASSUME NEW n \in 1..Len(objs'), NEW v \in Versions, objs'[n] = Stored(v),
                      uid[v] \notin spoilt
               PROVE  /\ v <= nver /\ v # putting /\ heap'[Stored(v)] = v
                      /\ store[uid[v]] = v \/ ~Zeroed(uid[v], store, heap')
    BY <1>u DEF HeldVersions
  <2>1. /\ v <= nver /\ v # putting /\ heap[Stored(v)] = v
        /\ store[uid[v]] = v \/ ~Zeroed(uid[v], store, heap)
    BY <1>1, <1>4 DEF Data, Held, HeldVersions
  <2>2. uid[v] \in Keys /\ uid[v] # k0 /\ heap'[Stored(v)] = heap[Stored(v)]
    BY <1>9, KeyInFacts
  <2> QED
    BY <1>5, <2>1, <2>2
<1>13. HeldUpToDate'
  <2> SUFFICES ASSUME ~closed, NEW n \in 1..Len(objs'), KeyIn(objs'[n], uid) \notin spoilt
               PROVE  UpToDate(objs'[n], KeyIn(objs'[n], uid), store, heap')
    BY <1>u DEF HeldUpToDate
  <2>1. UpToDate(objs'[n], KeyIn(objs'[n], uid), store, heap)
    BY <1>1, <1>4 DEF Data, Held, HeldUpToDate
  <2> QED
    BY <1>5, <1>9, <2>1 DEF UpToDate
<1>14. Persisted'
  <2>1. wtx.bucket /\ ~closed /\ Current = wtx /\ Current' = wtx'
    BY <1>1 DEF Data, Persisted, Current, InUpdate
  <2>2. \A k \in Keys \ spoilt : Zeroed(k, store, heap') => wtx.data[k] = store[k]
    BY <1>1, <1>3, <1>5, <2>1 DEF Data, Persisted
  <2> QED
    BY <1>u, <1>1, <2>1, <2>2 DEF Data, Persisted
<1>15. Reads'
  <2>1. \A k \in Keys : InCleanup(k)' => InCleanup(k)
    BY <1>u, <1>1, <1>4 DEF InCleanup, KeyOf
  <2>2. \A k \in Keys \ spoilt : ~InCleanup(k) => k # k0
    BY <1>e
  <2>3. \A r \in Readers, k \in Keys : k # k0 => heap'[Copy(r, k)] = heap[Copy(r, k)]
    BY <1>3, <1>e, CellTypes, KeyInFacts
  <2> QED
    BY <1>t, <1>u, <1>5, <2>1, <2>2, <2>3, CleanerReads DEF TxInv
<1> QED
  BY <1>6, <1>7, <1>8, <1>10, <1>11, <1>12, <1>13, <1>14, <1>15 DEF Data, Held

LEMMA CleanCommitData ==
  ASSUME TxInv, TypeOK', Data, CleanCommit
  PROVE  Data'
<1>u. /\ nver' = nver /\ uid' = uid /\ store' = store /\ putting' = putting
      /\ heap' = heap /\ sched' = sched /\ young' = young
      /\ rpc' = rpc /\ item' = item /\ spoilt' = spoilt /\ closed' = closed
      /\ UNCHANGED <<readerVars, bx>>
  BY DEF CleanCommit, informerVars, readerVars, startVars
<1>1. cpc = "put" /\ cpc' = "idle" /\ db' = wtx /\ wtx.bucket
  BY DEF CleanCommit, Data, Persisted, InUpdate
<1>2. Versioned' /\ Memory'
  BY <1>u, <1>1 DEF Data, Versioned, Memory, StoredCells, CopiedCells
<1>3. Sched'
  BY <1>u DEF Data, Sched, SchedKeys, SchedVersions, SchedCopies, SchedYoung, InDb
<1>4. Held'
  BY <1>1 DEF Held, HeldKeys, HeldOnce, HeldVersions, HeldUpToDate, Cleaning
<1>5. Persisted'
  BY <1>u, <1>1 DEF Data, Persisted, Current, InUpdate
<1>6. Reads'
  <2>1. \A k \in Keys : ~InCleanup(k)'
    BY <1>1 DEF InCleanup
  <2>2. \A k \in Keys : ~InCleanup(k) => db'.data[k] = db.data[k]
    BY <1>1 DEF InCleanup
  <2> QED
    BY <1>u, <1>1, <2>1, <2>2, CleanerReads DEF TxInv
<1> QED
  BY <1>2, <1>3, <1>4, <1>5, <1>6 DEF Data

LEMMA CleanerData ==
  ASSUME TxInv, TypeOK', Data, Cleaner, cpc' # "stopped"
  PROVE  Data'
<1>1. ASSUME NEW ks \in SUBSET DOMAIN sched, Collect(ks)
      PROVE  Data'
  <2>1. ks \in SUBSET (Keys \cup {NoUID})
    BY DEF TxInv, TypeOK
  <2> QED
    BY <1>1, <2>1, CollectData
<1>2. ~CleanFails /\ ~CleanerDone
  BY DEF CleanFails, CleanerDone
<1> QED
  BY <1>1, <1>2, CleanBeginData, CleanPutData, SetZeroValueData, SetUIDData, CleanCommitData
     DEF Cleaner

-----------------------------------------------------------------------------
(* Readers. *)

(* A step that leaves memory, the database and the cleaner alone.          *)
LEMMA SameData ==
  ASSUME TypeOK, Data, UNCHANGED <<informerVars, heap, sched, db, cleanerVars>>,
         spoilt \subseteq spoilt',
         \A k \in Keys \cup {NoUID} : "store" \in young[k] => "store" \in young'[k],
         closed => closed',
         closed' => closed \/ ~InUpdate,
         \A r \in Readers, k \in Keys :
           Reading(r)' /\ floor'[r][k] # 0 => Reading(r) /\ floor[r][k] # 0,
         \A r \in Readers, k \in Keys \ spoilt : InDb(r, k) => InDb(r, k)' \/ closed'
  PROVE  Versioned' /\ Memory' /\ Sched' /\ Held' /\ Persisted' /\ Quiet'
<1>u. /\ nver' = nver /\ uid' = uid /\ store' = store /\ putting' = putting
      /\ heap' = heap /\ sched' = sched /\ db' = db
      /\ cpc' = cpc /\ objs' = objs /\ wtx' = wtx
  BY DEF informerVars, cleanerVars
<1>1. Versioned' /\ Memory'
  BY <1>u DEF Data, Versioned, Memory, StoredCells, CopiedCells
<1>2. SchedKeys' /\ SchedVersions'
  BY <1>u DEF Data, Sched, SchedKeys, SchedVersions
<1>3. SchedCopies'
  BY <1>u DEF Data, Sched, SchedCopies
<1>4. SchedYoung'
  <2>1. putting # 0 => uid[putting] \in Keys
    BY VersionTypes DEF Data, Versioned
  <2> QED
    BY <1>u, <2>1 DEF Data, Sched, SchedYoung
<1>5. Held'
  BY <1>u DEF Data, Held, HeldKeys, HeldOnce, HeldVersions, HeldUpToDate, Cleaning
<1>6. Persisted'
  BY <1>u DEF Data, Persisted, Current, InUpdate
<1>7. Quiet'
  <2>1. \A k \in Keys : InCleanup(k)' <=> InCleanup(k)
    BY <1>u DEF InCleanup, KeyOf
  <2> QED
    BY <2>1 DEF Data, Reads, Quiet
<1> QED
  BY <1>1, <1>2, <1>3, <1>4, <1>5, <1>6, <1>7 DEF Sched

(* An item that has to be rehydrated is in the database as it was when the *)
(* reader began.                                                           *)
LEMMA ItemIsThere ==
  ASSUME TxInv, Data, NEW r \in Readers, rpc[r] \in {"bucket", "value"}
  PROVE  LET k == item[r] IN
         /\ Reading(r) /\ k \in want[r] /\ k \in Keys /\ floor[r][k] # 0
         /\ k \notin spoilt =>
              /\ floor[r][k] \in Versions
              /\ heap[Copy(r, k)] = Empty /\ getKey(Copy(r, k)) = k
              /\ Zeroed(k, store, heap) => floor[r][k] = store[k]
              /\ Finds(db, bx[req[r]].tx, k, floor[r][k])
<1> DEFINE k == item[r]
<1>1. Reading(r) /\ k \in want[r] /\ k \in Keys
  BY DEF TxInv, HasWork, TypeOK, Reading
<1>2. floor[r][k] # 0
  BY <1>1 DEF Data, Reads, InHand
<1> HIDE DEF k
<1>3. ASSUME k \notin spoilt
      PROVE  /\ floor[r][k] \in Versions
             /\ heap[Copy(r, k)] = Empty /\ getKey(Copy(r, k)) = k
             /\ Zeroed(k, store, heap) => floor[r][k] = store[k]
             /\ Finds(db, bx[req[r]].tx, k, floor[r][k])
  <2>1. heap[Copy(r, k)] = Empty
    BY <1>1, <1>3 DEF Data, Reads, InHand, k
  <2>2. /\ floor[r][k] \in Versions
        /\ Zeroed(k, store, heap) => floor[r][k] = store[k]
        /\ \/ heap[Copy(r, k)] = floor[r][k]
           \/ Finds(db, bx[req[r]].tx, k, floor[r][k])
    BY <1>1, <1>2, <1>3 DEF Data, Reads, InHand
  <2>3. getKey(Copy(r, k)) = k
    BY <1>1, <1>2, <1>3, ReadIsNotBlank
  <2> QED
    BY <2>1, <2>2, <2>3, ContentTypes
<1> QED
  BY <1>1, <1>2, <1>3 DEF k

LEMMA ReadEffect ==
  ASSUME TxInv, Data, NEW r \in Readers, NEW ks \in SUBSET Keys, Read(r, ks)
  PROVE  /\ \A p \in Readers : rpc'[p] = IF p = r THEN "tx" ELSE rpc[p]
         /\ \A p \in Readers : want'[p] = IF p = r THEN ks ELSE want[p]
         /\ \A p \in Readers : failed'[p] = IF p = r THEN FALSE ELSE failed[p]
         /\ \A p \in Readers \ {r} : floor'[p] = floor[p]
         /\ \A k \in Keys : floor'[r][k] = IF k \in ks THEN store[k] ELSE 0
         /\ \A k \in ks : store[k] \in Versions /\ uid[store[k]] = k
         /\ spoilt \subseteq spoilt'
         /\ \A k \in ks \ spoilt' : ~InCleanup(k) /\ ~IsStale(req[r], k)
         /\ \A v \in Versions : heap'[Stored(v)] = heap[Stored(v)]
         /\ \A p \in Readers, k \in Keys :
              ~(p = r /\ k \in ks) => heap'[Copy(p, k)] = heap[Copy(p, k)]
         /\ \A k \in ks \ spoilt' :
              /\ heap'[Copy(r, k)] = heap[Stored(store[k])]
              /\ heap[Stored(store[k])] \in {store[k], Empty}
<1>t. TypeOK
  BY DEF TxInv
<1>1. /\ \A p \in Readers : rpc'[p] = IF p = r THEN "tx" ELSE rpc[p]
      /\ \A p \in Readers : want'[p] = IF p = r THEN ks ELSE want[p]
      /\ \A p \in Readers : failed'[p] = IF p = r THEN FALSE ELSE failed[p]
      /\ \A p \in Readers \ {r} : floor'[p] = floor[p]
      /\ \A k \in Keys : floor'[r][k] = IF k \in ks THEN store[k] ELSE 0
  BY <1>t DEF Read, TypeOK
<1>2. \A k \in ks : store[k] \in Versions /\ uid[store[k]] = k
  BY DEF Read, Data, Versioned
<1>3. /\ spoilt \subseteq spoilt'
      /\ \A k \in ks \ spoilt' : ~InCleanup(k) /\ ~IsStale(req[r], k)
  BY DEF Read
<1>4. PICK torn \in {Blank, Torn} :
        heap' = [c \in Cells |->
                   IF c[1] = r /\ c[2] \in ks
                   THEN IF cpc = "uid" /\ Stored(store[c[2]]) = Head(objs) THEN torn
                        ELSE heap[Stored(store[c[2]])]
                   ELSE heap[c]]
  BY DEF Read
<1>5. "store" # r
  BY BBoltCacheAssumption
<1>6. /\ \A v \in Versions : heap'[Stored(v)] = heap[Stored(v)]
      /\ \A p \in Readers, k \in Keys :
           ~(p = r /\ k \in ks) => heap'[Copy(p, k)] = heap[Copy(p, k)]
  BY <1>4, <1>5, CellFacts, CellTypes
<1>7. \A k \in ks : heap'[Copy(r, k)] =
        IF cpc = "uid" /\ Stored(store[k]) = Head(objs) THEN torn ELSE heap[Stored(store[k])]
  BY <1>4, CellFacts, CellTypes
<1>8. ASSUME NEW k \in ks \ spoilt'
      PROVE  ~(cpc = "uid" /\ Head(objs) = Stored(store[k]))
  <2> SUFFICES ASSUME cpc = "uid", Head(objs) = Stored(store[k]) PROVE FALSE
    OBVIOUS
  <2>1. objs[1] = Stored(store[k]) /\ 1 \in 1..Len(objs)
    BY FirstHeld DEF TxInv, HasWork
  <2>2. KeyOf(objs[1]) = k
    BY <1>2, <2>1, KeyInFacts
  <2>3. InCleanup(k)
    BY <2>1, <2>2 DEF InCleanup
  <2> QED
    BY <1>3, <2>3
<1>9. ASSUME NEW k \in ks \ spoilt'
      PROVE  heap[Stored(store[k])] \in {store[k], Empty}
  <2>1. store[k] \in Versions /\ uid[store[k]] = k /\ k \notin spoilt
    BY <1>2, <1>3
  <2> QED
    BY <1>8, <2>1 DEF Data, Memory, StoredCells
<1> QED
  BY <1>1, <1>2, <1>3, <1>6, <1>7, <1>8, <1>9

(* A reader copies what is stored of an object, in memory or, if it is in  *)
(* memory no more, in the database and the request's snapshot of it.       *)
LEMMA ReadData ==
  ASSUME TxInv, TypeOK', Data, NEW r \in Readers, NEW ks \in SUBSET Keys, Read(r, ks)
  PROVE  Data'
<1>t. TypeOK
  BY DEF TxInv
<1>u. /\ nver' = nver /\ uid' = uid /\ store' = store /\ putting' = putting
      /\ sched' = sched /\ young' = young /\ db' = db
      /\ cpc' = cpc /\ objs' = objs /\ wtx' = wtx /\ item' = item /\ req' = req
      /\ bx' = bx /\ closed' = closed
  BY DEF Read, informerVars, cleanerVars, startVars
<1>1. /\ \A k \in ks : store[k] # 0
      /\ \A k \in Keys : Copy(r, k) # sched[k]
      /\ \A n \in 1..Len(objs) : objs[n][1] # r
  BY DEF Read
<1>2. /\ \A p \in Readers : rpc'[p] = IF p = r THEN "tx" ELSE rpc[p]
      /\ \A p \in Readers : want'[p] = IF p = r THEN ks ELSE want[p]
      /\ \A p \in Readers : failed'[p] = IF p = r THEN FALSE ELSE failed[p]
      /\ \A p \in Readers \ {r} : floor'[p] = floor[p]
      /\ \A k \in Keys : floor'[r][k] = IF k \in ks THEN store[k] ELSE 0
      /\ \A k \in ks : store[k] \in Versions /\ uid[store[k]] = k
      /\ spoilt \subseteq spoilt'
      /\ \A k \in ks \ spoilt' : ~InCleanup(k) /\ ~IsStale(req[r], k)
      /\ \A v \in Versions : heap'[Stored(v)] = heap[Stored(v)]
      /\ \A p \in Readers, k \in Keys :
           ~(p = r /\ k \in ks) => heap'[Copy(p, k)] = heap[Copy(p, k)]
      /\ \A k \in ks \ spoilt' :
           /\ heap'[Copy(r, k)] = heap[Stored(store[k])]
           /\ heap[Stored(store[k])] \in {store[k], Empty}
  BY ReadEffect
<1>4. \A k \in Keys : Zeroed(k, store, heap') <=> Zeroed(k, store, heap)
  BY <1>2 DEF Zeroed, Data, Versioned
<1>5. \A n \in 1..Len(objs) : heap'[objs[n]] = heap[objs[n]]
  <2> SUFFICES ASSUME NEW n \in 1..Len(objs) PROVE heap'[objs[n]] = heap[objs[n]]
    OBVIOUS
  <2>1. objs[n] \in Cells
    BY <1>t DEF TypeOK
  <2> QED
    BY <1>1, <1>2, <2>1, CellFacts, CellTypes
<1>6. \A p \in Readers : InDb(p, item[p]) => p # r
  BY DEF Read, InDb
<1>7. Versioned'
  BY <1>u DEF Data, Versioned
<1>8. Memory'
  <2>1. StoredCells'
    BY <1>u, <1>2 DEF Data, Memory, StoredCells
  <2>2. CopiedCells'
    <3> SUFFICES ASSUME NEW p \in Readers, NEW k \in Keys \ spoilt'
                 PROVE  /\ heap'[Copy(p, k)] \in Versions \cup {Empty, Blank}
                        /\ heap'[Copy(p, k)] = Blank => cpc = "uid" /\ Head(objs) = Copy(p, k)
      BY <1>u DEF CopiedCells
    <3>1. CASE p = r /\ k \in ks
      BY <1>2, <3>1, ContentTypes
    <3>2. CASE ~(p = r /\ k \in ks)
      BY <1>2, <3>2 DEF Data, Memory, CopiedCells
    <3> QED
      BY <3>1, <3>2
  <2> QED
    BY <2>1, <2>2 DEF Memory
<1>9. Sched'
  <2>1. SchedKeys'
    BY <1>u, <1>2 DEF Data, Sched, SchedKeys
  <2>2. SchedVersions'
    BY <1>u, <1>2 DEF Data, Sched, SchedVersions
  <2>3. SchedCopies'
    <3> SUFFICES ASSUME NEW k \in Keys \ spoilt', NEW p \in Readers, sched[k] = Copy(p, k)
                 PROVE  closed \/ UpToDate(Copy(p, k), k, store, heap') \/ InDb(p, k)'
      BY <1>u DEF SchedCopies
    <3>1. closed \/ UpToDate(Copy(p, k), k, store, heap) \/ InDb(p, k)
      BY <1>2 DEF Data, Sched, SchedCopies
    <3>2. p # r
      BY <1>1
    <3> QED
      BY <1>u, <1>2, <1>4, <3>1, <3>2 DEF UpToDate, InDb
  <2>4. SchedYoung'
    BY <1>u DEF Data, Sched, SchedYoung
  <2> QED
    BY <2>1, <2>2, <2>3, <2>4 DEF Sched
<1>10. HeldKeys' /\ HeldOnce'
  BY <1>u, <1>2 DEF Data, Held, HeldKeys, HeldOnce, Cleaning
<1>11. HeldVersions'
  <2> SUFFICES ASSUME Cleaning, NEW n \in 1..Len(objs), NEW v \in Versions,
                      objs[n] = Stored(v), uid[v] \notin spoilt
               PROVE  /\ v <= nver /\ v # putting
                      /\ (cpc = "uid" /\ n = 1) \/ heap'[Stored(v)] = v
                      /\ store[uid[v]] = v \/ ~Zeroed(uid[v], store, heap')
    BY <1>u, <1>2 DEF HeldVersions, Cleaning
  <2>1. /\ v <= nver /\ v # putting
        /\ (cpc = "uid" /\ n = 1) \/ heap[Stored(v)] = v
        /\ store[uid[v]] = v \/ ~Zeroed(uid[v], store, heap)
    BY DEF Data, Held, HeldVersions
  <2>2. uid[v] \in Keys
    BY <1>t, <2>1, IssuedVersions
  <2> QED
    BY <1>2, <1>4, <2>1, <2>2
<1>12. HeldUpToDate'
  BY <1>u, <1>2, <1>4, <1>5 DEF Data, Held, HeldKeys, HeldUpToDate, UpToDate, Cleaning
<1>13. Persisted'
  <2>1. cpc = "zero" => heap'[Head(objs)] = heap[Head(objs)]
    BY <1>t, <1>5, FirstHeld DEF TxInv, HasWork
  <2> QED
    BY <1>u, <1>2, <1>4, <2>1 DEF Data, Persisted, Current, InUpdate
<1>14. Quiet'
  <2> SUFFICES ASSUME NEW p \in Readers, NEW k \in Keys, Reading(p)', floor'[p][k] # 0,
                      InCleanup(k)'
               PROVE  k \in spoilt'
    BY DEF Quiet
  <2>1. InCleanup(k)
    BY <1>u DEF InCleanup, KeyOf
  <2>2. CASE p = r
    BY <1>2, <2>1, <2>2
  <2>3. CASE p # r
    BY <1>2, <2>1, <2>3 DEF Data, Reads, Quiet, Reading
  <2> QED
    BY <2>2, <2>3
<1>15. Succeeds'
  <2> SUFFICES ASSUME NEW p \in Readers, Reading(p)'
               PROVE  IF rpc'[p] = "done"
                      THEN IF failed'[p] THEN closed \/ \E k \in spoilt' : floor'[p][k] # 0
                           ELSE want'[p] = {}
                      ELSE ~failed'[p]
    BY <1>u DEF Succeeds
  <2>1. CASE p = r
    BY <1>2, <2>1
  <2>2. CASE p # r
    <3>1. Reading(p) /\ rpc'[p] = rpc[p] /\ want'[p] = want[p] /\ failed'[p] = failed[p]
      BY <1>2, <2>2 DEF Reading
    <3>2. floor'[p] = floor[p] /\ spoilt \subseteq spoilt'
      BY <1>2, <2>2
    <3> QED
      BY <3>1, <3>2 DEF Data, Reads, Succeeds
  <2> QED
    BY <2>1, <2>2
<1>16. ASSUME NEW k \in ks \ spoilt'
       PROVE  /\ store[k] \in Versions
              /\ \/ heap'[Copy(r, k)] = store[k]
                 \/ heap'[Copy(r, k)] = Empty /\ Finds(db, bx[req[r]].tx, k, store[k])
  <2>1. /\ store[k] \in Versions /\ store[k] # 0 /\ k \in Keys \ spoilt
        /\ ~InCleanup(k) /\ ~IsStale(req[r], k)
    BY <1>1, <1>2
  <2>2. ASSUME heap[Stored(store[k])] = Empty
        PROVE  Finds(db, bx[req[r]].tx, k, store[k])
    <3>1. Current.data[k] = store[k]
      BY <2>1, <2>2 DEF Data, Persisted, Zeroed
    <3>2. db.data[k] = store[k]
      BY <2>1, <3>1 DEF Current, InUpdate, InCleanup
    <3>3. db.bucket
      BY <2>1, <3>2, ContentTypes DEF Data, Persisted
    <3> QED
      BY <2>1, <3>2, <3>3 DEF Finds, IsStale
  <2> QED
    BY <1>2, <2>1, <2>2
<1>17. InHand'
  <2> SUFFICES ASSUME NEW p \in Readers, Reading(p)'
               PROVE  /\ \A k \in want'[p] : floor'[p][k] # 0
                      /\ rpc'[p] \in {"bucket", "value"} /\ item[p] \notin spoilt' =>
                           heap'[Copy(p, item[p])] = Empty
                      /\ \A k \in Keys \ spoilt' : floor'[p][k] # 0 =>
                           /\ floor'[p][k] \in Versions
                           /\ Zeroed(k, store, heap') => floor'[p][k] = store[k]
                           /\ \/ heap'[Copy(p, k)] = floor'[p][k]
                              \/ /\ heap'[Copy(p, k)] = Empty
                                 /\ k \in want'[p]
                                 /\ Finds(db, bx[req[p]].tx, k, floor'[p][k])
    BY <1>u DEF InHand
  <2>1. CASE p = r
    <3>1. rpc'[r] = "tx" /\ want'[r] = ks
      BY <1>2
    <3>2. \A k \in ks : floor'[r][k] # 0
      BY <1>1, <1>2
    <3>3. \A k \in Keys \ spoilt' : floor'[r][k] # 0 =>
            k \in ks \ spoilt' /\ floor'[r][k] = store[k]
      BY <1>2
    <3> QED
      BY <1>16, <2>1, <3>1, <3>2, <3>3
  <2>2. CASE p # r
    <3>1. Reading(p)
      BY <1>2, <2>2 DEF Reading
    <3>2. rpc'[p] = rpc[p] /\ want'[p] = want[p] /\ floor'[p] = floor[p]
      BY <1>2, <2>2
    <3>3. \A k \in Keys : heap'[Copy(p, k)] = heap[Copy(p, k)]
      BY <1>2, <2>2
    <3>4. rpc[p] \in {"bucket", "value"} => item[p] \in Keys
      BY ItemIsThere
    <3> QED
      BY <1>2, <1>4, <3>1, <3>2, <3>3, <3>4 DEF Data, Reads, InHand
  <2> QED
    BY <2>1, <2>2
<1> QED
  BY <1>7, <1>8, <1>9, <1>10, <1>11, <1>12, <1>13, <1>14, <1>15, <1>17 DEF Data, Held, Reads

(* A reader goes from one place to another, and the transaction of its     *)
(* request stays, or has no bucket, or is a new one.                       *)
LEMMA ReaderMoves ==
  ASSUME TxInv, Data, NEW r \in Readers,
         UNCHANGED <<informerVars, heap, sched, db, cleanerVars, req, want, item, floor, spoilt,
                     closed>>,
         \A k \in Keys \cup {NoUID} : "store" \in young[k] => "store" \in young'[k],
         Reading(r), rpc'[r] # "idle",
         \A p \in Readers \ {r} : rpc'[p] = rpc[p] /\ failed'[p] = failed[p],
         rpc'[r] \in {"bucket", "value"} => rpc[r] \in {"bucket", "value"},
         rpc[r] \in {"bucket", "value"} =>
           rpc'[r] \in {"bucket", "value"} \/ closed \/ item[r] \in spoilt,
         rpc'[r] = "done" =>
           IF failed'[r] THEN closed \/ \E k \in spoilt : floor[r][k] # 0 ELSE want[r] = {},
         rpc'[r] \notin {"done", "returned"} => ~failed'[r],
         \A q \in Requests :
           bx'[q].tx.snap = bx[q].tx.snap \/ ~bx'[q].tx.snap.bucket \/ bx'[q].tx.snap = db
  PROVE  Data'
<1>u. /\ store' = store /\ heap' = heap /\ db' = db /\ req' = req /\ want' = want
      /\ item' = item /\ floor' = floor /\ spoilt' = spoilt /\ closed' = closed
  BY DEF informerVars
<1>1. \A p \in Readers : Reading(p)' => Reading(p)
  BY DEF Reading
<1>2. \A p \in Readers, k \in Keys \ spoilt : InDb(p, k) => InDb(p, k)' \/ closed'
  BY <1>u DEF InDb
<1>3. Versioned' /\ Memory' /\ Sched' /\ Held' /\ Persisted' /\ Quiet'
  BY <1>u, <1>1, <1>2, SameData DEF TxInv
<1>4. Succeeds'
  <2> SUFFICES ASSUME NEW p \in Readers, Reading(p)'
               PROVE  IF rpc'[p] = "done"
                      THEN IF failed'[p] THEN closed \/ \E k \in spoilt : floor[p][k] # 0
                           ELSE want[p] = {}
                      ELSE ~failed'[p]
    BY <1>u DEF Succeeds
  <2>1. CASE p = r
    BY <2>1 DEF Reading
  <2>2. CASE p # r
    <3>1. Reading(p) /\ rpc'[p] = rpc[p] /\ failed'[p] = failed[p]
      BY <1>1, <2>2
    <3> QED
      BY <3>1 DEF Data, Reads, Succeeds
  <2> QED
    BY <2>1, <2>2
<1>5. InHand'
  <2>1. \A p \in Readers, k \in Keys : \A v :
          Finds(db, bx[req[p]].tx, k, v) => Finds(db, bx'[req[p]].tx, k, v)
    BY DEF Finds, TxInv, TypeOK
  <2>2. \A p \in Readers : rpc'[p] \in {"bucket", "value"} => rpc[p] \in {"bucket", "value"}
    OBVIOUS
  <2> QED
    BY <1>u, <1>1, <2>1, <2>2 DEF Data, Reads, InHand
<1> QED
  BY <1>3, <1>4, <1>5 DEF Data, Reads

LEMMA RehydrateEffect ==
  ASSUME TxInv, Data, NEW r \in Readers, NEW k0 \in Keys, rehydrateObject(r, k0)
  PROVE  LET c == Copy(r, k0) IN
         /\ c \in Cells /\ Reading(r) /\ rpc[r] = "items" /\ k0 \in want[r] /\ floor[r][k0] # 0
         /\ getKey(c) \in {k0, NoUID} /\ (k0 \notin spoilt => getKey(c) = k0)
         /\ \A k \in Keys \cup {NoUID} : sched'[k] = IF k = getKey(c) THEN c ELSE sched[k]
         /\ \A k \in Keys \cup {NoUID} :
              "store" \in young'[k] \/ (k = getKey(c) /\ putting = 0)
                \/ (k # getKey(c) /\ young'[k] = young[k])
         /\ \A p \in Readers \ {r} :
              rpc'[p] = rpc[p] /\ want'[p] = want[p] /\ item'[p] = item[p]
         /\ \/ heap[c] \in {Empty, Blank} /\ rpc'[r] = "bucket" /\ item'[r] = k0
                 /\ want'[r] = want[r]
            \/ heap[c] \notin {Empty, Blank} /\ rpc'[r] = "items" /\ want'[r] = want[r] \ {k0}
<1> DEFINE c == Copy(r, k0)
           u == getKey(c)
<1>t. TypeOK
  BY DEF TxInv
<1>1. c \in Cells /\ Reading(r) /\ rpc[r] = "items" /\ k0 \in want[r]
  BY CellTypes DEF rehydrateObject, Reading
<1>2. floor[r][k0] # 0
  BY <1>1 DEF Data, Reads, InHand
<1>3. u \in {k0, NoUID} /\ (k0 \notin spoilt => u = k0)
  BY <1>1, <1>2, ReadIsNotBlank, KeyInFacts DEF getKey
<1>4. /\ Schedule(u, c, {p \in Readers : Reading(p)} \cup IF putting = 0 THEN {} ELSE {"store"})
      /\ \/ /\ heap[c] \in {Empty, Blank}
            /\ rpc' = [rpc EXCEPT ![r] = "bucket"]
            /\ item' = [item EXCEPT ![r] = k0]
            /\ UNCHANGED want
         \/ /\ heap[c] \notin {Empty, Blank}
            /\ want' = [want EXCEPT ![r] = @ \ {k0}]
            /\ UNCHANGED <<rpc, item>>
  BY DEF rehydrateObject
<1> HIDE DEF c, u
<1>5. /\ \A k \in Keys \cup {NoUID} : sched'[k] = IF k = u THEN c ELSE sched[k]
      /\ \A k \in Keys \cup {NoUID} :
           "store" \in young'[k] \/ (k = u /\ putting = 0) \/ (k # u /\ young'[k] = young[k])
  BY <1>3, <1>4, <1>t DEF Schedule, TypeOK
<1>6. /\ \A p \in Readers \ {r} :
           rpc'[p] = rpc[p] /\ want'[p] = want[p] /\ item'[p] = item[p]
      /\ \/ heap[c] \in {Empty, Blank} /\ rpc'[r] = "bucket" /\ item'[r] = k0
              /\ want'[r] = want[r]
         \/ heap[c] \notin {Empty, Blank} /\ rpc'[r] = "items" /\ want'[r] = want[r] \ {k0}
  BY <1>1, <1>4, <1>t DEF TypeOK
<1> QED
  BY <1>1, <1>2, <1>3, <1>5, <1>6 DEF c, u

(* The copy a reader schedules is up to date or will be when it is filled. *)
LEMMA RehydrateData ==
  ASSUME TxInv, Data, NEW r \in Readers, NEW k0 \in Keys, rehydrateObject(r, k0)
  PROVE  Data'
<1> DEFINE c == Copy(r, k0)
           u == getKey(c)
<1>t. TypeOK
  BY DEF TxInv
<1>u. /\ nver' = nver /\ uid' = uid /\ store' = store /\ putting' = putting
      /\ heap' = heap /\ db' = db /\ cpc' = cpc /\ objs' = objs /\ wtx' = wtx
      /\ floor' = floor /\ failed' = failed /\ bx' = bx /\ req' = req
      /\ spoilt' = spoilt /\ closed' = closed
  BY DEF rehydrateObject, informerVars, cleanerVars, startVars
<1>e. /\ c \in Cells /\ Reading(r) /\ rpc[r] = "items" /\ k0 \in want[r] /\ floor[r][k0] # 0
      /\ u \in {k0, NoUID} /\ (k0 \notin spoilt => u = k0)
      /\ \A k \in Keys \cup {NoUID} : sched'[k] = IF k = u THEN c ELSE sched[k]
      /\ \A k \in Keys \cup {NoUID} :
           "store" \in young'[k] \/ (k = u /\ putting = 0) \/ (k # u /\ young'[k] = young[k])
      /\ \A p \in Readers \ {r} :
           rpc'[p] = rpc[p] /\ want'[p] = want[p] /\ item'[p] = item[p]
      /\ \/ heap[c] \in {Empty, Blank} /\ rpc'[r] = "bucket" /\ item'[r] = k0
              /\ want'[r] = want[r]
         \/ heap[c] \notin {Empty, Blank} /\ rpc'[r] = "items" /\ want'[r] = want[r] \ {k0}
  BY RehydrateEffect
<1>1. KeyIn(c, uid) = k0 /\ NoUID \notin Keys /\ NoUID \notin spoilt
  BY <1>t, KeyInFacts, NoUIDFacts
<1>2. \A p \in Readers, k \in Keys : c = Copy(p, k) => p = r /\ k = k0
  BY CellFacts
<1>3. \A v : c # Stored(v)
  BY CellFacts
<1>c. c = Copy(r, k0)
  OBVIOUS
<1>4. k0 \notin spoilt =>
        /\ floor[r][k0] \in Versions
        /\ Zeroed(k0, store, heap) => floor[r][k0] = store[k0]
        /\ heap[c] = floor[r][k0] \/ heap[c] = Empty
  BY <1>e DEF Data, Reads, InHand
<1> HIDE DEF c, u
<1>5. Versioned' /\ Memory'
  BY <1>u DEF Data, Versioned, Memory, StoredCells, CopiedCells
<1>6. SchedKeys'
  BY <1>u, <1>e, <1>1 DEF Data, Sched, SchedKeys
<1>7. SchedVersions'
  BY <1>u, <1>e, <1>3 DEF Data, Sched, SchedVersions
<1>8. SchedCopies'
  <2> SUFFICES ASSUME NEW k \in Keys \ spoilt, NEW p \in Readers, sched'[k] = Copy(p, k)
               PROVE  closed \/ UpToDate(Copy(p, k), k, store, heap) \/ InDb(p, k)'
    BY <1>u DEF SchedCopies
  <2>1. CASE k = u
    <3>1. p = r /\ k = k0
      BY <1>e, <1>2, <2>1
    <3>2. CASE heap[c] = Empty
      BY <1>e, <3>1, <3>2 DEF InDb
    <3>3. CASE heap[c] = floor[r][k0]
      BY <1>4, <1>c, <3>1, <3>3 DEF UpToDate
    <3> QED
      BY <1>4, <3>1, <3>2, <3>3
  <2>2. CASE k # u
    <3>1. closed \/ UpToDate(Copy(p, k), k, store, heap) \/ InDb(p, k)
      BY <1>e, <2>2 DEF Data, Sched, SchedCopies
    <3>2. InDb(p, k) => p # r
      BY <1>e DEF InDb
    <3> QED
      BY <1>e, <3>1, <3>2 DEF InDb
  <2> QED
    BY <2>1, <2>2
<1>9. SchedYoung'
  <2>1. putting # 0 => uid[putting] \in Keys
    BY <1>t, VersionTypes DEF Data, Versioned
  <2> QED
    BY <1>u, <1>e, <2>1 DEF Data, Sched, SchedYoung
<1>10. Held'
  <2>1. HeldKeys' /\ HeldVersions' /\ HeldUpToDate'
    BY <1>u DEF Data, Held, HeldKeys, HeldVersions, HeldUpToDate, Cleaning
  <2>2. HeldOnce'
    <3> SUFFICES ASSUME Cleaning, NEW n \in 1..Len(objs), KeyIn(objs[n], uid) \notin spoilt
                 PROVE  /\ sched'[KeyIn(objs[n], uid)] # objs[n]
                        /\ \A p \in Readers :
                             sched'[KeyIn(objs[n], uid)] # Copy(p, KeyIn(objs[n], uid))
      BY <1>u DEF HeldOnce, Cleaning
    <3>1. KeyIn(objs[n], uid) \in Keys
      BY DEF Data, Held, HeldKeys
    <3>2. k0 \notin spoilt => KeyIn(objs[n], uid) # k0
      BY <1>t, <1>e, ReadIsNotHeld
    <3>3. KeyIn(objs[n], uid) # u
      BY <1>e, <1>1, <3>1, <3>2
    <3> QED
      BY <1>e, <3>1, <3>3 DEF Data, Held, HeldOnce
  <2> QED
    BY <2>1, <2>2 DEF Held
<1>11. Persisted'
  BY <1>u DEF Data, Persisted, Current, InUpdate
<1>12. \A p \in Readers : Reading(p)' <=> Reading(p)
  BY <1>e DEF Reading
<1>13. Quiet'
  <2>1. \A k \in Keys : InCleanup(k)' <=> InCleanup(k)
    BY <1>u DEF InCleanup, KeyOf
  <2> QED
    BY <1>u, <1>12, <2>1 DEF Data, Reads, Quiet
<1>14. Succeeds'
  BY <1>u, <1>e, <1>12 DEF Data, Reads, Succeeds
<1>15. InHand'
  <2> SUFFICES ASSUME NEW p \in Readers, Reading(p)
               PROVE  /\ \A k \in want'[p] : floor[p][k] # 0
                      /\ rpc'[p] \in {"bucket", "value"} /\ item'[p] \notin spoilt =>
                           heap[Copy(p, item'[p])] = Empty
                      /\ \A k \in Keys \ spoilt : floor[p][k] # 0 =>
                           /\ floor[p][k] \in Versions
                           /\ Zeroed(k, store, heap) => floor[p][k] = store[k]
                           /\ \/ heap[Copy(p, k)] = floor[p][k]
                              \/ /\ heap[Copy(p, k)] = Empty
                                 /\ k \in want'[p]
                                 /\ Finds(db, bx[req[p]].tx, k, floor[p][k])
    BY <1>u, <1>12 DEF InHand
  <2>1. CASE p # r
    BY <1>e, <2>1 DEF Data, Reads, InHand
  <2>2. CASE p = r
    <3>1. \A k \in want'[r] : floor[r][k] # 0
      BY <1>e DEF Data, Reads, InHand
    <3>2. rpc'[r] \in {"bucket", "value"} /\ item'[r] \notin spoilt =>
            heap[Copy(r, item'[r])] = Empty
      BY <1>e, <1>c, <1>4, ContentTypes
    <3>3. ASSUME NEW k \in Keys \ spoilt, floor[r][k] # 0
          PROVE  /\ floor[r][k] \in Versions
                 /\ Zeroed(k, store, heap) => floor[r][k] = store[k]
                 /\ \/ heap[Copy(r, k)] = floor[r][k]
                    \/ /\ heap[Copy(r, k)] = Empty
                       /\ k \in want'[r]
                       /\ Finds(db, bx[req[r]].tx, k, floor[r][k])
      <4>1. /\ floor[r][k] \in Versions
            /\ Zeroed(k, store, heap) => floor[r][k] = store[k]
            /\ \/ heap[Copy(r, k)] = floor[r][k]
               \/ /\ heap[Copy(r, k)] = Empty
                  /\ k \in want[r]
                  /\ Finds(db, bx[req[r]].tx, k, floor[r][k])
        BY <1>e, <3>3 DEF Data, Reads, InHand
      <4>2. heap[Copy(r, k)] = Empty /\ k \in want[r] => k \in want'[r]
        BY <1>e, <1>c
      <4> QED
        BY <4>1, <4>2
    <3> QED
      BY <2>2, <3>1, <3>2, <3>3
  <2> QED
    BY <2>1, <2>2
<1> QED
  BY <1>5, <1>6, <1>7, <1>8, <1>9, <1>10, <1>11, <1>13, <1>14, <1>15 DEF Data, Sched, Reads

(* What a reader takes from the database is what it had read, or the       *)
(* object is spoilt.                                                       *)
LEMMA ReaderFills ==
  ASSUME TxInv, Data, NEW r \in Readers, rpc[r] = "value",
         UNCHANGED <<informerVars, sched, young, db, cleanerVars, req, item, floor, bx, closed>>,
         NEW k0, k0 = item[r], NEW x,
         \A d \in Cells : heap'[d] = IF d = Copy(r, k0) THEN x ELSE heap[d],
         spoilt \subseteq spoilt', k0 \notin spoilt' => x = floor[r][k0],
         \A p \in Readers \ {r} :
           rpc'[p] = rpc[p] /\ want'[p] = want[p] /\ failed'[p] = failed[p],
         want'[r] \subseteq want[r], want[r] \ {k0} \subseteq want'[r],
         \/ rpc'[r] = "items" /\ ~failed'[r]
         \/ rpc'[r] = "done" /\ failed'[r] /\ k0 \in spoilt'
  PROVE  Data'
<1> DEFINE c == Copy(r, k0)
<1>t. TypeOK
  BY DEF TxInv
<1>u. /\ nver' = nver /\ uid' = uid /\ store' = store /\ putting' = putting
      /\ sched' = sched /\ young' = young /\ db' = db /\ cpc' = cpc /\ objs' = objs
      /\ wtx' = wtx /\ floor' = floor /\ bx' = bx /\ req' = req /\ item' = item
      /\ closed' = closed
  BY DEF informerVars, cleanerVars
<1>1. /\ Reading(r) /\ k0 \in want[r] /\ k0 \in Keys /\ floor[r][k0] # 0
      /\ k0 \notin spoilt =>
           /\ floor[r][k0] \in Versions
           /\ Zeroed(k0, store, heap) => floor[r][k0] = store[k0]
  BY ItemIsThere
<1>c. c = Copy(r, k0)
  OBVIOUS
<1> HIDE DEF c
<1>2. /\ \A v \in Versions : heap'[Stored(v)] = heap[Stored(v)]
      /\ \A p \in Readers, k \in Keys :
           heap'[Copy(p, k)] = IF p = r /\ k = k0 THEN x ELSE heap[Copy(p, k)]
  BY <1>c, CellFacts, CellTypes
<1>3. \A k \in Keys : Zeroed(k, store, heap') <=> Zeroed(k, store, heap)
  BY <1>2 DEF Zeroed, Data, Versioned
<1>4. Cleaning => \A n \in 1..Len(objs) :
        KeyIn(objs[n], uid) \notin spoilt' => heap'[objs[n]] = heap[objs[n]]
  <2> SUFFICES ASSUME Cleaning, NEW n \in 1..Len(objs), KeyIn(objs[n], uid) \notin spoilt'
               PROVE  heap'[objs[n]] = heap[objs[n]]
    OBVIOUS
  <2>1. objs[n] \in Cells
    BY <1>t DEF TypeOK
  <2>2. k0 \notin spoilt => KeyIn(objs[n], uid) # k0
    BY <1>t, <1>1, ReadIsNotHeld
  <2>3. objs[n] # c
    BY <1>c, <2>2, KeyInFacts
  <2> QED
    BY <1>c, <2>1, <2>3
<1>5. Versioned'
  BY <1>u DEF Data, Versioned
<1>6. Memory'
  <2>1. StoredCells'
    BY <1>u, <1>2 DEF Data, Memory, StoredCells
  <2>2. CopiedCells'
    <3> SUFFICES ASSUME NEW p \in Readers, NEW k \in Keys \ spoilt'
                 PROVE  /\ heap'[Copy(p, k)] \in Versions \cup {Empty, Blank}
                        /\ heap'[Copy(p, k)] = Blank => cpc = "uid" /\ Head(objs) = Copy(p, k)
      BY <1>u DEF CopiedCells
    <3>1. CASE p = r /\ k = k0
      BY <1>1, <1>2, <3>1, ContentTypes
    <3>2. CASE ~(p = r /\ k = k0)
      BY <1>2, <3>2 DEF Data, Memory, CopiedCells
    <3> QED
      BY <3>1, <3>2
  <2> QED
    BY <2>1, <2>2 DEF Memory
<1>7. Sched'
  <2>1. SchedKeys'
    BY <1>u DEF Data, Sched, SchedKeys
  <2>2. SchedVersions'
    BY <1>u, <1>2 DEF Data, Sched, SchedVersions
  <2>3. SchedCopies'
    <3> SUFFICES ASSUME NEW k \in Keys \ spoilt', NEW p \in Readers, sched[k] = Copy(p, k)
                 PROVE  closed \/ UpToDate(Copy(p, k), k, store, heap') \/ InDb(p, k)'
      BY <1>u DEF SchedCopies
    <3>1. CASE p = r /\ k = k0
      BY <1>1, <1>2, <1>3, <3>1 DEF UpToDate
    <3>2. CASE ~(p = r /\ k = k0)
      <4>1. closed \/ UpToDate(Copy(p, k), k, store, heap) \/ InDb(p, k)
        BY DEF Data, Sched, SchedCopies
      <4>2. InDb(p, k) => InDb(p, k)'
        BY <1>u, <3>2 DEF InDb
      <4> QED
        BY <1>2, <1>3, <3>2, <4>1, <4>2 DEF UpToDate
    <3> QED
      BY <3>1, <3>2
  <2>4. SchedYoung'
    BY <1>u DEF Data, Sched, SchedYoung
  <2> QED
    BY <2>1, <2>2, <2>3, <2>4 DEF Sched
<1>8. HeldKeys' /\ HeldOnce'
  BY <1>u DEF Data, Held, HeldKeys, HeldOnce, Cleaning
<1>9. HeldVersions'
  <2> SUFFICES ASSUME Cleaning, NEW n \in 1..Len(objs), NEW v \in Versions,
                      objs[n] = Stored(v), uid[v] \notin spoilt'
               PROVE  /\ v <= nver /\ v # putting
                      /\ (cpc = "uid" /\ n = 1) \/ heap'[Stored(v)] = v
                      /\ store[uid[v]] = v \/ ~Zeroed(uid[v], store, heap')
    BY <1>u DEF HeldVersions, Cleaning
  <2>1. /\ v <= nver /\ v # putting
        /\ (cpc = "uid" /\ n = 1) \/ heap[Stored(v)] = v
        /\ store[uid[v]] = v \/ ~Zeroed(uid[v], store, heap)
    BY DEF Data, Held, HeldVersions
  <2>2. uid[v] \in Keys
    BY <1>t, <2>1, IssuedVersions
  <2> QED
    BY <1>2, <1>3, <2>1, <2>2
<1>10. HeldUpToDate'
  <2> SUFFICES ASSUME Cleaning, ~closed, NEW n \in 1..Len(objs),
                      KeyIn(objs[n], uid) \notin spoilt'
               PROVE  \/ cpc = "uid" /\ n = 1
                      \/ UpToDate(objs[n], KeyIn(objs[n], uid), store, heap')
    BY <1>u DEF HeldUpToDate, Cleaning
  <2>1. KeyIn(objs[n], uid) \in Keys
    BY DEF Data, Held, HeldKeys
  <2>2. \/ cpc = "uid" /\ n = 1
        \/ UpToDate(objs[n], KeyIn(objs[n], uid), store, heap)
    BY DEF Data, Held, HeldUpToDate
  <2> QED
    BY <1>3, <1>4, <2>1, <2>2 DEF UpToDate
<1>11. Persisted'
  <2>1. cpc = "zero" /\ KeyIn(Head(objs), uid) \notin spoilt' =>
          heap'[Head(objs)] = heap[Head(objs)]
    BY <1>t, <1>4, FirstHeld DEF TxInv, HasWork, Cleaning
  <2> QED
    BY <1>u, <1>3, <2>1 DEF Data, Persisted, Current, InUpdate
<1>12. \A p \in Readers : Reading(p)' <=> Reading(p)
  BY <1>1 DEF Reading
<1>13. Quiet'
  <2>1. \A k \in Keys : InCleanup(k)' <=> InCleanup(k)
    BY <1>u DEF InCleanup, KeyOf
  <2> QED
    BY <1>u, <1>12, <2>1 DEF Data, Reads, Quiet
<1>14. Succeeds'
  <2> SUFFICES ASSUME NEW p \in Readers, Reading(p)
               PROVE  IF rpc'[p] = "done"
                      THEN IF failed'[p] THEN closed \/ \E k \in spoilt' : floor[p][k] # 0
                           ELSE want'[p] = {}
                      ELSE ~failed'[p]
    BY <1>u, <1>12 DEF Succeeds
  <2>1. CASE p = r
    BY <1>1, <2>1
  <2>2. CASE p # r
    BY <2>2 DEF Data, Reads, Succeeds
  <2> QED
    BY <2>1, <2>2
<1>15. InHand'
  <2> SUFFICES ASSUME NEW p \in Readers, Reading(p)
               PROVE  /\ \A k \in want'[p] : floor[p][k] # 0
                      /\ rpc'[p] \in {"bucket", "value"} /\ item[p] \notin spoilt' =>
                           heap'[Copy(p, item[p])] = Empty
                      /\ \A k \in Keys \ spoilt' : floor[p][k] # 0 =>
                           /\ floor[p][k] \in Versions
                           /\ Zeroed(k, store, heap') => floor[p][k] = store[k]
                           /\ \/ heap'[Copy(p, k)] = floor[p][k]
                              \/ /\ heap'[Copy(p, k)] = Empty
                                 /\ k \in want'[p]
                                 /\ Finds(db, bx[req[p]].tx, k, floor[p][k])
    BY <1>u, <1>12 DEF InHand
  <2>1. /\ \A k \in want[p] : floor[p][k] # 0
        /\ rpc[p] \in {"bucket", "value"} /\ item[p] \notin spoilt =>
             heap[Copy(p, item[p])] = Empty
        /\ \A k \in Keys \ spoilt' : floor[p][k] # 0 =>
             /\ floor[p][k] \in Versions
             /\ Zeroed(k, store, heap') => floor[p][k] = store[k]
             /\ \/ heap[Copy(p, k)] = floor[p][k]
                \/ /\ heap[Copy(p, k)] = Empty
                   /\ k \in want[p]
                   /\ Finds(db, bx[req[p]].tx, k, floor[p][k])
    BY <1>3 DEF Data, Reads, InHand
  <2>2. CASE p = r
    BY <1>2, <2>1, <2>2
  <2>3. CASE p # r
    <3>1. \A k \in Keys : heap'[Copy(p, k)] = heap[Copy(p, k)]
      BY <1>2, <2>3
    <3>2. rpc[p] \in {"bucket", "value"} => item[p] \in Keys
      BY ItemIsThere
    <3> QED
      BY <2>1, <2>3, <3>1, <3>2
  <2> QED
    BY <2>2, <2>3
<1> QED
  BY <1>5, <1>6, <1>7, <1>8, <1>9, <1>10, <1>11, <1>13, <1>14, <1>15 DEF Data, Held, Reads

LEMMA ValueData ==
  ASSUME TxInv, Data, NEW r \in Readers, Value(r)
  PROVE  Data'
<1> DEFINE k0 == item[r]
           c == Copy(r, k0)
           x == Got(r)
<1>t. TypeOK
  BY DEF TxInv
<1>1. /\ rpc[r] = "value" /\ heap' = [heap EXCEPT ![c] = x]
      /\ want' = [want EXCEPT ![r] = @ \ {k0}]
      /\ rpc' = [rpc EXCEPT ![r] = "items"]
      /\ UNCHANGED <<informerVars, sched, young, db, cleanerVars, req, item, floor, failed, bx,
                     spoilt, closed>>
  BY DEF Value, startVars
<1>2. /\ Reading(r) /\ k0 \in Keys /\ c \in Cells
      /\ k0 \notin spoilt =>
           getKey(c) = k0 /\ Finds(db, bx[req[r]].tx, k0, floor[r][k0])
  BY <1>1, ItemIsThere, CellTypes
<1>3. bx[req[r]].tx.snap.bucket
  BY <1>1 DEF TxInv, TxMatchesReaders, BucketIsOpen
<1>4. k0 \notin spoilt => x = floor[r][k0]
  BY <1>t, <1>2, <1>3, NoUIDFacts DEF Got, Finds
<1>5. ~failed[r]
  BY <1>1, <1>2 DEF Data, Reads, Succeeds
<1> HIDE DEF x
<1>6. \A d \in Cells : heap'[d] = IF d = c THEN x ELSE heap[d]
  BY <1>t, <1>1, <1>2 DEF TypeOK
<1> HIDE DEF k0
<1>7. /\ \A p \in Readers \ {r} :
           rpc'[p] = rpc[p] /\ want'[p] = want[p] /\ failed'[p] = failed[p]
      /\ want'[r] = want[r] \ {k0} /\ rpc'[r] = "items" /\ ~failed'[r] /\ spoilt' = spoilt
  BY <1>t, <1>1, <1>5 DEF TypeOK
<1>8. k0 = item[r]
  BY DEF k0
<1> QED
  BY <1>1, <1>4, <1>6, <1>7, <1>8, ReaderFills

LEMMA UnmarshalFailsData ==
  ASSUME TxInv, Data, NEW r \in Readers, UnmarshalFails(r)
  PROVE  Data'
<1> DEFINE k0 == item[r]
           c == Copy(r, k0)
<1>t. TypeOK
  BY DEF TxInv
<1>1. /\ rpc[r] = "value" /\ heap' \in {heap, [heap EXCEPT ![c] = Torn]}
      /\ rpc' = [rpc EXCEPT ![r] = "done"] /\ failed' = [failed EXCEPT ![r] = TRUE]
      /\ spoilt' = spoilt \cup {k0}
      /\ UNCHANGED <<informerVars, sched, young, db, cleanerVars, req, want, item, floor, bx,
                     closed>>
  BY DEF UnmarshalFails, startVars
<1>2. c \in Cells
  BY <1>1, ItemIsThere, CellTypes
<1> HIDE DEF c, k0
<1>3. PICK x : \A d \in Cells : heap'[d] = IF d = c THEN x ELSE heap[d]
  <2>1. CASE heap' = heap
    <3>1. \A d \in Cells : heap'[d] = IF d = c THEN heap[c] ELSE heap[d]
      BY <2>1
    <3> QED
      BY <3>1
  <2>2. CASE heap' = [heap EXCEPT ![c] = Torn]
    <3>1. \A d \in Cells : heap'[d] = IF d = c THEN Torn ELSE heap[d]
      BY <1>t, <1>2, <2>2 DEF TypeOK
    <3> QED
      BY <3>1
  <2> QED
    BY <1>1, <2>1, <2>2
<1>4. /\ \A p \in Readers \ {r} :
           rpc'[p] = rpc[p] /\ want'[p] = want[p] /\ failed'[p] = failed[p]
      /\ want'[r] = want[r] /\ rpc'[r] = "done" /\ failed'[r] /\ k0 \in spoilt'
      /\ spoilt \subseteq spoilt'
  BY <1>t, <1>1 DEF TypeOK
<1>5. k0 = item[r] /\ c = Copy(r, k0)
  BY DEF k0, c
<1>6. \A d \in Cells : heap'[d] = IF d = Copy(r, k0) THEN x ELSE heap[d]
  BY <1>3, <1>5
<1>7. want'[r] \subseteq want[r] /\ want[r] \ {k0} \subseteq want'[r]
  BY <1>4
<1>8. /\ rpc[r] = "value"
      /\ UNCHANGED <<informerVars, sched, young, db, cleanerVars, req, item, floor, bx, closed>>
  BY <1>1
<1>9. \/ rpc'[r] = "items" /\ ~failed'[r]
      \/ rpc'[r] = "done" /\ failed'[r] /\ k0 \in spoilt'
  BY <1>4
<1>10. k0 = item[r] /\ spoilt \subseteq spoilt' /\ (k0 \notin spoilt' => x = floor[r][k0])
  BY <1>4, <1>5
<1>11. \A p \in Readers \ {r} :
         rpc'[p] = rpc[p] /\ want'[p] = want[p] /\ failed'[p] = failed[p]
  BY <1>4
<1> QED
  BY <1>6, <1>7, <1>8, <1>9, <1>10, <1>11, ReaderFills

(* Why a reader that gives up may, and the other moves of a reader. *)
LEMMA MovesData ==
  ASSUME TxInv, Data, NEW r \in Readers,
         txOnce(r) \/ SharedBucket(r) \/ NewBucket(r) \/ NoDB(r) \/ NoKey(r) \/ AllItems(r)
  PROVE  Data'
<1>t. TypeOK
  BY DEF TxInv
<1>u. /\ UNCHANGED <<informerVars, heap, sched, db, cleanerVars, req, want, item, floor, spoilt,
                     closed>>
      /\ young' = young
  BY DEF txOnce, SharedBucket, NewBucket, NoDB, NoKey, AllItems, startVars
<1>1. /\ rpc[r] \in {"tx", "items", "bucket", "value"} /\ Reading(r)
      /\ \E to \in {"items", "value", "done"} : rpc' = [rpc EXCEPT ![r] = to]
      /\ failed' = failed \/ \E f \in BOOLEAN : failed' = [failed EXCEPT ![r] = f]
  BY DEF txOnce, SharedBucket, NewBucket, NoDB, NoKey, AllItems, Reading, TxInv, TypeOK,
         Snapshots
<1>2. \A p \in Readers \ {r} : rpc'[p] = rpc[p] /\ failed'[p] = failed[p]
  BY <1>t, <1>1 DEF TypeOK
<1>3. rpc'[r] \in {"items", "value", "done"}
  BY <1>t, <1>1 DEF TypeOK
<1>4. ~failed[r]
  BY <1>1 DEF Data, Reads, Succeeds
<1>5. CASE txOnce(r)
  <2>1. /\ rpc[r] = "tx" /\ rpc'[r] = "items" /\ failed'[r] = failed[r]
        /\ \A q \in Requests : bx'[q].tx.snap = bx[q].tx.snap
    BY <1>5, <1>t DEF txOnce, TypeOK
  <2> QED
    BY <1>u, <1>1, <1>2, <1>4, <2>1, ReaderMoves
<1>6. CASE SharedBucket(r)
  <2>1. rpc[r] = "bucket" /\ rpc'[r] = "value" /\ failed'[r] = failed[r] /\ bx' = bx
    BY <1>6, <1>t DEF SharedBucket, TypeOK
  <2> QED
    BY <1>u, <1>1, <1>2, <1>4, <2>1, ReaderMoves
<1>7. CASE NewBucket(r)
  <2>1. /\ rpc[r] = "bucket" /\ rpc'[r] = (IF db.bucket THEN "value" ELSE "done")
        /\ failed'[r] = ~db.bucket
    BY <1>7, <1>t DEF NewBucket, TypeOK
  <2>2. \A q \in Requests : bx'[q].tx.snap = bx[q].tx.snap \/ bx'[q].tx.snap = db
    <3>1. bx' = [bx EXCEPT ![req[r]].tx = [open |-> TRUE, snap |-> db]]
      BY <1>7 DEF NewBucket
    <3> QED
      BY <1>t, <3>1 DEF TypeOK
  <2>3. ~db.bucket => item[r] \in spoilt /\ item[r] \in Keys /\ floor[r][item[r]] # 0
    BY <2>1, ItemIsThere DEF Finds
  <2>4. db.bucket \in BOOLEAN
    BY <1>t DEF TypeOK, Snapshots
  <2> QED
    BY <1>u, <1>1, <1>2, <2>1, <2>2, <2>3, <2>4, ReaderMoves
<1>8. CASE NoDB(r)
  <2>1. rpc[r] = "bucket" /\ closed /\ rpc'[r] = "done" /\ failed'[r] /\ bx' = bx
    BY <1>8, <1>t DEF NoDB, TypeOK
  <2> QED
    BY <1>u, <1>1, <1>2, <2>1, ReaderMoves
<1>9. CASE NoKey(r)
  <2>1. rpc[r] = "value" /\ Got(r) = Missing /\ rpc'[r] = "done" /\ failed'[r] /\ bx' = bx
    BY <1>9, <1>t DEF NoKey, TypeOK
  <2>2. bx[req[r]].tx.snap.bucket
    BY <2>1 DEF TxInv, TxMatchesReaders, BucketIsOpen
  <2>3. item[r] \in spoilt /\ floor[r][item[r]] # 0
    <3>1. /\ item[r] \in Keys /\ floor[r][item[r]] # 0
          /\ item[r] \notin spoilt =>
               /\ floor[r][item[r]] \in Versions /\ getKey(Copy(r, item[r])) = item[r]
               /\ Finds(db, bx[req[r]].tx, item[r], floor[r][item[r]])
      BY <2>1, ItemIsThere
    <3>2. Got(r) = IF getKey(Copy(r, item[r])) = NoUID THEN Missing
                   ELSE bx[req[r]].tx.snap.data[item[r]]
      BY DEF Got
    <3> QED
      BY <1>t, <2>1, <2>2, <3>1, <3>2, NoUIDFacts, ContentTypes DEF Finds
  <2> QED
    BY <1>u, <1>1, <1>2, <2>1, <2>3, ReaderMoves
<1>10. CASE AllItems(r)
  <2>1. /\ rpc[r] = "items" /\ want[r] = {} /\ rpc'[r] = "done" /\ failed'[r] = failed[r]
        /\ bx' = bx
    BY <1>10, <1>t DEF AllItems, TypeOK
  <2> QED
    BY <1>u, <1>1, <1>2, <1>4, <2>1, ReaderMoves
<1> QED
  BY <1>5, <1>6, <1>7, <1>8, <1>9, <1>10

LEMMA DoneData ==
  ASSUME TxInv, Data, NEW r \in Readers, done(r)
  PROVE  Data'
<1> DEFINE q0 == req[r]
           b == [used |-> bx[q0].used - 1,
                 tx |-> IF bx[q0].used > 1 THEN bx[q0].tx ELSE NoTx]
<1>t. TypeOK
  BY DEF TxInv
<1>1. /\ rpc[r] = "done" /\ bx' = [bx EXCEPT ![q0] = b]
      /\ rpc' = [rpc EXCEPT ![r] = "returned"]
      /\ young' = [k \in DOMAIN young |-> young[k] \ {r}]
      /\ UNCHANGED <<informerVars, heap, sched, db, cleanerVars, req, want, item, floor, failed,
                     spoilt, closed>>
  BY DEF done, startVars
<1>2. b.tx.snap = bx[q0].tx.snap \/ ~b.tx.snap.bucket
  BY DEF NoTx, NoBucket
<1> HIDE DEF b, q0
<1>3. \A q \in Requests : bx'[q].tx.snap = bx[q].tx.snap \/ ~bx'[q].tx.snap.bucket
  <2>1. \A q \in Requests : bx'[q] = IF q = q0 THEN b ELSE bx[q]
    BY <1>t, <1>1 DEF TypeOK
  <2> QED
    BY <1>2, <2>1
<1>4. rpc'[r] = "returned" /\ \A p \in Readers \ {r} : rpc'[p] = rpc[p] /\ failed'[p] = failed[p]
  BY <1>t, <1>1 DEF TypeOK
<1>5. \A k \in Keys \cup {NoUID} : "store" \in young[k] => "store" \in young'[k]
  <2>1. "store" # r
    BY BBoltCacheAssumption
  <2> QED
    BY <1>t, <1>1, <2>1 DEF TypeOK
<1> QED
  BY <1>1, <1>3, <1>4, <1>5, ReaderMoves DEF Reading

LEMMA ReaderData ==
  ASSUME TxInv, Data, NEW r \in Readers, Reader(r)
  PROVE  Data'
  BY MovesData, RehydrateData, ValueData, UnmarshalFailsData, DoneData DEF Reader

LEMMA ReleaseData ==
  ASSUME TxInv, Data, NEW r \in Readers, Release(r)
  PROVE  Data'
<1>1. /\ rpc[r] = "returned"
      /\ \A p \in Readers : rpc'[p] = IF p = r THEN "idle" ELSE rpc[p]
      /\ \A p \in Readers \ {r} : floor'[p] = floor[p]
      /\ \A k \in Keys : floor'[r][k] = 0
      /\ UNCHANGED <<informerVars, heap, sched, young, db, cleanerVars, req, want, item, failed,
                     bx, spoilt, closed>>
  BY DEF Release, startVars, TxInv, TypeOK
<1>2. \A p \in Readers : Reading(p)' <=> Reading(p)
  BY <1>1 DEF Reading
<1>3. \A p \in Readers : Reading(p) => p # r /\ rpc'[p] = rpc[p] /\ floor'[p] = floor[p]
  BY <1>1 DEF Reading
<1>4. Versioned' /\ Memory' /\ Sched' /\ Held' /\ Persisted' /\ Quiet'
  <2>1. \A p \in Readers, k \in Keys \ spoilt : InDb(p, k) => InDb(p, k)'
    BY <1>1 DEF InDb
  <2> QED
    BY <1>1, <1>2, <1>3, <2>1, SameData DEF TxInv
<1>5. Succeeds'
  BY <1>1, <1>2, <1>3 DEF Data, Reads, Succeeds
<1>6. InHand'
  <2>1. store' = store
    BY <1>1 DEF informerVars
  <2> QED
    BY <1>1, <1>2, <1>3, <2>1 DEF Data, Reads, InHand
<1> QED
  BY <1>4, <1>5, <1>6 DEF Data, Reads

-----------------------------------------------------------------------------
(* Start, and the whole. *)

(* The context is done, or the database is closed, or nothing happens.     *)
LEMMA StartData ==
  ASSUME TxInv, Data, Cancel \/ Close \/ UNCHANGED vars
  PROVE  Data'
<1>1. /\ UNCHANGED <<informerVars, heap, sched, young, db, cleanerVars, readerVars, bx, spoilt>>
      /\ closed' = closed \/ (closed' /\ ~InUpdate)
  BY DEF Cancel, Close, vars, startVars, InUpdate
<1>2. /\ rpc' = rpc /\ req' = req /\ want' = want /\ item' = item /\ floor' = floor
      /\ failed' = failed /\ store' = store /\ heap' = heap /\ db' = db /\ bx' = bx
      /\ spoilt' = spoilt /\ young' = young
  BY <1>1 DEF readerVars, informerVars
<1>3. closed => closed'
  BY <1>1
<1>4. \A r \in Readers : Reading(r)' <=> Reading(r)
  BY <1>2 DEF Reading
<1>5. Versioned' /\ Memory' /\ Sched' /\ Held' /\ Persisted' /\ Quiet'
  <2>1. \A r \in Readers, k \in Keys \ spoilt : InDb(r, k) => InDb(r, k)'
    BY <1>2 DEF InDb
  <2> QED
    BY <1>1, <1>2, <1>3, <1>4, <2>1, SameData DEF TxInv
<1>6. Succeeds' /\ InHand'
  BY <1>2, <1>3, <1>4 DEF Data, Reads, Succeeds, InHand
<1> QED
  BY <1>5, <1>6 DEF Data, Reads

LEMMA NextStops == Stops /\ [Next]_vars => Stops'
<1> SUFFICES ASSUME Stops, [Next]_vars PROVE Stops'
  OBVIOUS
<1>1. CASE Cleaner
  <2>1. CASE CleanFails
    BY <2>1 DEF CleanFails, Stops
  <2>2. CASE CleanerDone
    BY <2>2 DEF CleanerDone, Stops, startVars
  <2>3. CASE \/ \E ks \in SUBSET DOMAIN sched : Collect(ks)
             \/ CleanBegin \/ CleanPut \/ SetZeroValue \/ SetUID \/ CleanCommit
    <3>1. cpc' # "stopped" /\ UNCHANGED startVars
      BY <2>3 DEF Collect, CleanBegin, CleanPut, SetZeroValue, SetUID, CleanCommit
    <3> QED
      BY <3>1 DEF Stops, startVars
  <2> QED
    BY <1>1, <2>1, <2>2, <2>3 DEF Cleaner
<1>2. CASE Cancel
  BY <1>2 DEF Stops, Cancel
<1>3. CASE Close
  BY <1>3 DEF Stops, Close, cleanerVars
<1>4. CASE (\E k \in Keys : putObject(k)) \/ Put \/ UNCHANGED vars
  <2>1. UNCHANGED <<cpc, startVars>>
    BY <1>4 DEF putObject, Put, vars, cleanerVars
  <2> QED
    BY <2>1 DEF Stops, startVars
<1>5. CASE \E r \in Readers : (\E ks \in SUBSET Keys : Read(r, ks)) \/ Reader(r) \/ Release(r)
  <2>1. UNCHANGED <<cpc, startVars>>
    BY <1>5 DEF Read, Reader, Release, txOnce, rehydrateObject, SharedBucket, NewBucket,
                NoDB, Value, NoKey, UnmarshalFails, AllItems, done, cleanerVars
  <2> QED
    BY <2>1 DEF Stops, startVars
<1> QED
  BY <1>1, <1>2, <1>3, <1>4, <1>5 DEF Next

(* cleanup does not come back from a failure. *)
LEMMA StaysStopped == cpc = "stopped" /\ [Next]_vars => cpc' = "stopped"
<1> SUFFICES ASSUME cpc = "stopped", [Next]_vars PROVE cpc' = "stopped"
  OBVIOUS
<1>1. ~Cleaner
  BY DEF Cleaner, Collect, CleanBegin, CleanPut, SetZeroValue, SetUID, CleanCommit, CleanFails,
         CleanerDone
<1>2. CASE \/ \E k \in Keys : putObject(k)
           \/ Put \/ Cancel \/ Close \/ UNCHANGED vars
  BY <1>2 DEF putObject, Put, Cancel, Close, vars, cleanerVars
<1>3. CASE \E r \in Readers : (\E ks \in SUBSET Keys : Read(r, ks)) \/ Reader(r) \/ Release(r)
  BY <1>3 DEF Read, Reader, Release, txOnce, rehydrateObject, SharedBucket, NewBucket,
              NoDB, Value, NoKey, UnmarshalFails, AllItems, done, cleanerVars
<1> QED
  BY <1>1, <1>2, <1>3 DEF Next

LEMMA NextData ==
  ASSUME DataInv, [Next]_vars
  PROVE  DataInv'
<1>1. TxInv /\ TxInv' /\ TypeOK' /\ HasWork
  BY NextTx DEF DataInv, TxInv
<1>2. Stops'
  BY NextStops DEF DataInv
<1>3. ASSUME cpc' # "stopped"
      PROVE  Data'
  <2>1. cpc # "stopped" /\ Data
    BY <1>3, StaysStopped DEF DataInv
  <2>2. CASE \E k \in Keys : putObject(k)
    BY <1>1, <2>1, <2>2, PutObjectData DEF TxInv
  <2>3. CASE Put
    BY <1>1, <2>1, <2>3, PutData DEF TxInv
  <2>4. CASE Cleaner
    BY <1>1, <1>3, <2>1, <2>4, CleanerData
  <2>5. CASE \E r \in Readers : (\E ks \in SUBSET Keys : Read(r, ks)) \/ Reader(r) \/ Release(r)
    BY <1>1, <2>1, <2>5, ReadData, ReaderData, ReleaseData
  <2>6. CASE Cancel \/ Close \/ UNCHANGED vars
    BY <1>1, <2>1, <2>6, StartData
  <2> QED
    BY <2>2, <2>3, <2>4, <2>5, <2>6 DEF Next
<1> QED
  BY <1>1, <1>2, <1>3 DEF DataInv

LEMMA DataInvariant == Spec => []DataInv
<1>1. Init => DataInv
  BY InitTx, InitData DEF DataInv
<1>2. DataInv /\ [Next]_vars => DataInv'
  BY NextData
<1> QED
  BY <1>1, <1>2, PTL DEF Spec

(* However informers, requests and cleanups interleave, and whatever fails *)
(* in them: until the cache is told to stop, a Get or List returns of each *)
(* object that is not spoilt what the informer had stored or something     *)
(* newer, be it in memory or in the database, and it fails only for one    *)
(* that is (rehydrateObject, getBucket, cleanup).                          *)
THEOREM ReadsAreRightAlways == Spec => []ReadsAreRight
<1>1. DataInv => ReadsAreRight
  <2> SUFFICES ASSUME DataInv PROVE ReadsAreRight
    OBVIOUS
  <2>1. ReadSucceeds
    <3> SUFFICES ASSUME NEW r \in Readers, rpc[r] = "done", failed[r], ~cancelled
                 PROVE  \E k \in spoilt : floor[r][k] # 0
      BY DEF ReadSucceeds
    <3>1. Data /\ Reading(r) /\ ~closed
      BY DEF DataInv, Stops, Reading
    <3> QED
      BY <3>1 DEF Data, Reads, Succeeds
  <2>2. ReadIsCurrent
    <3> SUFFICES ASSUME NEW r \in Readers, rpc[r] = "done", ~failed[r], ~cancelled,
                        NEW k \in Keys \ spoilt, floor[r][k] # 0
                 PROVE  heap[Copy(r, k)] >= floor[r][k]
      BY DEF ReadIsCurrent
    <3>1. Data /\ Reading(r)
      BY DEF DataInv, Stops, Reading
    <3>2. want[r] = {}
      BY <3>1 DEF Data, Reads, Succeeds
    <3>3. heap[Copy(r, k)] = floor[r][k] /\ floor[r][k] \in Versions
      BY <3>1, <3>2 DEF Data, Reads, InHand
    <3> QED
      BY <3>3, VersionTypes
  <2> QED
    BY <2>1, <2>2 DEF ReadsAreRight
<1> QED
  BY <1>1, DataInvariant, PTL

(* An object that cleanup has zeroed in memory and that is not spoilt is   *)
(* in the database as the informer stores it: a copy that a reader was     *)
(* given is written over it only if it is the same version (cleanup,       *)
(* putObject, rehydrateObject).                                            *)
THEOREM UnspoiltPersisted == Spec => []UnspoiltIsPersisted
<1>1. DataInv => UnspoiltIsPersisted
  BY DEF DataInv, Data, Persisted, Current, InUpdate, Zeroed, UnspoiltIsPersisted, IsPersisted
<1> QED
  BY <1>1, DataInvariant, PTL
=============================================================================
