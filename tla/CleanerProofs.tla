--------------------------- MODULE CleanerProofs ---------------------------
(***************************************************************************)
(* Proofs about Cleaner for every set of callers, keys and objects, every  *)
(* interval and every bound on the clock.                                  *)
(***************************************************************************)
EXTENDS Cleaner, WellFoundedInduction, TLAPS

-----------------------------------------------------------------------------
(* Facts about the operations on the slice.                                *)

(* A non-empty set of natural numbers has a least element. *)
LEMMA LeastNat ==
  ASSUME NEW T, T \subseteq Nat, T # {}
  PROVE  \E x \in T : \A y \in T : x <= y
<1>1. PICK x \in T : \A y \in T : ~(<<y, x>> \in OpToRel(<, Nat))
  BY WFMin, NatLessThanWellFounded
<1>2. \A y \in T : ~(y < x)
  BY <1>1 DEF OpToRel
<1> QED
  BY <1>2, SMT

(* sort.Search finds an index of the slice or the one past it. *)
LEMMA SearchIndexFact ==
  ASSUME NEW s \in Seq(ExpKey), NEW k \in Keys, NEW at \in Nat
  PROVE  /\ SearchIndex(s, k, at) \in 1..(Len(s) + 1)
         /\ \A j \in 1..(SearchIndex(s, k, at) - 1) :
              Before(s[j], [key |-> k, at |-> at])
         /\ SearchIndex(s, k, at) <= Len(s) =>
              ~Before(s[SearchIndex(s, k, at)], [key |-> k, at |-> at])
<1> DEFINE e == [key |-> k, at |-> at]
           T == {i \in 1..(Len(s) + 1) : i = Len(s) + 1 \/ ~Before(s[i], e)}
           P(i) == /\ \A j \in 1..(i - 1) : Before(s[j], e)
                   /\ i <= Len(s) => ~Before(s[i], e)
<1>0. Len(s) \in Nat
  OBVIOUS
<1>1. T \subseteq Nat /\ Len(s) + 1 \in T
  BY <1>0
<1>2. PICK i \in T : \A y \in T : i <= y
  BY <1>1, LeastNat
<1>3. i \in 1..(Len(s) + 1)
  OBVIOUS
<1>4. ASSUME NEW j \in 1..(i - 1) PROVE Before(s[j], e)
  <2>1. j \in 1..(Len(s) + 1) /\ j < i
    BY <1>0, <1>3
  <2>2. j \notin T
    BY <1>0, <1>2, <1>3, <2>1
  <2> QED
    BY <2>1, <2>2
<1>5. i <= Len(s) => ~Before(s[i], e)
  BY <1>0, <1>3
<1>6. P(i)
  BY <1>4, <1>5
<1>7. SearchIndex(s, k, at) = CHOOSE n \in 1..(Len(s) + 1) : P(n)
  BY DEF SearchIndex
<1> HIDE DEF P
<1>8. SearchIndex(s, k, at) \in 1..(Len(s) + 1) /\ P(SearchIndex(s, k, at))
  BY <1>3, <1>6, <1>7
<1> QED
  BY <1>8 DEF P

(* collect drops a prefix of the slice. *)
LEMMA ExpiredLenFact ==
  ASSUME NEW s \in Seq(ExpKey), NEW t \in Nat
  PROVE  /\ ExpiredLen(s, t) \in 0..Len(s)
         /\ \A i \in 1..ExpiredLen(s, t) : s[i].at <= t
         /\ ExpiredLen(s, t) < Len(s) => s[ExpiredLen(s, t) + 1].at > t
<1> DEFINE T == {n \in 0..Len(s) : n = Len(s) \/ s[n + 1].at > t}
           P(n) == /\ \A i \in 1..n : s[i].at <= t
                   /\ n < Len(s) => s[n + 1].at > t
<1>0. Len(s) \in Nat
  OBVIOUS
<1>1. T \subseteq Nat /\ Len(s) \in T
  BY <1>0
<1>2. PICK n \in T : \A y \in T : n <= y
  BY <1>1, LeastNat
<1>3. n \in 0..Len(s)
  OBVIOUS
<1>4. ASSUME NEW i \in 1..n PROVE s[i].at <= t
  <2>1. i - 1 \in 0..Len(s) /\ i - 1 < n /\ i \in 1..Len(s)
    BY <1>0, <1>3
  <2>2. i - 1 \notin T
    BY <1>2, <1>3, <2>1
  <2>3. ~(s[i].at > t)
    BY <2>1, <2>2, <1>3, <1>0
  <2>4. s[i].at \in Nat
    <3>1. s[i] \in ExpKey
      BY <2>1
    <3> QED
      BY <3>1 DEF ExpKey
  <2> QED
    BY <2>3, <2>4
<1>5. n < Len(s) => s[n + 1].at > t
  BY <1>0, <1>3
<1>6. P(n)
  BY <1>4, <1>5
<1>7. ExpiredLen(s, t) = CHOOSE m \in 0..Len(s) : P(m)
  BY DEF ExpiredLen
<1> HIDE DEF P
<1>8. ExpiredLen(s, t) \in 0..Len(s) /\ P(ExpiredLen(s, t))
  BY <1>3, <1>6, <1>7
<1> QED
  BY <1>8 DEF P

(* Inserting an entry gives a slice that is one longer. *)
LEMMA InsertExpFact ==
  ASSUME NEW s \in Seq(ExpKey), NEW i \in 1..(Len(s) + 1), NEW e \in ExpKey
  PROVE  /\ InsertExp(s, i, e) \in Seq(ExpKey)
         /\ Len(InsertExp(s, i, e)) = Len(s) + 1
         /\ InsertExp(s, i, e)[i] = e
         /\ \A j \in 1..Len(s) :
              InsertExp(s, i, e)[IF j < i THEN j ELSE j + 1] = s[j]
         /\ \A j \in 1..(Len(s) + 1) :
              j # i => InsertExp(s, i, e)[j] = s[IF j < i THEN j ELSE j - 1]
<1>1. Len(s) \in Nat
  OBVIOUS
<1>2. \A j \in 1..(Len(s) + 1) :
        (IF j < i THEN s[j] ELSE IF j = i THEN e ELSE s[j - 1]) \in ExpKey
  BY <1>1
<1>3. InsertExp(s, i, e) \in [1..(Len(s) + 1) -> ExpKey]
  BY <1>2 DEF InsertExp
<1>4. InsertExp(s, i, e) \in Seq(ExpKey) /\ Len(InsertExp(s, i, e)) = Len(s) + 1
  BY <1>1, <1>3
<1> QED
  BY <1>1, <1>4 DEF InsertExp

-----------------------------------------------------------------------------
(* The type invariant.                                                     *)

LEMMA NoCallType == NoCall \in Call /\ NoRef \in ExpRef
BY DEF NoCall, Call, NoRef, ExpRef, None

LEMMA TypeInductive == TypeOK /\ [Next]_vars => TypeOK'
<1> SUFFICES ASSUME TypeOK, [Next]_vars PROVE TypeOK'
  OBVIOUS
<1> USE CleanerAssumption
<1>1. CASE Tick
  BY <1>1 DEF Tick, TypeOK, callerVars, loopVars
<1>2. CASE Cancel
  BY <1>2 DEF Cancel, TypeOK, callerVars, loopVars
<1>3. CASE Start
  BY <1>3 DEF Start, TypeOK, callerVars, PC
<1>4. CASE Wakeup
  BY <1>4 DEF Wakeup, TypeOK, callerVars, PC
<1>5. CASE Done
  BY <1>5 DEF Done, TypeOK, callerVars, PC
<1>6. CASE ReadClock
  BY <1>6 DEF ReadClock, TypeOK, callerVars, PC
<1>7. CASE Collect
  <2> DEFINE n  == ExpiredLen(exps, cnow)
             ks == Matching(exps, refs, n)
  <2>1. exps \in Seq(ExpKey) /\ cnow \in Nat /\ refs \in [Keys -> ExpRef] /\ Len(exps) \in Nat
    BY DEF TypeOK
  <2>2. n \in 0..Len(exps)
    BY <2>1, ExpiredLenFact
  <2>3. ks \subseteq Keys
    BY DEF Matching
  <2> HIDE DEF n, ks
  <2>4. exps' \in Seq(ExpKey)
    <3>1. exps' = SubSeq(exps, n + 1, Len(exps))
      BY <1>7 DEF Collect, n
    <3> QED
      BY <2>1, <2>2, <3>1
  <2>5. refs' \in [Keys -> ExpRef]
    <3>1. refs' = [k \in Keys |-> IF k \in ks THEN NoRef ELSE refs[k]]
      BY <1>7 DEF Collect, n, ks
    <3> QED
      BY <2>1, <3>1, NoCallType
  <2>6. due' \in [Keys -> Nat]
    <3>1. due' = [k \in Keys |-> IF k \in ks THEN 0 ELSE due[k]]
      BY <1>7 DEF Collect, n, ks
    <3> QED
      BY <3>1 DEF TypeOK
  <2>7. objs' \subseteq Objs
    <3>1. objs' = {refs[k].obj : k \in ks}
      BY <1>7 DEF Collect, n, ks
    <3>2. \A k \in ks : refs[k].gen # 0
      BY DEF ks, Matching
    <3>3. \A k \in Keys : refs[k].gen # 0 => refs[k].obj \in Objs
      BY DEF TypeOK
    <3> QED
      BY <2>3, <3>1, <3>2, <3>3
  <2>8. exp' \in Nat \cup {None}
    <3>1. exp' = IF n < Len(exps) THEN exps[n + 1].at ELSE None
      BY <1>7 DEF Collect, n
    <3>2. n < Len(exps) => exps[n + 1] \in ExpKey
      BY <2>1, <2>2
    <3> QED
      BY <3>1, <3>2 DEF ExpKey
  <2>9. pc' \in PC /\ cnow' \in Nat
    BY <1>7 DEF Collect, PC
  <2>10. UNCHANGED <<now, call, wakeup, ctxDone>> /\ lowered' \subseteq lowered
    BY <1>7 DEF Collect
  <2>11. \A k \in Keys : refs'[k].gen # 0 => refs'[k].obj \in Objs
    <3>1. refs' = [k \in Keys |-> IF k \in ks THEN NoRef ELSE refs[k]]
      BY <1>7 DEF Collect, n, ks
    <3> QED
      BY <3>1 DEF TypeOK, NoRef
  <2> QED
    BY <2>4, <2>5, <2>6, <2>7, <2>8, <2>9, <2>10, <2>11 DEF TypeOK
<1>8. CASE Clean
  BY <1>8 DEF Clean, TypeOK, callerVars, PC
<1>9. CASE CleanFails
  BY <1>9 DEF CleanFails, TypeOK, callerVars, PC
<1>10. CASE Arm
  BY <1>10 DEF Arm, TypeOK, callerVars, PC, Later, None
<1>11. ASSUME NEW c \in Callers, NEW o \in Objs, NEW d \in Durations, ScheduleNow(c, o, d)
       PROVE  TypeOK'
  <2>1. now + d \in Nat
    BY DEF TypeOK
  <2>2. [at |-> now + d, obj |-> o, step |-> "add"] \in Call
    BY <2>1 DEF Call
  <2>3. call' \in [Callers -> Call]
    BY <1>11, <2>2 DEF ScheduleNow, TypeOK
  <2>4. \A b \in Callers : call'[b].step # "idle" => call'[b].at \in Nat /\ call'[b].obj \in Objs
    BY <1>11, <2>1 DEF ScheduleNow, TypeOK
  <2> QED
    BY <1>11, <2>3, <2>4 DEF ScheduleNow, TypeOK, loopVars
<1>12. ASSUME NEW c \in Callers, ScheduleAdd(c) PROVE TypeOK'
  <2> DEFINE o  == call[c].obj
             at == call[c].at
             k  == keyFn[o]
             i  == SearchIndex(exps, k, at)
             g  == refs[k].gen + 1
             e  == [gen |-> g, key |-> k, at |-> at]
  <2>1. at \in Nat /\ o \in Objs /\ k \in Keys /\ exps \in Seq(ExpKey)
    BY <1>12 DEF ScheduleAdd, TypeOK
  <2>2. g \in Nat
    <3>1. refs[k] \in ExpRef
      BY <2>1 DEF TypeOK
    <3> QED
      BY <3>1 DEF ExpRef
  <2>3. i \in 1..(Len(exps) + 1)
    BY <2>1, SearchIndexFact
  <2>4. e \in ExpKey
    BY <2>1, <2>2 DEF ExpKey
  <2>5. due' = [due EXCEPT ![k] = at]
    BY <1>12 DEF ScheduleAdd
  <2>6. due' \in [Keys -> Nat] /\ lowered' \subseteq Keys
    <3>1. lowered' = lowered \/ lowered' = lowered \cup {k}
      BY <1>12 DEF ScheduleAdd
    <3> QED
      BY <2>1, <2>5, <3>1 DEF TypeOK
  <2>7. \/ exps' = exps /\ refs' = refs
        \/ exps' = InsertExp(exps, i, e) /\ refs' = [refs EXCEPT ![k] = [gen |-> g, obj |-> o]]
    BY <1>12 DEF ScheduleAdd
  <2>8. \/ call' = [call EXCEPT ![c] = NoCall]
        \/ call' = [call EXCEPT ![c] = [call[c] EXCEPT !.step = "signal"]]
    BY <1>12 DEF ScheduleAdd
  <2>9. [call[c] EXCEPT !.step = "signal"] \in Call
    BY DEF TypeOK, Call
  <2> HIDE DEF i, g, e, k
  <2>10. exps' \in Seq(ExpKey)
    BY <2>1, <2>3, <2>4, <2>7, InsertExpFact
  <2>11. /\ refs' \in [Keys -> ExpRef]
         /\ \A m \in Keys : refs'[m].gen # 0 => refs'[m].obj \in Objs
    <3>1. [gen |-> g, obj |-> o] \in ExpRef
      BY <2>1, <2>2 DEF ExpRef
    <3> QED
      BY <2>1, <2>7, <3>1 DEF TypeOK
  <2>12. call' \in [Callers -> Call]
    BY <2>8, <2>9, NoCallType DEF TypeOK
  <2>13. \A b \in Callers : call'[b].step # "idle" => call'[b].at \in Nat /\ call'[b].obj \in Objs
    <3>1. [call[c] EXCEPT !.step = "signal"].at = at /\ [call[c] EXCEPT !.step = "signal"].obj = o
      BY DEF TypeOK, Call
    <3>2. NoCall.step = "idle"
      BY DEF NoCall
    <3> QED
      BY <2>1, <2>8, <3>1, <3>2 DEF TypeOK
  <2> QED
    BY <1>12, <2>6, <2>10, <2>11, <2>12, <2>13 DEF ScheduleAdd, TypeOK, loopVars
<1>13. ASSUME NEW c \in Callers, ScheduleSignal(c) PROVE TypeOK'
  <2>1. call' \in [Callers -> Call]
    BY <1>13, NoCallType DEF ScheduleSignal, TypeOK
  <2>2. \A b \in Callers : call'[b].step # "idle" => call'[b].at \in Nat /\ call'[b].obj \in Objs
    BY <1>13 DEF ScheduleSignal, TypeOK, NoCall
  <2> QED
    BY <1>13, <2>1, <2>2 DEF ScheduleSignal, TypeOK, PC
<1>14. CASE UNCHANGED vars
  BY <1>14 DEF vars, TypeOK
<1> QED
  BY <1>1, <1>2, <1>3, <1>4, <1>5, <1>6, <1>7, <1>8, <1>9, <1>10, <1>11, <1>12, <1>13, <1>14
     DEF Next, Loop, Schedule

LEMMA TypeInit == Init => TypeOK
<1> SUFFICES ASSUME Init PROVE TypeOK
  OBVIOUS
<1>1. /\ now \in 0..Horizon /\ exps \in Seq(ExpKey) /\ pc \in PC
      /\ wakeup \in Nat \cup {None} /\ cnow \in Nat /\ objs \subseteq Objs
      /\ exp \in Nat \cup {None} /\ ctxDone \in BOOLEAN /\ due \in [Keys -> Nat]
      /\ lowered \subseteq Keys
  <2>1. exps \in Seq(ExpKey)
    BY DEF Init
  <2>2. due \in [Keys -> Nat]
    BY DEF Init
  <2>3. ctxDone \in BOOLEAN /\ objs \subseteq Objs /\ lowered \subseteq Keys
    BY DEF Init
  <2> QED
    BY <2>1, <2>2, <2>3, CleanerAssumption DEF Init, PC
<1>2. /\ refs \in [Keys -> ExpRef] /\ call \in [Callers -> Call]
      /\ \A k \in Keys : refs[k].gen = 0
  BY NoCallType DEF Init, NoRef
<1>3. \A c \in Callers : call[c].step = "idle"
  BY DEF Init, NoCall
<1> QED
  BY <1>1, <1>2, <1>3 DEF TypeOK

(* The variables of the cleaner keep their types, whatever the callers do. *)
THEOREM TypeCorrect == Spec => []TypeOK
BY TypeInit, TypeInductive, PTL DEF Spec

-----------------------------------------------------------------------------
(* What the two operations on exps and refs do; no other step changes them. *)

LEMMA OtherSteps ==
  ASSUME [Next]_vars, ~Collect, \A c \in Callers : ~ScheduleAdd(c)
  PROVE  UNCHANGED <<exps, refs, due, lowered>>
BY DEF Next, Loop, Schedule, vars, callerVars, loopVars, Tick, Cancel, Start, Wakeup,
       Done, ReadClock, Clean, CleanFails, Arm, ScheduleNow, ScheduleSignal

(* A call of add skips a duplicate, or inserts the entry at the index      *)
(* found for it with the next generation of its key.                       *)
AddEffect(c, k, at, i, g) ==
  /\ k = keyFn[call[c].obj] /\ at = call[c].at
  /\ g = refs[k].gen + 1
  /\ due' = [due EXCEPT ![k] = at]
  /\ lowered' = IF refs[k].gen # 0 /\ at < due[k] THEN lowered \cup {k} ELSE lowered
  /\ \A j \in 1..(i - 1) : Before(exps[j], [key |-> k, at |-> at])
  /\ i <= Len(exps) => ~Before(exps[i], [key |-> k, at |-> at])
  /\ \/ /\ i <= Len(exps) /\ exps[i].key = k /\ exps[i].at = at
        /\ UNCHANGED <<exps, refs>>
     \/ /\ ~(i <= Len(exps) /\ exps[i].key = k /\ exps[i].at = at)
        /\ refs' = [refs EXCEPT ![k] = [gen |-> g, obj |-> call[c].obj]]
        /\ exps' = InsertExp(exps, i, [gen |-> g, key |-> k, at |-> at])

LEMMA AddStep ==
  ASSUME TypeOK, NEW c \in Callers, ScheduleAdd(c)
  PROVE  \E k \in Keys, at \in Nat, i \in 1..(Len(exps) + 1), g \in Nat \ {0} :
           AddEffect(c, k, at, i, g)
<1> DEFINE o  == call[c].obj
           at == call[c].at
           k  == keyFn[o]
           i  == SearchIndex(exps, k, at)
           g  == refs[k].gen + 1
<1>1. at \in Nat /\ o \in Objs /\ k \in Keys /\ exps \in Seq(ExpKey)
  BY CleanerAssumption DEF ScheduleAdd, TypeOK
<1>2. g \in Nat \ {0}
  <2>1. refs[k] \in ExpRef
    BY <1>1 DEF TypeOK
  <2> QED
    BY <2>1 DEF ExpRef
<1>3. /\ i \in 1..(Len(exps) + 1)
      /\ \A j \in 1..(i - 1) : Before(exps[j], [key |-> k, at |-> at])
      /\ i <= Len(exps) => ~Before(exps[i], [key |-> k, at |-> at])
  BY <1>1, SearchIndexFact
<1>4. /\ due' = [due EXCEPT ![k] = at]
      /\ lowered' = IF refs[k].gen # 0 /\ at < due[k] THEN lowered \cup {k} ELSE lowered
      /\ \/ AtIndex(exps, i, k, at) /\ UNCHANGED <<exps, refs>>
         \/ /\ ~AtIndex(exps, i, k, at)
            /\ refs' = [refs EXCEPT ![k] = [gen |-> g, obj |-> o]]
            /\ exps' = InsertExp(exps, i, [gen |-> g, key |-> k, at |-> at])
  BY DEF ScheduleAdd
<1> HIDE DEF i, g, k, at
<1>5. k = keyFn[call[c].obj] /\ at = call[c].at /\ g = refs[k].gen + 1
  BY DEF k, at, g
<1>6. AddEffect(c, k, at, i, g)
  BY <1>3, <1>4, <1>5 DEF AtIndex, AddEffect
<1> QED
  BY <1>1, <1>2, <1>3, <1>6

(* A call of collect drops the first n entries and the refs that one of    *)
(* them matches.                                                           *)
LEMMA CollectStep ==
  ASSUME TypeOK, Collect
  PROVE  \E n \in 0..Len(exps) :
           /\ \A i \in 1..n : exps[i].at <= cnow
           /\ n < Len(exps) => exps[n + 1].at > cnow
           /\ refs' = [k \in Keys |-> IF k \in Matching(exps, refs, n) THEN NoRef ELSE refs[k]]
           /\ due' = [k \in Keys |-> IF k \in Matching(exps, refs, n) THEN 0 ELSE due[k]]
           /\ lowered' = lowered \cap KeysOf(exps')
           /\ Len(exps') = Len(exps) - n
           /\ \A j \in 1..Len(exps') : exps'[j] = exps[n + j]
<1> DEFINE n == ExpiredLen(exps, cnow)
<1>1. exps \in Seq(ExpKey) /\ cnow \in Nat /\ Len(exps) \in Nat
  BY DEF TypeOK
<1>2. /\ n \in 0..Len(exps)
      /\ \A i \in 1..n : exps[i].at <= cnow
      /\ n < Len(exps) => exps[n + 1].at > cnow
  BY <1>1, ExpiredLenFact
<1>3. /\ refs' = [k \in Keys |-> IF k \in Matching(exps, refs, n) THEN NoRef ELSE refs[k]]
      /\ due' = [k \in Keys |-> IF k \in Matching(exps, refs, n) THEN 0 ELSE due[k]]
      /\ exps' = SubSeq(exps, n + 1, Len(exps))
      /\ lowered' = lowered \cap KeysOf(exps')
  BY DEF Collect
<1> HIDE DEF n
<1>4. Len(exps') = Len(exps) - n /\ \A j \in 1..Len(exps') : exps'[j] = exps[n + j]
  BY <1>1, <1>2, <1>3
<1> QED
  BY <1>2, <1>3, <1>4

-----------------------------------------------------------------------------
(* The slice stays sorted.                                                 *)

LEMMA SortedInductive == TypeOK /\ ExpsSorted /\ [Next]_vars => ExpsSorted'
<1> SUFFICES ASSUME TypeOK, ExpsSorted, [Next]_vars PROVE ExpsSorted'
  OBVIOUS
<1>0. exps \in Seq(ExpKey) /\ Len(exps) \in Nat /\ \A j \in 1..Len(exps) : exps[j] \in ExpKey
  BY DEF TypeOK
<1>1. ASSUME NEW c \in Callers, ScheduleAdd(c) PROVE ExpsSorted'
  <2>1. PICK k \in Keys, at \in Nat, i \in 1..(Len(exps) + 1), g \in Nat \ {0} :
          AddEffect(c, k, at, i, g)
    BY <1>1, AddStep
  <2>2. CASE exps' = exps
    BY <2>2 DEF ExpsSorted
  <2>3. CASE /\ ~(i <= Len(exps) /\ exps[i].key = k /\ exps[i].at = at)
             /\ exps' = InsertExp(exps, i, [gen |-> g, key |-> k, at |-> at])
    <3> DEFINE e == [gen |-> g, key |-> k, at |-> at]
    <3>1. e \in ExpKey
      BY DEF ExpKey
    <3>2. /\ Len(exps') = Len(exps) + 1
          /\ exps'[i] = e
          /\ \A j \in 1..(Len(exps) + 1) : j # i => exps'[j] = exps[IF j < i THEN j ELSE j - 1]
      <4>1. exps' = InsertExp(exps, i, e)
        BY <2>3
      <4> HIDE DEF e
      <4> QED
        BY <1>0, <3>1, <4>1, InsertExpFact
    <3>3. \A j \in 1..(i - 1) : Before(exps[j], e)
      BY <2>1 DEF AddEffect, Before
    <3>n. \A a \in ExpKey : a.at \in Nat /\ a.key \in Nat
      BY CleanerAssumption DEF ExpKey
    <3>4. i <= Len(exps) => Before(e, exps[i])
      <4> SUFFICES ASSUME i <= Len(exps) PROVE Before(e, exps[i])
        OBVIOUS
      <4>1. exps[i].at \in Nat /\ exps[i].key \in Nat
        BY <1>0, <3>n
      <4>2. ~Before(exps[i], [key |-> k, at |-> at]) /\ ~(exps[i].key = k /\ exps[i].at = at)
        BY <2>1, <2>3 DEF AddEffect
      <4>3. k \in Nat
        BY CleanerAssumption
      <4> QED
        BY <4>1, <4>2, <4>3 DEF Before
    <3>5. \A a, b, d \in ExpKey : Before(a, b) /\ Before(b, d) => Before(a, d)
      BY <3>n DEF Before
    <3>6. \A j \in i..Len(exps) : Before(e, exps[j])
      <4> SUFFICES ASSUME NEW j \in i..Len(exps), j # i PROVE Before(e, exps[j])
        BY <1>0, <3>4
      <4>1. i \in 1..Len(exps) /\ j \in 1..Len(exps) /\ i < j
        BY <1>0
      <4>2. Before(exps[i], exps[j])
        BY <4>1 DEF ExpsSorted
      <4> HIDE DEF e
      <4> QED
        BY <1>0, <3>1, <3>4, <3>5, <4>1, <4>2
    <3> HIDE DEF e
    <3>7. ASSUME NEW a \in 1..Len(exps'), NEW b \in 1..Len(exps'), a < b
          PROVE  Before(exps'[a], exps'[b])
      <4>1. CASE a = i
        <5>1. b - 1 \in i..Len(exps) /\ exps'[b] = exps[b - 1]
          BY <1>0, <3>2, <3>7, <4>1
        <5> QED
          BY <3>2, <3>6, <4>1, <5>1
      <4>2. CASE b = i
        <5>1. a \in 1..(i - 1) /\ exps'[a] = exps[a]
          BY <1>0, <3>2, <3>7, <4>2
        <5> QED
          BY <3>2, <3>3, <4>2, <5>1
      <4>3. CASE a # i /\ b # i
        <5> DEFINE p == IF a < i THEN a ELSE a - 1
                   q == IF b < i THEN b ELSE b - 1
        <5>1. p \in 1..Len(exps) /\ q \in 1..Len(exps) /\ p < q
          BY <1>0, <3>2, <3>7, <4>3
        <5>2. exps'[a] = exps[p] /\ exps'[b] = exps[q]
          BY <1>0, <3>2, <4>3
        <5> HIDE DEF p, q
        <5> QED
          BY <5>1, <5>2 DEF ExpsSorted
      <4> QED
        BY <4>1, <4>2, <4>3
    <3> QED
      BY <3>7 DEF ExpsSorted
  <2> QED
    BY <2>1, <2>2, <2>3 DEF AddEffect
<1>2. CASE Collect
  <2>1. PICK n \in 0..Len(exps) :
          Len(exps') = Len(exps) - n /\ \A j \in 1..Len(exps') : exps'[j] = exps[n + j]
    BY <1>2, CollectStep
  <2>2. ASSUME NEW a \in 1..Len(exps'), NEW b \in 1..Len(exps'), a < b
        PROVE  Before(exps'[a], exps'[b])
    <3>1. n + a \in 1..Len(exps) /\ n + b \in 1..Len(exps) /\ n + a < n + b
      BY <1>0, <2>1, <2>2
    <3> QED
      BY <2>1, <3>1 DEF ExpsSorted
  <2> QED
    BY <2>2 DEF ExpsSorted
<1>3. CASE ~Collect /\ \A c \in Callers : ~ScheduleAdd(c)
  BY <1>3, OtherSteps DEF ExpsSorted
<1> QED
  BY <1>1, <1>2, <1>3

(* The slice is strictly ordered by expiry and key in every reachable      *)
(* state: the binary search of add and the early return of collect may     *)
(* rely on it, however Schedule calls interleave.                          *)
THEOREM SliceSorted == Spec => []ExpsSorted
<1>1. Init => ExpsSorted
  BY DEF Init, ExpsSorted
<1> QED
  BY <1>1, TypeInit, TypeInductive, SortedInductive, PTL DEF Spec

-----------------------------------------------------------------------------
(* An object that is held can be collected.                                *)

LEMMA RefHasExpInductive == TypeOK /\ RefHasExp /\ [Next]_vars => RefHasExp'
<1> SUFFICES ASSUME TypeOK, RefHasExp, [Next]_vars PROVE RefHasExp'
  OBVIOUS
<1>0. exps \in Seq(ExpKey) /\ Len(exps) \in Nat /\ refs \in [Keys -> ExpRef]
  BY DEF TypeOK
<1>1. ASSUME NEW c \in Callers, ScheduleAdd(c) PROVE RefHasExp'
  <2>1. PICK k \in Keys, at \in Nat, i \in 1..(Len(exps) + 1), g \in Nat \ {0} :
          AddEffect(c, k, at, i, g)
    BY <1>1, AddStep
  <2>2. CASE UNCHANGED <<exps, refs>>
    BY <2>2 DEF RefHasExp
  <2>3. CASE /\ refs' = [refs EXCEPT ![k] = [gen |-> g, obj |-> call[c].obj]]
             /\ exps' = InsertExp(exps, i, [gen |-> g, key |-> k, at |-> at])
    <3> DEFINE e == [gen |-> g, key |-> k, at |-> at]
    <3>1. e \in ExpKey
      BY DEF ExpKey
    <3>2. /\ Len(exps') = Len(exps) + 1
          /\ exps'[i] = e
          /\ \A j \in 1..Len(exps) : exps'[IF j < i THEN j ELSE j + 1] = exps[j]
      BY <1>0, <2>3, <3>1, InsertExpFact
    <3>3. ASSUME NEW m \in Keys, refs'[m].gen # 0
          PROVE  \E j \in 1..Len(exps') : exps'[j].key = m /\ exps'[j].gen = refs'[m].gen
      <4>1. CASE m = k
        <5>1. refs'[m].gen = g /\ i \in 1..Len(exps')
          BY <1>0, <2>3, <3>2, <4>1
        <5> QED
          BY <3>2, <4>1, <5>1
      <4>2. CASE m # k
        <5>1. refs'[m] = refs[m]
          BY <1>0, <2>3, <4>2
        <5>2. PICK j \in 1..Len(exps) : exps[j].key = m /\ exps[j].gen = refs[m].gen
          BY <3>3, <5>1 DEF RefHasExp
        <5>3. (IF j < i THEN j ELSE j + 1) \in 1..Len(exps')
          BY <1>0, <3>2
        <5> QED
          BY <3>2, <5>1, <5>2, <5>3
      <4> QED
        BY <4>1, <4>2
    <3> QED
      BY <3>3 DEF RefHasExp
  <2> QED
    BY <2>1, <2>2, <2>3 DEF AddEffect
<1>2. CASE Collect
  <2>1. PICK n \in 0..Len(exps) :
          /\ refs' = [k \in Keys |-> IF k \in Matching(exps, refs, n) THEN NoRef ELSE refs[k]]
          /\ Len(exps') = Len(exps) - n
          /\ \A j \in 1..Len(exps') : exps'[j] = exps[n + j]
    BY <1>2, CollectStep
  <2>2. ASSUME NEW k \in Keys, refs'[k].gen # 0
        PROVE  \E j \in 1..Len(exps') : exps'[j].key = k /\ exps'[j].gen = refs'[k].gen
    <3>1. k \notin Matching(exps, refs, n) /\ refs'[k] = refs[k]
      BY <2>1, <2>2 DEF NoRef
    <3>2. PICK i \in 1..Len(exps) : exps[i].key = k /\ exps[i].gen = refs[k].gen
      BY <2>2, <3>1 DEF RefHasExp
    <3>3. ~(i \in 1..n)
      BY <2>2, <3>1, <3>2 DEF Matching
    <3>4. i - n \in 1..Len(exps') /\ n + (i - n) = i
      BY <1>0, <2>1, <3>2, <3>3
    <3> QED
      BY <2>1, <3>1, <3>2, <3>4
  <2> QED
    BY <2>2 DEF RefHasExp
<1>3. CASE ~Collect /\ \A c \in Callers : ~ScheduleAdd(c)
  BY <1>3, OtherSteps DEF RefHasExp
<1> QED
  BY <1>1, <1>2, <1>3

(* Whatever refs holds has a pending entry of its own generation in exps,  *)
(* so the cleaner never keeps an object that no later collect can release. *)
THEOREM HeldIsPending == Spec => []RefHasExp
<1>1. Init => RefHasExp
  BY DEF Init, RefHasExp, NoRef
<1> QED
  BY <1>1, TypeInit, TypeInductive, RefHasExpInductive, PTL DEF Spec

-----------------------------------------------------------------------------
(* Only a key that was rescheduled at a lower time is collected early.     *)

LEMMA DanglingInductive ==
  TypeOK /\ ExpsSorted /\ NoDangling /\ [Next]_vars => NoDangling'
<1> SUFFICES ASSUME TypeOK, ExpsSorted, NoDangling, [Next]_vars PROVE NoDangling'
  OBVIOUS
<1>0. /\ exps \in Seq(ExpKey) /\ Len(exps) \in Nat /\ cnow \in Nat
      /\ due \in [Keys -> Nat] /\ refs \in [Keys -> ExpRef]
  BY DEF TypeOK
<1>e. \A i \in 1..Len(exps) :
        exps[i].key \in Keys /\ exps[i].at \in Nat /\ exps[i].gen \in Nat
  <2>1. \A i \in 1..Len(exps) : exps[i] \in ExpKey
    BY <1>0
  <2> QED
    BY <2>1 DEF ExpKey
<1>r. \A k \in Keys : refs[k].gen \in Nat
  BY <1>0 DEF ExpRef
<1>1. ASSUME NEW c \in Callers, ScheduleAdd(c) PROVE NoDangling'
  <2>1. PICK k \in Keys, at \in Nat, i \in 1..(Len(exps) + 1), g \in Nat \ {0} :
          AddEffect(c, k, at, i, g)
    BY <1>1, AddStep
  <2>2. /\ due' = [due EXCEPT ![k] = at] /\ g = refs[k].gen + 1
        /\ \A m \in Keys : m \notin lowered' => m \notin lowered
        /\ k \notin lowered' => refs[k].gen = 0 \/ due[k] <= at
    <3>1. due[k] \in Nat
      BY <1>0
    <3>2. /\ due' = [due EXCEPT ![k] = at] /\ g = refs[k].gen + 1
          /\ lowered' = IF refs[k].gen # 0 /\ at < due[k] THEN lowered \cup {k} ELSE lowered
      BY <2>1 DEF AddEffect
    <3>3. \A m \in Keys : m \notin lowered' => m \notin lowered
      BY <3>2
    <3>4. k \notin lowered' => refs[k].gen = 0 \/ ~(at < due[k])
      BY <3>2
    <3> QED
      BY <3>1, <3>2, <3>3, <3>4
  <2>3. CASE /\ i <= Len(exps) /\ exps[i].key = k /\ exps[i].at = at
             /\ UNCHANGED <<exps, refs>>
    <3>1. i \in 1..Len(exps)
      BY <1>0, <2>3
    <3>2. k \notin lowered' => refs[k].gen # 0 /\ at <= due[k]
      BY <2>2, <2>3, <3>1 DEF NoDangling
    <3>3. k \notin lowered' => due'[k] = due[k]
      BY <1>0, <2>2, <3>2
    <3>4. \A m \in Keys : m # k => due'[m] = due[m]
      BY <1>0, <2>2
    <3>5. \A j \in 1..Len(exps) : exps[j].key \notin lowered' => due'[exps[j].key] = due[exps[j].key]
      BY <1>e, <3>3, <3>4
    <3> QED
      BY <1>e, <2>2, <2>3, <3>5 DEF NoDangling
  <2>4. CASE /\ refs' = [refs EXCEPT ![k] = [gen |-> g, obj |-> call[c].obj]]
             /\ exps' = InsertExp(exps, i, [gen |-> g, key |-> k, at |-> at])
    <3> DEFINE e == [gen |-> g, key |-> k, at |-> at]
    <3>1. e \in ExpKey
      BY DEF ExpKey
    <3>2. /\ Len(exps') = Len(exps) + 1
          /\ exps'[i] = e
          /\ \A j \in 1..(Len(exps) + 1) : j # i => exps'[j] = exps[IF j < i THEN j ELSE j - 1]
      <4>1. exps' = InsertExp(exps, i, e)
        BY <2>4
      <4> HIDE DEF e
      <4> QED
        BY <1>0, <3>1, <4>1, InsertExpFact
    <3>3. refs'[k].gen = g /\ due'[k] = at
          /\ \A m \in Keys : m # k => refs'[m] = refs[m] /\ due'[m] = due[m]
      BY <1>0, <2>2, <2>4
    <3>4. ASSUME NEW j \in 1..Len(exps'), exps'[j].key \notin lowered'
          PROVE  /\ refs'[exps'[j].key].gen # 0
                 /\ exps'[j].gen <= refs'[exps'[j].key].gen
                 /\ exps'[j].at <= due'[exps'[j].key]
                 /\ exps'[j].gen = refs'[exps'[j].key].gen => exps'[j].at = due'[exps'[j].key]
      <4>1. CASE j = i
        BY <3>2, <3>3, <4>1
      <4>2. CASE j # i
        <5> DEFINE p == IF j < i THEN j ELSE j - 1
        <5>1. p \in 1..Len(exps) /\ exps'[j] = exps[p]
          BY <1>0, <3>2, <4>2
        <5> HIDE DEF p
        <5>2. /\ refs[exps[p].key].gen # 0
              /\ exps[p].gen <= refs[exps[p].key].gen
              /\ exps[p].at <= due[exps[p].key]
              /\ exps[p].gen = refs[exps[p].key].gen => exps[p].at = due[exps[p].key]
          BY <1>e, <2>2, <3>4, <5>1 DEF NoDangling
        <5>3. exps[p].key \in Keys /\ exps[p].at \in Nat /\ exps[p].gen \in Nat
          BY <1>e, <5>1
        <5>4. CASE exps[p].key = k
          <6>1. exps[p].gen <= refs[k].gen /\ exps[p].at <= due[k] /\ due[k] <= at
            BY <2>2, <3>4, <5>1, <5>2, <5>4
          <6>2. refs[k].gen \in Nat /\ due[k] \in Nat
            BY <1>0, <1>r
          <6>3. exps[p].gen < g
            BY <2>2, <5>3, <6>1, <6>2
          <6>4. exps[p].at <= at
            BY <2>2, <5>3, <6>1, <6>2
          <6> QED
            BY <3>3, <5>1, <5>3, <5>4, <6>3, <6>4
        <5>5. CASE exps[p].key # k
          BY <3>3, <5>1, <5>2, <5>3, <5>5
        <5> QED
          BY <5>4, <5>5
      <4> QED
        BY <4>1, <4>2
    <3> QED
      BY <3>4 DEF NoDangling
  <2> QED
    BY <2>1, <2>3, <2>4 DEF AddEffect
<1>2. CASE Collect
  <2>1. PICK n \in 0..Len(exps) :
          /\ \A i \in 1..n : exps[i].at <= cnow
          /\ n < Len(exps) => exps[n + 1].at > cnow
          /\ refs' = [k \in Keys |-> IF k \in Matching(exps, refs, n) THEN NoRef ELSE refs[k]]
          /\ due' = [k \in Keys |-> IF k \in Matching(exps, refs, n) THEN 0 ELSE due[k]]
          /\ lowered' = lowered \cap KeysOf(exps')
          /\ Len(exps') = Len(exps) - n
          /\ \A j \in 1..Len(exps') : exps'[j] = exps[n + j]
    BY <1>2, CollectStep
  <2>2. ASSUME NEW j \in 1..Len(exps')
        PROVE  /\ n + j \in 1..Len(exps) /\ exps'[j] = exps[n + j]
               /\ exps[n + j].at > cnow
    <3>1. n + j \in 1..Len(exps) /\ n < Len(exps) /\ n + 1 \in 1..Len(exps)
      BY <1>0, <2>1
    <3>2. j = 1 \/ Before(exps[n + 1], exps[n + j])
      BY <3>1, <1>0 DEF ExpsSorted
    <3>3. exps[n + 1].at > cnow
      BY <2>1, <3>1
    <3> QED
      BY <1>0, <1>e, <2>1, <3>1, <3>2, <3>3 DEF Before
  <2>k. \A j \in 1..Len(exps') : exps'[j].key \notin lowered' => exps'[j].key \notin lowered
    BY <2>1 DEF KeysOf
  <2>3. ASSUME NEW k \in Matching(exps, refs, n), k \notin lowered PROVE due[k] <= cnow
    <3>1. k \in Keys /\ \E i \in 1..n : exps[i].key = k /\ exps[i].gen = refs[k].gen
      BY DEF Matching
    <3>2. PICK i \in 1..n : exps[i].key = k /\ exps[i].gen = refs[k].gen
      BY <3>1
    <3>3. i \in 1..Len(exps)
      BY <1>0, <2>1
    <3> QED
      BY <2>1, <2>3, <3>2, <3>3 DEF NoDangling
  <2>4. ASSUME NEW j \in 1..Len(exps'), exps'[j].key \notin lowered'
        PROVE  exps'[j].key \in Keys \ Matching(exps, refs, n)
    <3>1. exps[n + j].key \notin lowered /\ exps[n + j].at <= due[exps[n + j].key]
      BY <2>2, <2>4, <2>k DEF NoDangling
    <3>2. exps[n + j].key \in Keys /\ exps[n + j].at \in Nat /\ due[exps[n + j].key] \in Nat
      BY <1>0, <1>e, <2>2
    <3> QED
      BY <1>0, <2>2, <2>3, <3>1, <3>2
  <2>5. ASSUME NEW j \in 1..Len(exps'), exps'[j].key \notin lowered'
        PROVE  /\ refs'[exps'[j].key] = refs[exps[n + j].key]
               /\ due'[exps'[j].key] = due[exps[n + j].key]
    BY <2>1, <2>2, <2>4, <2>5
  <2> QED
    BY <2>2, <2>5, <2>k DEF NoDangling
<1>3. CASE ~Collect /\ \A c \in Callers : ~ScheduleAdd(c)
  BY <1>3, OtherSteps DEF NoDangling
<1> QED
  BY <1>1, <1>2, <1>3

LEMMA LastScheduleStep ==
  TypeOK /\ NoDangling /\ [Next]_vars
    => [\A k \in Keys \ lowered :
          refs[k].gen # 0 /\ refs'[k].gen = 0 => due[k] <= cnow]_vars
<1> SUFFICES ASSUME TypeOK, NoDangling, [Next]_vars,
                    NEW k \in Keys \ lowered, refs[k].gen # 0, refs'[k].gen = 0
             PROVE  due[k] <= cnow
  OBVIOUS
<1>1. ASSUME NEW c \in Callers, ScheduleAdd(c) PROVE FALSE
  <2>1. PICK m \in Keys, at \in Nat, i \in 1..(Len(exps) + 1), g \in Nat \ {0} :
          AddEffect(c, m, at, i, g)
    BY <1>1, AddStep
  <2>2. refs' = refs \/ refs' = [refs EXCEPT ![m] = [gen |-> g, obj |-> call[c].obj]]
    BY <2>1 DEF AddEffect
  <2>3. refs \in [Keys -> ExpRef]
    BY DEF TypeOK
  <2> QED
    BY <2>2, <2>3
<1>2. CASE Collect
  <2>1. PICK n \in 0..Len(exps) :
          /\ \A i \in 1..n : exps[i].at <= cnow
          /\ refs' = [m \in Keys |-> IF m \in Matching(exps, refs, n) THEN NoRef ELSE refs[m]]
    BY <1>2, CollectStep
  <2>2. k \in Matching(exps, refs, n)
    BY <2>1
  <2>3. PICK i \in 1..n : exps[i].key = k /\ exps[i].gen = refs[k].gen
    BY <2>2 DEF Matching
  <2>4. i \in 1..Len(exps)
    BY <2>1 DEF TypeOK
  <2> QED
    BY <2>1, <2>3, <2>4 DEF NoDangling
<1>3. CASE ~Collect /\ \A c \in Callers : ~ScheduleAdd(c)
  BY <1>3, OtherSteps
<1> QED
  BY <1>1, <1>2, <1>3

(* For any callers and any durations, an object whose key has not been     *)
(* rescheduled at a lower time is not cleaned before the time its last     *)
(* Schedule call asked for: the case cleaner.go:81-83 describes is the only *)
(* one in which a per-key generation is not enough.                        *)
THEOREM LastScheduleCounts == Spec => OnlyLoweredEarly
<1>1. Init => TypeOK /\ ExpsSorted /\ NoDangling
  <2>1. Init => ExpsSorted /\ NoDangling
    BY DEF Init, ExpsSorted, NoDangling
  <2> QED
    BY <2>1, TypeInit
<1> QED
  BY <1>1, TypeInductive, SortedInductive, DanglingInductive, LastScheduleStep, PTL
     DEF Spec, OnlyLoweredEarly
=============================================================================
