------------------------------ MODULE Cleaner ------------------------------
(***************************************************************************)
(* internal/cache/cleaner.go: the background cleaner of the bbolt cache.   *)
(*                                                                         *)
(* Any number of goroutines call Schedule(obj, exp); one goroutine runs    *)
(* Start.  The two sides share exps (a slice of expiry entries ordered by  *)
(* time, then key) and refs (the last object scheduled for a key, with a   *)
(* generation) under a mutex, and an unbuffered channel, signal, on which  *)
(* Schedule makes a non-blocking send.  Schedule reads the clock before it *)
(* takes the mutex and sends after it has released it, so a call is three  *)
(* steps.                                                                  *)
(***************************************************************************)
EXTENDS Integers, Sequences, FiniteSets

CONSTANTS
  Callers,      \* goroutines that call Schedule
  Objs,         \* objects that can be scheduled
  Keys,         \* their keys (cmp.Ordered: here, numbers)
  keyFn,        \* keyFn[o] is the key of o
  Durations,    \* the values of exp that callers pass
  TickInterval, \* the cleaner's tick option
  Horizon       \* bound on the clock; this instant stands for all later ones

None  == -1     \* the zero time.Time, and the nil wakeup channel
NoObj == "no object"

ASSUME CleanerAssumption ==
  /\ Keys \subseteq Nat
  /\ keyFn \in [Objs -> Keys]
  /\ Durations \subseteq Nat
  /\ TickInterval \in Nat
  /\ Horizon \in Nat
  /\ NoObj \notin Objs

VARIABLES
  now,      \* the clock
  exps,     \* c.exps
  refs,     \* c.refs; generation 0 is an absent entry, as in the zero expRef
  call,     \* the Schedule call each caller is in
  pc,       \* where the goroutine that runs Start is
  wakeup,   \* when its wakeup channel fires, or None when that is nil
  cnow,     \* the clock reading it passes to collect
  objs,     \* the objects collect gave it
  exp,      \* the next expiry collect gave it
  ctxDone,  \* the context of Start is cancelled
  due,      \* history: the time the last Schedule call for a key asked for,
            \* and 0 when refs has no entry
  lowered   \* history: keys in refs that were scheduled again at a lower time,
            \* until no entry of theirs is left

vars == <<now, exps, refs, call, pc, wakeup, cnow, objs, exp, ctxDone, due, lowered>>

callerVars == <<call, due, lowered>>
loopVars   == <<pc, wakeup, cnow, objs, exp>>

NoRef  == [gen |-> 0, obj |-> NoObj]
NoCall == [at |-> None, obj |-> NoObj, step |-> "idle"]

ExpKey == [gen : Nat, key : Keys, at : Nat]
ExpRef == [gen : Nat, obj : Objs \cup {NoObj}]
Call   == [at : Nat \cup {None}, obj : Objs \cup {NoObj},
           step : {"idle", "add", "signal"}]
PC     == {"init", "select", "clock", "collect", "clean", "arm", "stopped"}

-----------------------------------------------------------------------------
(* Operations on the slice of expiry entries. *)

(* The order of exps: by expiration, then by key. *)
Before(e, f) == e.at < f.at \/ (e.at = f.at /\ e.key < f.key)

(* newest: the entry would be the first to expire. *)
IsNewest(s, at) == Len(s) = 0 \/ s[1].at > at

(* Mutant: the search compares times only, and equal times keep no order. *)
SearchIndexByTime(s, k, at) ==
  CHOOSE i \in 1..(Len(s) + 1) :
    /\ \A j \in 1..(i - 1) : s[j].at < at
    /\ i <= Len(s) => s[i].at >= at

(* sort.Search: the first index whose entry is not before (at, k). *)
SearchIndex(s, k, at) ==
  CHOOSE i \in 1..(Len(s) + 1) :
    /\ \A j \in 1..(i - 1) : Before(s[j], [key |-> k, at |-> at])
    /\ i <= Len(s) => ~Before(s[i], [key |-> k, at |-> at])

(* The entry that is found there may be the one to be added. *)
AtIndex(s, i, k, at) == i <= Len(s) /\ s[i].key = k /\ s[i].at = at

(* append(exps[:i+1], exps[i:]...) and the assignments to exps[i]. *)
InsertExp(s, i, e) ==
  [j \in 1..(Len(s) + 1) |->
     IF j < i THEN s[j] ELSE IF j = i THEN e ELSE s[j - 1]]

(* How many entries the loop of collect drops: it stops at the first that  *)
(* expires later.                                                          *)
ExpiredLen(s, t) ==
  CHOOSE n \in 0..Len(s) :
    /\ \A i \in 1..n : s[i].at <= t
    /\ n < Len(s) => s[n + 1].at > t

(* Mutant: every entry releases the ref of its key, whatever its generation. *)
MatchingAnyGen(s, r, n) == {k \in Keys : r[k].gen # 0 /\ \E i \in 1..n : s[i].key = k}

(* The keys whose entry, among the first n, has the generation of the ref. *)
Matching(s, r, n) ==
  {k \in Keys : r[k].gen # 0 /\ \E i \in 1..n : s[i].key = k /\ s[i].gen = r[k].gen}

(* The keys that have an entry in the slice. *)
KeysOf(s) == {s[i].key : i \in 1..Len(s)}

-----------------------------------------------------------------------------
Init ==
  /\ now = 0
  /\ exps = <<>>
  /\ refs = [k \in Keys |-> NoRef]
  /\ call = [c \in Callers |-> NoCall]
  /\ pc = "init"
  /\ wakeup = None
  /\ cnow = 0
  /\ objs = {}
  /\ exp = None
  /\ ctxDone = FALSE
  /\ due = [k \in Keys |-> 0]
  /\ lowered = {}

(* Time passes. *)
Tick ==
  /\ now < Horizon
  /\ now' = now + 1
  /\ UNCHANGED <<exps, refs, callerVars, loopVars, ctxDone>>

(* Schedule evaluates c.clock.Now().Add(exp), without the mutex. *)
ScheduleNow(c, o, d) ==
  /\ call[c].step = "idle"
  /\ now + d <= Horizon
  /\ call' = [call EXCEPT ![c] = [at |-> now + d, obj |-> o, step |-> "add"]]
  /\ UNCHANGED <<now, exps, refs, due, lowered, loopVars, ctxDone>>

(* Mutant: the generation is taken before the duplicate test returns. *)
ScheduleAddGenFirst(c) ==
  /\ call[c].step = "add"
  /\ LET o  == call[c].obj
         at == call[c].at
         k  == keyFn[o]
         i  == SearchIndex(exps, k, at)
         g  == refs[k].gen + 1
     IN  /\ due' = [due EXCEPT ![k] = at]
         /\ lowered' = IF refs[k].gen # 0 /\ at < due[k] THEN lowered \cup {k} ELSE lowered
         /\ refs' = [refs EXCEPT ![k] = [gen |-> g, obj |-> o]]
         /\ call' = [call EXCEPT ![c] = NoCall]
         /\ exps' = IF AtIndex(exps, i, k, at) THEN exps
                    ELSE InsertExp(exps, i, [gen |-> g, key |-> k, at |-> at])
  /\ UNCHANGED <<now, loopVars, ctxDone>>

(* add, under the mutex. *)
ScheduleAdd(c) ==
  /\ call[c].step = "add"
  /\ LET o  == call[c].obj
         at == call[c].at
         k  == keyFn[o]
         i  == SearchIndex(exps, k, at)
         g  == refs[k].gen + 1
     IN  /\ due' = [due EXCEPT ![k] = at]
         /\ lowered' = IF refs[k].gen # 0 /\ at < due[k] THEN lowered \cup {k} ELSE lowered
         /\ \/ /\ AtIndex(exps, i, k, at)
               /\ call' = [call EXCEPT ![c] = NoCall]
               /\ UNCHANGED <<exps, refs>>
            \/ /\ ~AtIndex(exps, i, k, at)
               /\ refs' = [refs EXCEPT ![k] = [gen |-> g, obj |-> o]]
               /\ exps' = InsertExp(exps, i, [gen |-> g, key |-> k, at |-> at])
               /\ call' = [call EXCEPT ![c] =
                             IF IsNewest(exps, at)
                             THEN [call[c] EXCEPT !.step = "signal"]
                             ELSE NoCall]
  /\ UNCHANGED <<now, loopVars, ctxDone>>

(* The non-blocking send: it is received if Start waits in its select, and *)
(* dropped otherwise.                                                      *)
ScheduleSignal(c) ==
  /\ call[c].step = "signal"
  /\ call' = [call EXCEPT ![c] = NoCall]
  /\ pc' = IF pc = "select" THEN "clock" ELSE pc
  /\ UNCHANGED <<now, exps, refs, due, lowered, wakeup, cnow, objs, exp, ctxDone>>

-----------------------------------------------------------------------------
(* The goroutine that runs Start. *)

(* The cache calls Start once; of two calls the CompareAndSwap of running  *)
(* would refuse the second at once, which changes nothing.                 *)
Start ==
  /\ pc = "init"
  /\ pc' = "select"
  /\ UNCHANGED <<now, exps, refs, callerVars, wakeup, cnow, objs, exp, ctxDone>>

(* case <-wakeup *)
Wakeup ==
  /\ pc = "select"
  /\ wakeup # None
  /\ now >= wakeup
  /\ wakeup' = None
  /\ pc' = "clock"
  /\ UNCHANGED <<now, exps, refs, callerVars, cnow, objs, exp, ctxDone>>

(* case <-ctx.Done() *)
Done ==
  /\ pc = "select"
  /\ ctxDone
  /\ pc' = "stopped"
  /\ UNCHANGED <<now, exps, refs, callerVars, wakeup, cnow, objs, exp, ctxDone>>

(* c.clock.Now(), the argument of collect *)
ReadClock ==
  /\ pc = "clock"
  /\ cnow' = now
  /\ pc' = "collect"
  /\ UNCHANGED <<now, exps, refs, callerVars, wakeup, objs, exp, ctxDone>>

(* Mutant: collect reports the next expiry only when it collected nothing. *)
CollectNoNext ==
  /\ pc = "collect"
  /\ LET n  == ExpiredLen(exps, cnow)
         ks == Matching(exps, refs, n)
     IN  /\ objs' = {refs[k].obj : k \in ks}
         /\ exp' = IF n < Len(exps) /\ ks = {} THEN exps[n + 1].at ELSE None
         /\ refs' = [k \in Keys |-> IF k \in ks THEN NoRef ELSE refs[k]]
         /\ exps' = SubSeq(exps, n + 1, Len(exps))
         /\ due' = [k \in Keys |-> IF k \in ks THEN 0 ELSE due[k]]
         /\ lowered' = lowered \cap KeysOf(exps')
         /\ pc' = IF ks = {} THEN "arm" ELSE "clean"
  /\ cnow' = 0
  /\ UNCHANGED <<now, call, wakeup, ctxDone>>

(* Mutant: the entry of refs is deleted before its object is appended. *)
CollectDeletesFirst ==
  /\ pc = "collect"
  /\ LET n  == ExpiredLen(exps, cnow)
         ks == Matching(exps, refs, n)
     IN  /\ refs' = [k \in Keys |-> IF k \in ks THEN NoRef ELSE refs[k]]
         /\ objs' = {refs'[k].obj : k \in ks}
         /\ exp' = IF n < Len(exps) THEN exps[n + 1].at ELSE None
         /\ exps' = SubSeq(exps, n + 1, Len(exps))
         /\ due' = [k \in Keys |-> IF k \in ks THEN 0 ELSE due[k]]
         /\ lowered' = lowered \cap KeysOf(exps')
         /\ pc' = IF ks = {} THEN "arm" ELSE "clean"
  /\ cnow' = 0
  /\ UNCHANGED <<now, call, wakeup, ctxDone>>

(* collect, under the mutex.  Its argument is not used after it returns.    *)
Collect ==
  /\ pc = "collect"
  /\ LET n  == ExpiredLen(exps, cnow)
         ks == Matching(exps, refs, n)
     IN  /\ objs' = {refs[k].obj : k \in ks}
         /\ exp' = IF n < Len(exps) THEN exps[n + 1].at ELSE None
         /\ refs' = [k \in Keys |-> IF k \in ks THEN NoRef ELSE refs[k]]
         /\ exps' = SubSeq(exps, n + 1, Len(exps))
         /\ due' = [k \in Keys |-> IF k \in ks THEN 0 ELSE due[k]]
         /\ lowered' = lowered \cap KeysOf(exps')
         /\ pc' = IF ks = {} THEN "arm" ELSE "clean"
  /\ cnow' = 0
  /\ UNCHANGED <<now, call, wakeup, ctxDone>>

(* cleanFn succeeds. *)
Clean ==
  /\ pc = "clean"
  /\ objs' = {}
  /\ pc' = "arm"
  /\ UNCHANGED <<now, exps, refs, callerVars, wakeup, cnow, exp, ctxDone>>

(* cleanFn fails: Start returns the error, which stops the cache. *)
CleanFails ==
  /\ pc = "clean"
  /\ pc' = "stopped"
  /\ UNCHANGED <<now, exps, refs, callerVars, wakeup, cnow, objs, exp, ctxDone>>

(* The timer for the next expiry, at least a tick from now.  A timer beyond *)
(* the bound on the clock fires at the bound.                              *)
Later(t) == IF t < Horizon THEN t ELSE Horizon

Arm ==
  /\ pc = "arm"
  /\ wakeup' = IF exp = None THEN wakeup
               ELSE Later(IF exp - now < TickInterval THEN now + TickInterval
                                                      ELSE exp)
  /\ pc' = "select"
  /\ exp' = None
  /\ UNCHANGED <<now, exps, refs, callerVars, cnow, objs, ctxDone>>

(* The context is cancelled (the session expired, or another part of the   *)
(* cache failed).                                                          *)
Cancel ==
  /\ ~ctxDone
  /\ ctxDone' = TRUE
  /\ UNCHANGED <<now, exps, refs, callerVars, loopVars>>

-----------------------------------------------------------------------------
Schedule(c) ==
  \/ \E o \in Objs, d \in Durations : ScheduleNow(c, o, d)
  \/ ScheduleAdd(c)
  \/ ScheduleSignal(c)

Loop == Start \/ Wakeup \/ Done \/ ReadClock \/ Collect \/ Clean \/ CleanFails \/ Arm

Next == Tick \/ Cancel \/ Loop \/ \E c \in Callers : Schedule(c)

Spec == Init /\ [][Next]_vars

(* The Go scheduler runs every goroutine that can run, and time passes.    *)
(* Nothing obliges a caller to call Schedule, or anyone to cancel.         *)
Fairness ==
  /\ WF_vars(Tick)
  /\ WF_vars(Loop)
  /\ \A c \in Callers : WF_vars(ScheduleAdd(c) \/ ScheduleSignal(c))

FairSpec == Spec /\ Fairness

-----------------------------------------------------------------------------
TypeOK ==
  /\ now \in 0..Horizon
  /\ exps \in Seq(ExpKey)
  /\ refs \in [Keys -> ExpRef]
  /\ \A k \in Keys : refs[k].gen # 0 => refs[k].obj \in Objs
  /\ call \in [Callers -> Call]
  /\ \A c \in Callers : call[c].step # "idle" => call[c].at \in Nat /\ call[c].obj \in Objs
  /\ pc \in PC
  /\ wakeup \in Nat \cup {None}
  /\ cnow \in Nat
  /\ objs \subseteq Objs
  /\ exp \in Nat \cup {None}
  /\ ctxDone \in BOOLEAN
  /\ due \in [Keys -> Nat]
  /\ lowered \subseteq Keys

(* The slice stays strictly ordered by expiry and key whatever the order in *)
(* which concurrent Schedule calls reach the mutex: the binary search of   *)
(* add, its duplicate test and collect's early return all assume it.       *)
ExpsSorted ==
  \A i, j \in 1..Len(exps) : i < j => Before(exps[i], exps[j])

(* No object is held for ever by accident: whenever refs holds an object,  *)
(* exps still has the entry of the same key and generation that will       *)
(* collect it, in spite of skipped duplicates and of entries collect drops. *)
RefHasExp ==
  \A k \in Keys : refs[k].gen # 0 =>
    \E i \in 1..Len(exps) : exps[i].key = k /\ exps[i].gen = refs[k].gen

(* The comment of the cleaner (cleaner.go:81-83) names the one way in which *)
(* an entry can dangle: its object was "rescheduled at a lower time".  For *)
(* every other key an entry belongs to a ref that is still there, is not   *)
(* due later than its last schedule, and if it has the ref's generation it *)
(* is the entry of that last schedule.                                     *)
NoDangling ==
  \A i \in 1..Len(exps) :
    LET e == exps[i] IN
      e.key \notin lowered =>
        /\ refs[e.key].gen # 0
        /\ e.gen <= refs[e.key].gen
        /\ e.at <= due[e.key]
        /\ e.gen = refs[e.key].gen => e.at = due[e.key]

(* A cleanup is unexpected only in the way the comment describes: an object *)
(* whose key has not been rescheduled at a lower time leaves refs only if  *)
(* the time that the last Schedule call for the key asked for has passed,  *)
(* however the calls interleave, whatever duplicates add skips, and though *)
(* the generations of a key start again whenever it is collected.          *)
OnlyLoweredEarly ==
  [][\A k \in Keys \ lowered :
       refs[k].gen # 0 /\ refs'[k].gen = 0 => due[k] <= cnow]_vars

(* "Only the last schedule being respected" (cleaner.go:80), without that   *)
(* exception, which the code need not deal with "since we're only          *)
(* scheduling cleanups at a constant interval" (cleaner.go:84-86).         *)
LastScheduleRespected ==
  [][\A k \in Keys : refs[k].gen # 0 /\ refs'[k].gen = 0 => due[k] <= cnow]_vars

(* Once Start waits with a timer set, everything that is scheduled then is *)
(* cleaned: a signal lost later delays nothing for ever.                   *)
TimerDrains ==
  \A k \in Keys :
    (refs[k].gen # 0 /\ pc = "select" /\ wakeup # None)
      ~> (refs[k].gen = 0 \/ pc = "stopped")
=============================================================================
