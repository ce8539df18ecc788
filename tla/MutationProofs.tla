--------------------------- MODULE MutationProofs ---------------------------
(***************************************************************************)
(* Proofs about Mutation for any calls and operations, any number of       *)
(* attempts and of writes by other clients.                                *)
(***************************************************************************)
EXTENDS Mutation, FiniteSetTheorems, TLAPS

-----------------------------------------------------------------------------
(* The inductive invariant.                                                *)

(* A call is between two attempts only while it may make one more, and at  *)
(* most one doubt is raised by each attempt.                               *)
Pace ==
  /\ rev # 0
  /\ \A c \in Calls :
       /\ pc[c] = "read" => attempt[c] = 0
       /\ pc[c] = "try"  => attempt[c] < Steps
       /\ pc[c] = "wait" => doubts[c] < attempt[c]
       /\ doubts[c] <= attempt[c]

(* Only a call that waits has an answer, and only one that has returned a  *)
(* result.                                                                 *)
Waiting ==
  \A c \in Calls :
    /\ pc[c] # "wait" => answer[c] = NoAnswer
    /\ pc[c] # "returned" => result[c] = "none"

(* A request on its way carries the resource version that the caller has   *)
(* read, however old it is.                                                *)
OnTheWay ==
  /\ IsFiniteSet(net)
  /\ \A m \in net : pc[m.call] # "read" /\ m.rv = seen[m.call]
  /\ \A c \in Calls : pc[c] = "read" => took[c] = {} /\ replaced[c] = {}

(* What the server tells a call that it has done is in the call's history. *)
Done(c) == IF op[c] = "delete" THEN took[c] # {} ELSE got[c] \in took[c]

Told ==
  \A c \in Calls :
    /\ answer[c].is = "ok" => answer[c].rv \in took[c]
    /\ answer[c].is = "NotFound" /\ op[c] = "delete" => took[c] # {}
    /\ pc[c] = "convert" \/ result[c] = "ok" => Done(c)

(* Once an update with a resource version has been carried out, the object *)
(* is never at that version again.                                         *)
Once(c) ==
  op[c] = "update" /\ seen[c] # Absent =>
    /\ replaced[c] \subseteq {seen[c]}
    /\ took[c] = {} \/ (object # seen[c] /\ \E r \in 1..rev : took[c] = {r})

(* The attempt in progress may have one effect more than the doubts allow  *)
(* for, until it has been refused.                                         *)
Allowance(c) ==
  IF pc[c] \in {"read", "try"} \/ answer[c].is \in Refusals THEN 0 ELSE 1

Budget(c) ==
  op[c] # "delete" =>
    Cardinality(took[c]) + Cardinality(InFlight(c)) <= doubts[c] + Allowance(c)

IInv ==
  /\ TypeOK /\ Pace /\ Waiting /\ OnTheWay /\ Told
  /\ \A c \in Calls : Once(c)
  /\ \A c \in Calls : Budget(c)
-----------------------------------------------------------------------------
(* Return and Failed change pc and result of one call.                     *)
LEMMA ReturnEffect ==
  ASSUME TypeOK, NEW c \in Calls, NEW r \in {"ok", "error"}, Return(c, r)
  PROVE  /\ pc' \in [Calls -> {"read", "try", "wait", "convert", "returned"}]
         /\ result' \in [Calls -> {"none", "ok", "error"}]
         /\ pc'[c] = "returned" /\ result'[c] = r
         /\ \A q \in Calls : q # c => pc'[q] = pc[q] /\ result'[q] = result[q]
BY DEF Return, TypeOK

LEMMA FailedEffect ==
  ASSUME TypeOK, NEW c \in Calls, NEW err, Failed(c, err)
  PROVE  /\ pc' \in [Calls -> {"read", "try", "wait", "convert", "returned"}]
         /\ result' \in [Calls -> {"none", "ok", "error"}]
         /\ \/ pc'[c] = "try" /\ attempt[c] < Steps /\ result'[c] = result[c]
            \/ pc'[c] = "convert" /\ Ignored(c, err) /\ result'[c] = result[c]
            \/ pc'[c] = "returned" /\ result'[c] = "error"
         /\ \A q \in Calls : q # c => pc'[q] = pc[q] /\ result'[q] = result[q]
<1>1. CASE IsRetriable(err) /\ attempt[c] < Steps
  BY <1>1 DEF Failed, TypeOK
<1>2. CASE ~(IsRetriable(err) /\ attempt[c] < Steps) /\ Ignored(c, err)
  BY <1>2 DEF Failed, TypeOK
<1>3. CASE ~(IsRetriable(err) /\ attempt[c] < Steps) /\ ~Ignored(c, err)
  BY <1>3, ReturnEffect DEF Failed
<1> QED
  BY <1>1, <1>2, <1>3

(* The types after a step that keeps or increases rev.                     *)
LEMMA Growing ==
  ASSUME TypeOK, NEW v \in Nat, v >= rev
  PROVE  /\ seen \in [Calls -> 0..v] /\ got \in [Calls -> 0..v]
         /\ object \in 0..v
         /\ answer \in [Calls -> [is : Refusals \cup {"none", "ok"}, rv : 0..v]]
         /\ net \subseteq [call : Calls, n : 1..Steps, rv : 0..v]
         /\ took \in [Calls -> SUBSET (1..v)] /\ replaced \in [Calls -> SUBSET (1..v)]
<1>1. 0..rev \subseteq 0..v /\ 1..rev \subseteq 1..v
  BY DEF TypeOK
<1>2. Request \subseteq [call : Calls, n : 1..Steps, rv : 0..v]
  BY <1>1 DEF Request
<1>3. Answer \subseteq [is : Refusals \cup {"none", "ok"}, rv : 0..v]
  BY <1>1 DEF Answer
<1>4. answer \in [Calls -> Answer] /\ net \subseteq Request
  BY DEF TypeOK
<1>5. answer \in [Calls -> [is : Refusals \cup {"none", "ok"}, rv : 0..v]]
  BY <1>3, <1>4
<1>6. net \subseteq [call : Calls, n : 1..Steps, rv : 0..v]
  BY <1>2, <1>4
<1>7. /\ seen \in [Calls -> 0..v] /\ got \in [Calls -> 0..v] /\ object \in 0..v
  BY <1>1 DEF TypeOK
<1>8. took \in [Calls -> SUBSET (1..v)] /\ replaced \in [Calls -> SUBSET (1..v)]
  <2>1. SUBSET (1..rev) \subseteq SUBSET (1..v)
    BY <1>1
  <2> QED
    BY <2>1 DEF TypeOK
<1> QED
  BY <1>5, <1>6, <1>7, <1>8

(* An answer reaches at most the call that made the request, which waits.  *)
LEMMA ReplyEffect ==
  ASSUME TypeOK, NEW m \in net, NEW is \in Refusals \cup {"ok"}, NEW v \in Nat, Reply(m, is, v),
         rev' \in Nat, rev <= rev', v <= rev'
  PROVE  /\ answer' \in [Calls -> Answer']
         /\ \/ answer' = answer
            \/ pc[m.call] = "wait" /\ answer'[m.call] = [is |-> is, rv |-> v]
         /\ \A q \in Calls : q # m.call => answer'[q] = answer[q]
<1>1. m.call \in Calls
  BY DEF TypeOK, Request
<1>2. answer \in [Calls -> Answer']
  BY Growing DEF Answer
<1>3. [is |-> is, rv |-> v] \in Answer'
  BY DEF Answer
<1> QED
  BY <1>1, <1>2, <1>3 DEF Reply

(* What the server does when it carries a request out, or refuses it.      *)
LEMMA CarryOutEffect ==
  ASSUME TypeOK, NEW m \in net, CarryOut(m)
  PROVE  /\ m.call \in Calls /\ rev \in Nat
         /\ UNCHANGED <<op, seen, pc, attempt, got, result, doubts, others>>
         /\ rev' = rev + 1 /\ net' = net \ {m}
         /\ took' = [took EXCEPT ![m.call] = @ \cup {rev + 1}]
         /\ answer' \in [Calls -> Answer']
         /\ \/ answer' = answer
            \/ pc[m.call] = "wait" /\ answer'[m.call] = [is |-> "ok", rv |-> rev + 1]
         /\ \A q \in Calls : q # m.call => answer'[q] = answer[q]
         /\ object' \in {Absent, object, rev + 1}
         /\ op[m.call] = "update" => object' = rev + 1 /\ m.rv \in {Absent, object}
         /\ op[m.call] \in {"update", "overwrite"} => object # Absent
         /\ replaced' = IF op[m.call] \in {"update", "overwrite"}
                        THEN [replaced EXCEPT ![m.call] = @ \cup {object}] ELSE replaced
<1>1. m.call \in Calls /\ rev \in Nat
  BY DEF TypeOK, Request
<1>2. /\ UNCHANGED <<op, seen, pc, attempt, got, result, doubts, others>>
      /\ rev' = rev + 1 /\ net' = net \ {m}
      /\ took' = [took EXCEPT ![m.call] = @ \cup {rev + 1}]
      /\ replaced' = IF op[m.call] \in {"update", "overwrite"}
                     THEN [replaced EXCEPT ![m.call] = @ \cup {object}] ELSE replaced
  BY DEF CarryOut, callVars
<1>3. Reply(m, "ok", rev + 1)
  BY Zenon DEF CarryOut
<1>4. "ok" \in Refusals \cup {"ok"} /\ rev + 1 \in Nat /\ rev' \in Nat
      /\ rev <= rev' /\ rev + 1 <= rev'
  BY <1>1, <1>2
<1>5. /\ answer' \in [Calls -> Answer']
      /\ \/ answer' = answer
         \/ pc[m.call] = "wait" /\ answer'[m.call] = [is |-> "ok", rv |-> rev + 1]
      /\ \A q \in Calls : q # m.call => answer'[q] = answer[q]
  BY <1>3, <1>4, ReplyEffect, Zenon
<1>6. object' \in {Absent, object, rev + 1}
  BY DEF CarryOut
<1>7. op[m.call] = "update" => object' = rev + 1 /\ m.rv \in {Absent, object}
  BY DEF CarryOut, Refusal
<1>8. op[m.call] \in {"update", "overwrite"} => object # Absent
  BY DEF CarryOut, Refusal
<1> QED
  BY <1>1, <1>2, <1>5, <1>6, <1>7, <1>8

LEMMA RefuseEffect ==
  ASSUME TypeOK, NEW m \in net, Refuse(m)
  PROVE  \E why \in Refusals :
         /\ m.call \in Calls /\ rev \in Nat
         /\ UNCHANGED <<op, seen, pc, attempt, got, result, doubts, object, rev, others, replaced>>
         /\ net' = net \ {m}
         /\ took' = IF Ignored(m.call, why) THEN [took EXCEPT ![m.call] = @ \cup {rev}] ELSE took
         /\ answer' \in [Calls -> Answer']
         /\ \/ answer' = answer
            \/ pc[m.call] = "wait" /\ answer'[m.call] = [is |-> why, rv |-> rev]
         /\ \A q \in Calls : q # m.call => answer'[q] = answer[q]
<1> DEFINE why == IF Refusal(m) = "none" THEN "Invalid" ELSE Refusal(m)
<1>1. m.call \in Calls /\ rev \in Nat /\ why \in Refusals
  BY DEF TypeOK, Request, Refusal, Refusals
<1>2. /\ UNCHANGED <<op, seen, pc, attempt, got, result, doubts, object, rev, others, replaced>>
      /\ net' = net \ {m}
      /\ took' = IF Ignored(m.call, why) THEN [took EXCEPT ![m.call] = @ \cup {rev}] ELSE took
  BY DEF Refuse, callVars
<1>3. Reply(m, why, rev)
  BY Zenon DEF Refuse
<1> HIDE DEF why
<1>4. why \in Refusals \cup {"ok"} /\ rev' \in Nat /\ rev <= rev'
  BY <1>1, <1>2
<1>5. /\ answer' \in [Calls -> Answer']
      /\ \/ answer' = answer
         \/ pc[m.call] = "wait" /\ answer'[m.call] = [is |-> why, rv |-> rev]
      /\ \A q \in Calls : q # m.call => answer'[q] = answer[q]
  BY <1>1, <1>3, <1>4, ReplyEffect, Zenon
<1> QED
  BY <1>1, <1>2, <1>5

-----------------------------------------------------------------------------
(* Types and pace.                                                         *)

LEMMA TypeInit == Init => TypeOK /\ Pace
<1> SUFFICES ASSUME Init PROVE TypeOK /\ Pace
  OBVIOUS
<1> USE MutationAssumption
<1>1. /\ seen \in [Calls -> 0..rev] /\ got \in [Calls -> 0..rev] /\ object \in 0..rev
      /\ rev = 1 /\ rev \in Nat
  BY DEF Init, Absent
<1>2. attempt \in [Calls -> 0..Steps] /\ doubts \in [Calls -> 0..Steps] /\ others \in 0..MaxOthers
  BY DEF Init
<1>3. answer \in [Calls -> Answer]
  BY DEF Init, Answer, NoAnswer, Absent
<1>4. TypeOK
  BY <1>1, <1>2, <1>3 DEF Init, TypeOK
<1> QED
  BY <1>4 DEF Init, Pace

LEMMA TypeInductive ==
  ASSUME TypeOK, Pace, [Next]_vars
  PROVE  TypeOK' /\ Pace'
<1> USE MutationAssumption
<1>1. ASSUME NEW c \in Calls, CallerReads(c) PROVE TypeOK' /\ Pace'
  <2>1. (IF op[c] = "update" THEN object ELSE Absent) \in 0..rev
    BY DEF TypeOK, Absent
  <2>2. seen' \in [Calls -> 0..rev]
    BY <1>1, <2>1 DEF CallerReads, TypeOK
  <2>3. /\ UNCHANGED <<op, attempt, answer, got, result, doubts, net, object, rev, others, took, replaced>>
        /\ pc' = [pc EXCEPT ![c] = "try"] /\ pc[c] = "read"
    BY <1>1 DEF CallerReads, serverVars
  <2>4. TypeOK'
    BY <2>2, <2>3 DEF TypeOK, Request, Answer
  <2>5. Pace'
    BY <2>3 DEF Pace, TypeOK
  <2> QED
    BY <2>4, <2>5
<1>2. ASSUME NEW c \in Calls, PrepareFails(c) \/ ConvertFails(c) \/ Convert(c)
      PROVE TypeOK' /\ Pace'
  <2>1. /\ UNCHANGED <<op, seen, attempt, answer, got, doubts, net, object, rev, others, took, replaced>>
        /\ \E r \in {"ok", "error"} : Return(c, r)
    BY <1>2 DEF PrepareFails, ConvertFails, Convert, serverVars
  <2>2. /\ pc' \in [Calls -> {"read", "try", "wait", "convert", "returned"}]
        /\ result' \in [Calls -> {"none", "ok", "error"}]
        /\ pc'[c] = "returned" /\ \A q \in Calls : q # c => pc'[q] = pc[q]
    BY <2>1, ReturnEffect
  <2>3. TypeOK'
    BY <2>1, <2>2 DEF TypeOK, Request, Answer
  <2>4. Pace'
    BY <2>1, <2>2 DEF Pace
  <2> QED
    BY <2>3, <2>4
<1>3. ASSUME NEW c \in Calls, Try(c) PROVE TypeOK' /\ Pace'
  <2>1. /\ UNCHANGED <<op, seen, answer, got, result, doubts, object, rev, others, took, replaced>>
        /\ pc' = [pc EXCEPT ![c] = "wait"] /\ pc[c] = "try" /\ attempt[c] < Steps
        /\ attempt' = [attempt EXCEPT ![c] = @ + 1] /\ attempt[c] \in 0..Steps
    BY <1>3 DEF Try, Pace, TypeOK
  <2>2. [call |-> c, n |-> attempt[c] + 1, rv |-> Precondition(c)] \in Request
    BY <2>1 DEF Request, Precondition, TypeOK
  <2>3. net' \subseteq Request
    BY <1>3, <2>2 DEF Try, TypeOK
  <2>4. attempt' \in [Calls -> 0..Steps]
    BY <2>1 DEF TypeOK
  <2>5. pc' \in [Calls -> {"read", "try", "wait", "convert", "returned"}]
    BY <2>1 DEF TypeOK
  <2>6. TypeOK'
    BY <2>1, <2>3, <2>4, <2>5 DEF TypeOK, Request, Answer
  <2>7. Pace'
    <3>1. rev' # 0
      BY <2>1 DEF Pace
    <3>2. doubts[c] < attempt'[c] /\ pc'[c] = "wait"
      BY <2>1 DEF Pace, TypeOK
    <3>3. \A q \in Calls : q # c => pc'[q] = pc[q] /\ attempt'[q] = attempt[q]
      BY <2>1 DEF TypeOK
    <3> QED
      BY <2>1, <2>4, <3>1, <3>2, <3>3 DEF Pace, TypeOK
  <2> QED
    BY <2>6, <2>7
<1>4. ASSUME NEW c \in Calls, Refused(c) PROVE TypeOK' /\ Pace'
  <2>1. /\ UNCHANGED <<op, seen, attempt, got, doubts, net, object, rev, others, took, replaced>>
        /\ answer' = [answer EXCEPT ![c] = NoAnswer]
        /\ \E err : Failed(c, err)
    BY <1>4 DEF Refused, serverVars
  <2>2. /\ pc' \in [Calls -> {"read", "try", "wait", "convert", "returned"}]
        /\ result' \in [Calls -> {"none", "ok", "error"}]
        /\ pc'[c] \in {"try", "convert", "returned"} /\ (pc'[c] = "try" => attempt[c] < Steps)
        /\ \A q \in Calls : q # c => pc'[q] = pc[q]
    BY <2>1, FailedEffect
  <2>3. NoAnswer \in Answer
    BY DEF NoAnswer, Answer, Absent, TypeOK
  <2>4. answer' \in [Calls -> Answer]
    BY <2>1, <2>3 DEF TypeOK
  <2>5. TypeOK'
    BY <2>1, <2>2, <2>4 DEF TypeOK, Request, Answer
  <2>6. Pace'
    BY <2>1, <2>2 DEF Pace
  <2> QED
    BY <2>5, <2>6
<1>5. ASSUME NEW c \in Calls, InDoubt(c) PROVE TypeOK' /\ Pace'
  <2>1. /\ UNCHANGED <<op, seen, attempt, got, net, object, rev, others, took, replaced>>
        /\ answer' = [answer EXCEPT ![c] = NoAnswer]
        /\ doubts' = [doubts EXCEPT ![c] = @ + 1]
        /\ pc[c] = "wait" /\ \E err : Failed(c, err)
    BY <1>5 DEF InDoubt, serverVars
  <2>2. /\ pc' \in [Calls -> {"read", "try", "wait", "convert", "returned"}]
        /\ result' \in [Calls -> {"none", "ok", "error"}]
        /\ pc'[c] \in {"try", "convert", "returned"} /\ (pc'[c] = "try" => attempt[c] < Steps)
        /\ \A q \in Calls : q # c => pc'[q] = pc[q]
    BY <2>1, FailedEffect
  <2>3. NoAnswer \in Answer
    BY DEF NoAnswer, Answer, Absent, TypeOK
  <2>4. answer' \in [Calls -> Answer]
    BY <2>1, <2>3 DEF TypeOK
  <2>5. /\ doubts[c] \in 0..Steps /\ attempt[c] \in 0..Steps /\ doubts[c] < attempt[c]
    BY <2>1 DEF TypeOK, Pace
  <2>6. doubts' \in [Calls -> 0..Steps] /\ doubts'[c] <= attempt[c]
    BY <2>1, <2>5 DEF TypeOK
  <2>7. TypeOK'
    BY <2>1, <2>2, <2>4, <2>6 DEF TypeOK, Request, Answer
  <2>8. \A q \in Calls : q # c => doubts'[q] = doubts[q]
    BY <2>1 DEF TypeOK
  <2>9. Pace'
    BY <2>1, <2>2, <2>6, <2>8 DEF Pace
  <2> QED
    BY <2>7, <2>9
<1>6. ASSUME NEW c \in Calls, Succeeds(c) PROVE TypeOK' /\ Pace'
  <2>1. /\ UNCHANGED <<op, seen, attempt, result, doubts, net, object, rev, others, took, replaced>>
        /\ pc' = [pc EXCEPT ![c] = "convert"]
        /\ got' = [got EXCEPT ![c] = answer[c].rv]
        /\ answer' = [answer EXCEPT ![c] = NoAnswer]
    BY <1>6 DEF Succeeds, serverVars
  <2>2. NoAnswer \in Answer /\ answer[c].rv \in 0..rev
    BY DEF NoAnswer, Answer, Absent, TypeOK
  <2>3. answer' \in [Calls -> Answer] /\ got' \in [Calls -> 0..rev]
    BY <2>1, <2>2 DEF TypeOK
  <2>4. TypeOK'
    BY <2>1, <2>3 DEF TypeOK, Request, Answer
  <2>5. Pace'
    BY <2>1 DEF Pace, TypeOK
  <2> QED
    BY <2>4, <2>5
<1>7. ASSUME NEW m \in net, CarryOut(m) PROVE TypeOK' /\ Pace'
  <2> DEFINE c == m.call
  <2>1. /\ c \in Calls /\ rev \in Nat /\ rev' = rev + 1 /\ net' = net \ {m}
        /\ UNCHANGED <<op, seen, pc, attempt, got, result, doubts, others>>
        /\ took' = [took EXCEPT ![c] = @ \cup {rev + 1}]
        /\ answer' \in [Calls -> Answer']
        /\ object' \in {Absent, object, rev + 1}
        /\ op[c] \in {"update", "overwrite"} => object # Absent
        /\ replaced' = IF op[c] \in {"update", "overwrite"}
                       THEN [replaced EXCEPT ![c] = @ \cup {object}] ELSE replaced
    BY <1>7, CarryOutEffect
  <2>2. object \in 0..rev /\ object' \in 0..rev'
    BY <2>1 DEF TypeOK, Absent
  <2>0. /\ took \in [Calls -> SUBSET (1..rev')] /\ replaced \in [Calls -> SUBSET (1..rev')]
        /\ seen \in [Calls -> 0..rev'] /\ got \in [Calls -> 0..rev']
        /\ net \subseteq [call : Calls, n : 1..Steps, rv : 0..rev']
    <3>1. rev' \in Nat /\ rev' >= rev
      BY <2>1
    <3> QED
      BY <3>1, Growing
  <2>3. took' \in [Calls -> SUBSET (1..rev')]
    <3>1. rev + 1 \in 1..rev'
      BY <2>1
    <3> QED
      BY <2>1, <2>0, <3>1
  <2>4. replaced' \in [Calls -> SUBSET (1..rev')]
    <3>1. op[c] \in {"update", "overwrite"} => object \in 1..rev'
      BY <2>1, <2>2 DEF Absent
    <3> QED
      BY <2>1, <2>0, <3>1
  <2>5. TypeOK'
    BY <2>1, <2>2, <2>3, <2>4, <2>0 DEF TypeOK, Request
  <2>6. Pace'
    BY <2>1 DEF Pace
  <2> QED
    BY <2>5, <2>6
<1>8. ASSUME NEW m \in net, Refuse(m) PROVE TypeOK' /\ Pace'
  <2>1. PICK why \in Refusals :
          /\ m.call \in Calls /\ rev \in Nat
          /\ UNCHANGED <<op, seen, pc, attempt, got, result, doubts, object, rev, others, replaced>>
          /\ net' = net \ {m}
          /\ took' = IF Ignored(m.call, why) THEN [took EXCEPT ![m.call] = @ \cup {rev}] ELSE took
          /\ answer' \in [Calls -> Answer']
    BY <1>8, RefuseEffect
  <2>2. took' \in [Calls -> SUBSET (1..rev)]
    <3>1. rev \in 1..rev
      BY <2>1 DEF Pace
    <3> QED
      BY <2>1, <3>1 DEF TypeOK
  <2>3. TypeOK'
    BY <2>1, <2>2 DEF TypeOK, Request
  <2>4. Pace'
    BY <2>1 DEF Pace
  <2> QED
    BY <2>3, <2>4
<1>9. CASE OtherWrites
  <2>1. /\ UNCHANGED <<op, seen, pc, attempt, answer, got, result, doubts, net, took, replaced>>
        /\ rev \in Nat /\ rev' = rev + 1 /\ object' \in 0..rev' /\ others' \in 0..MaxOthers
    BY <1>9 DEF OtherWrites, callVars, TypeOK, Absent
  <2>2. /\ seen \in [Calls -> 0..rev'] /\ got \in [Calls -> 0..rev']
        /\ answer \in [Calls -> [is : Refusals \cup {"none", "ok"}, rv : 0..rev']]
        /\ net \subseteq [call : Calls, n : 1..Steps, rv : 0..rev']
        /\ took \in [Calls -> SUBSET (1..rev')] /\ replaced \in [Calls -> SUBSET (1..rev')]
    BY <2>1, Growing
  <2>3. TypeOK'
    BY <2>1, <2>2 DEF TypeOK, Request, Answer
  <2>4. Pace'
    BY <2>1 DEF Pace
  <2> QED
    BY <2>3, <2>4
<1>10. CASE UNCHANGED vars
  BY <1>10 DEF vars, TypeOK, Pace, Request, Answer
<1> QED
  BY <1>1, <1>2, <1>3, <1>4, <1>5, <1>6, <1>7, <1>8, <1>9, <1>10
     DEF Next, Resolver, Server

-----------------------------------------------------------------------------
(* The sets that are counted are finite.                                   *)

LEMMA Counted ==
  ASSUME TypeOK, OnTheWay, NEW c \in Calls
  PROVE  /\ IsFiniteSet(took[c]) /\ Cardinality(took[c]) \in Nat
         /\ IsFiniteSet(InFlight(c)) /\ Cardinality(InFlight(c)) \in Nat
         /\ doubts[c] \in Nat
<1>1. rev \in Nat /\ took[c] \in SUBSET (1..rev) /\ doubts[c] \in Nat
  BY DEF TypeOK
<1>2. IsFiniteSet(1..rev)
  BY <1>1, FS_Interval
<1>3. IsFiniteSet(took[c])
  BY <1>1, <1>2, FS_Subset
<1>4. InFlight(c) \in SUBSET net
  BY DEF InFlight
<1>5. IsFiniteSet(InFlight(c))
  BY <1>4, FS_Subset DEF OnTheWay
<1> QED
  BY <1>1, <1>3, <1>5, FS_CardinalityType

(* A request that leaves the network is one of its call's.                 *)
LEMMA OneLess ==
  ASSUME TypeOK, OnTheWay, NEW m \in net, net' = net \ {m}, NEW c \in Calls
  PROVE  Cardinality(InFlight(c)') =
           IF m.call = c THEN Cardinality(InFlight(c)) - 1 ELSE Cardinality(InFlight(c))
<1>1. CASE m.call = c
  <2>1. m \in InFlight(c) /\ InFlight(c)' = InFlight(c) \ {m}
    BY <1>1 DEF InFlight
  <2>2. Cardinality(InFlight(c) \ {m}) = Cardinality(InFlight(c)) - 1
    BY <2>1, Counted, FS_RemoveElement
  <2> QED
    BY <1>1, <2>1, <2>2
<1>2. CASE m.call # c
  <2>1. InFlight(c)' = InFlight(c)
    BY <1>2 DEF InFlight
  <2> QED
    BY <1>2, <2>1
<1> QED
  BY <1>1, <1>2

-----------------------------------------------------------------------------
(* The steps of the resolver preserve the invariant.                       *)

LEMMA InitIInv == Init => IInv
<1> SUFFICES ASSUME Init PROVE IInv
  OBVIOUS
<1>1. TypeOK /\ Pace
  BY TypeInit
<1>2. Waiting /\ Told /\ \A c \in Calls : Once(c)
  BY DEF Init, Waiting, Told, Done, Once, NoAnswer
<1>3. OnTheWay
  BY FS_EmptySet DEF Init, OnTheWay
<1>4. ASSUME NEW c \in Calls PROVE Budget(c)
  <2>1. took[c] = {} /\ InFlight(c) = {} /\ doubts[c] = 0 /\ pc[c] = "read"
    BY DEF Init, InFlight
  <2>2. Cardinality(took[c]) = 0 /\ Cardinality(InFlight(c)) = 0
    BY <2>1, FS_EmptySet
  <2> QED
    BY <2>1, <2>2 DEF Budget, Allowance
<1> QED
  BY <1>1, <1>2, <1>3, <1>4 DEF IInv

(* A step that sends nothing, has no effect on the object and leaves the   *)
(* other calls alone disturbs the invariant at its own call only.          *)
LEMMA LocalStep ==
  ASSUME IInv, TypeOK', Pace', NEW c \in Calls,
         UNCHANGED <<op, seen, attempt, serverVars>>,
         \A q \in Calls : q # c => /\ pc'[q] = pc[q] /\ answer'[q] = answer[q]
                                   /\ got'[q] = got[q] /\ result'[q] = result[q]
                                   /\ doubts'[q] = doubts[q],
         pc[c] # "read", pc'[c] # "read",
         answer'[c] = NoAnswer,
         pc'[c] # "returned" => result'[c] = "none",
         pc'[c] = "convert" \/ result'[c] = "ok" => Done(c)',
         doubts[c] + Allowance(c) <= doubts'[c] + Allowance(c)'
  PROVE  IInv'
<1>1. /\ UNCHANGED <<op, seen, net, object, rev, took, replaced>>
  BY DEF serverVars
<1>2. Waiting'
  BY DEF Waiting, IInv
<1>3. OnTheWay'
  BY <1>1 DEF OnTheWay, IInv, TypeOK, Request
<1>4. Told'
  BY <1>1 DEF Told, Done, IInv, NoAnswer
<1>5. ASSUME NEW q \in Calls PROVE Once(q)'
  BY <1>1 DEF Once, IInv
<1>6. ASSUME NEW q \in Calls PROVE Budget(q)'
  <2>1. took'[q] = took[q] /\ InFlight(q)' = InFlight(q) /\ op'[q] = op[q]
    BY <1>1 DEF InFlight
  <2>2. Budget(q) /\ Cardinality(took[q]) \in Nat /\ Cardinality(InFlight(q)) \in Nat
    BY Counted DEF IInv
  <2>3. doubts[q] + Allowance(q) <= doubts'[q] + Allowance(q)'
    BY DEF Allowance, IInv, TypeOK
  <2>4. /\ doubts[q] \in Nat /\ doubts'[q] \in Nat
        /\ Allowance(q) \in Nat /\ Allowance(q)' \in Nat
    BY DEF Allowance, IInv, TypeOK
  <2> QED
    BY <2>1, <2>2, <2>3, <2>4 DEF Budget
<1> QED
  BY <1>2, <1>3, <1>4, <1>5, <1>6 DEF IInv

LEMMA ReadPreserves ==
  ASSUME IInv, TypeOK', Pace', NEW c \in Calls, CallerReads(c)
  PROVE  IInv'
<1>1. /\ UNCHANGED <<op, attempt, answer, got, result, doubts, net, object, rev, took, replaced>>
      /\ pc[c] = "read" /\ pc'[c] = "try"
      /\ \A q \in Calls : q # c => pc'[q] = pc[q] /\ seen'[q] = seen[q]
  BY DEF CallerReads, serverVars, IInv, TypeOK
<1>2. took[c] = {} /\ replaced[c] = {} /\ result[c] = "none" /\ answer[c] = NoAnswer
  BY <1>1 DEF IInv, OnTheWay, Waiting
<1>3. Waiting' /\ Told'
  BY <1>1, <1>2 DEF Waiting, Told, Done, IInv, NoAnswer
<1>4. OnTheWay'
  BY <1>1 DEF OnTheWay, IInv, TypeOK, Request
<1>5. ASSUME NEW q \in Calls PROVE Once(q)'
  BY <1>1, <1>2 DEF Once, IInv
<1>6. ASSUME NEW q \in Calls PROVE Budget(q)'
  <2>1. took'[q] = took[q] /\ InFlight(q)' = InFlight(q) /\ op'[q] = op[q] /\ doubts'[q] = doubts[q]
    BY <1>1 DEF InFlight
  <2>2. Allowance(q)' = Allowance(q)
    BY <1>1 DEF Allowance
  <2>3. Budget(q)
    BY DEF IInv
  <2> QED
    BY <2>1, <2>2, <2>3 DEF Budget
<1> QED
  BY <1>3, <1>4, <1>5, <1>6 DEF IInv

LEMMA TryPreserves ==
  ASSUME IInv, TypeOK', Pace', NEW c \in Calls, Try(c)
  PROVE  IInv'
<1> DEFINE m == [call |-> c, n |-> attempt[c] + 1, rv |-> Precondition(c)]
<1>1. /\ UNCHANGED <<op, seen, answer, got, result, doubts, object, rev, took, replaced>>
      /\ pc[c] = "try" /\ pc'[c] = "wait" /\ net' = net \cup {m}
      /\ \A q \in Calls : q # c => pc'[q] = pc[q]
  BY DEF Try, IInv, TypeOK
<1>2. m.call = c /\ m.rv = seen[c]
  BY DEF Precondition
<1> HIDE DEF m
<1>3. answer[c] = NoAnswer
  BY <1>1 DEF IInv, Waiting
<1>4. Waiting' /\ Told'
  BY <1>1 DEF Waiting, Told, Done, IInv
<1>5. OnTheWay'
  <2>1. IsFiniteSet(net')
    BY <1>1, FS_AddElement DEF IInv, OnTheWay
  <2>2. \A x \in net' : pc'[x.call] # "read" /\ x.rv = seen'[x.call]
    BY <1>1, <1>2 DEF IInv, OnTheWay, TypeOK, Request
  <2> QED
    BY <1>1, <2>1, <2>2 DEF OnTheWay, IInv
<1>6. ASSUME NEW q \in Calls PROVE Once(q)'
  BY <1>1 DEF Once, IInv
<1>7. ASSUME NEW q \in Calls PROVE Budget(q)'
  <2>1. took'[q] = took[q] /\ op'[q] = op[q] /\ doubts'[q] = doubts[q]
    BY <1>1
  <2>2. /\ Budget(q) /\ Cardinality(took[q]) \in Nat /\ doubts[q] \in Nat
        /\ IsFiniteSet(InFlight(q)) /\ Cardinality(InFlight(q)) \in Nat
    BY Counted DEF IInv
  <2>3. CASE q = c
    <3>1. InFlight(c)' = InFlight(c) \cup {m}
      BY <1>1, <1>2 DEF InFlight
    <3>2. Cardinality(InFlight(c) \cup {m}) <= Cardinality(InFlight(c)) + 1
      BY <2>2, <2>3, FS_AddElement
    <3>3. Allowance(c) = 0 /\ Allowance(c)' = 1
      BY <1>1, <1>3 DEF Allowance, NoAnswer, Refusals
    <3>4. Cardinality(InFlight(c) \cup {m}) \in Nat
      BY <2>2, <2>3, FS_AddElement, FS_CardinalityType
    <3> QED
      BY <2>1, <2>2, <2>3, <3>1, <3>2, <3>3, <3>4 DEF Budget
  <2>4. CASE q # c
    <3>1. InFlight(q)' = InFlight(q)
      BY <1>1, <1>2, <2>4 DEF InFlight
    <3>2. Allowance(q)' = Allowance(q)
      BY <1>1, <2>4 DEF Allowance
    <3> QED
      BY <2>1, <2>2, <3>1, <3>2 DEF Budget
  <2> QED
    BY <2>3, <2>4
<1> QED
  BY <1>4, <1>5, <1>6, <1>7 DEF IInv

LEMMA ResolverPreserves ==
  ASSUME IInv, TypeOK', Pace', NEW c \in Calls, Resolver(c)
  PROVE  IInv'
<1>0. doubts[c] \in Nat
  BY DEF IInv, TypeOK
<1>n. NoAnswer.is \notin Refusals
  BY DEF NoAnswer, Refusals
<1>1. CASE PrepareFails(c) \/ ConvertFails(c)
  <2>1. /\ UNCHANGED <<op, seen, attempt, answer, got, doubts, serverVars>>
        /\ pc[c] \in {"try", "convert"} /\ Return(c, "error")
    BY <1>1 DEF PrepareFails, ConvertFails
  <2>2. /\ pc'[c] = "returned" /\ result'[c] = "error"
        /\ \A q \in Calls : q # c => pc'[q] = pc[q] /\ result'[q] = result[q]
    BY <2>1, ReturnEffect DEF IInv
  <2>3. answer[c] = NoAnswer /\ answer'[c] = NoAnswer
    BY <2>1 DEF IInv, Waiting
  <2>4. doubts[c] + Allowance(c) <= doubts'[c] + Allowance(c)'
    BY <1>0, <1>n, <2>1, <2>2, <2>3 DEF Allowance
  <2> QED
    BY <2>1, <2>2, <2>3, <2>4, LocalStep
<1>2. CASE Convert(c)
  <2>1. /\ UNCHANGED <<op, seen, attempt, answer, got, doubts, serverVars>>
        /\ pc[c] = "convert" /\ Return(c, "ok")
    BY <1>2 DEF Convert
  <2>2. /\ pc'[c] = "returned" /\ result'[c] = "ok"
        /\ \A q \in Calls : q # c => pc'[q] = pc[q] /\ result'[q] = result[q]
    BY <2>1, ReturnEffect DEF IInv
  <2>3. answer[c] = NoAnswer /\ answer'[c] = NoAnswer
    BY <2>1 DEF IInv, Waiting
  <2>4. Done(c)'
    BY <2>1 DEF IInv, Told, Done, serverVars
  <2>5. doubts[c] + Allowance(c) <= doubts'[c] + Allowance(c)'
    BY <1>0, <1>n, <2>1, <2>2, <2>3 DEF Allowance
  <2> QED
    BY <2>1, <2>2, <2>3, <2>4, <2>5, LocalStep
<1>3. CASE Refused(c)
  <2>1. /\ UNCHANGED <<op, seen, attempt, got, doubts, serverVars>>
        /\ pc[c] = "wait" /\ answer[c].is \in Refusals /\ Failed(c, answer[c].is)
        /\ answer'[c] = NoAnswer /\ \A q \in Calls : q # c => answer'[q] = answer[q]
    BY <1>3 DEF Refused, IInv, TypeOK
  <2>2. /\ \/ pc'[c] = "try" /\ result'[c] = result[c]
           \/ pc'[c] = "convert" /\ Ignored(c, answer[c].is) /\ result'[c] = result[c]
           \/ pc'[c] = "returned" /\ result'[c] = "error"
        /\ \A q \in Calls : q # c => pc'[q] = pc[q] /\ result'[q] = result[q]
    BY <2>1, FailedEffect DEF IInv
  <2>3. result[c] = "none"
    BY <2>1 DEF IInv, Waiting
  <2>4. pc'[c] = "convert" => Done(c)'
    BY <2>1, <2>2 DEF IInv, Told, Done, Ignored, serverVars
  <2>5. doubts[c] + Allowance(c) <= doubts'[c] + Allowance(c)'
    BY <1>0, <2>1 DEF Allowance
  <2> QED
    BY <2>1, <2>2, <2>3, <2>4, <2>5, LocalStep
<1>4. CASE InDoubt(c)
  <2>1. PICK err \in Doubts : Failed(c, err)
    BY <1>4 DEF InDoubt
  <2>2. /\ UNCHANGED <<op, seen, attempt, got, serverVars>>
        /\ pc[c] = "wait" /\ doubts'[c] = doubts[c] + 1
        /\ answer'[c] = NoAnswer
        /\ \A q \in Calls : q # c => answer'[q] = answer[q] /\ doubts'[q] = doubts[q]
    BY <1>4 DEF InDoubt, IInv, TypeOK
  <2>3. ~Ignored(c, err)
    BY DEF Ignored, Doubts
  <2>4. /\ \/ pc'[c] = "try" /\ result'[c] = result[c]
           \/ pc'[c] = "returned" /\ result'[c] = "error"
        /\ \A q \in Calls : q # c => pc'[q] = pc[q] /\ result'[q] = result[q]
    BY <2>1, <2>3, FailedEffect DEF IInv
  <2>5. result[c] = "none"
    BY <2>2 DEF IInv, Waiting
  <2>6. doubts[c] + Allowance(c) <= doubts'[c] + Allowance(c)'
    BY <1>0, <2>2 DEF Allowance
  <2> QED
    BY <2>2, <2>4, <2>5, <2>6, LocalStep
<1>5. CASE Succeeds(c)
  <2>1. /\ UNCHANGED <<op, seen, attempt, result, doubts, serverVars>>
        /\ pc[c] = "wait" /\ answer[c].is = "ok" /\ pc'[c] = "convert"
        /\ got'[c] = answer[c].rv /\ answer'[c] = NoAnswer
        /\ \A q \in Calls : q # c => pc'[q] = pc[q] /\ answer'[q] = answer[q] /\ got'[q] = got[q]
    BY <1>5 DEF Succeeds, IInv, TypeOK
  <2>2. result[c] = "none"
    BY <2>1 DEF IInv, Waiting
  <2>3. Done(c)'
    BY <2>1 DEF IInv, Told, Done, serverVars
  <2>4. Allowance(c)' = 1 /\ Allowance(c) \in {0, 1}
    BY <1>n, <2>1 DEF Allowance
  <2>5. doubts[c] + Allowance(c) <= doubts'[c] + Allowance(c)'
    BY <1>0, <2>1, <2>4
  <2> QED
    BY <2>1, <2>2, <2>3, <2>5, LocalStep
<1> QED
  BY <1>1, <1>2, <1>3, <1>4, <1>5, ReadPreserves, TryPreserves DEF Resolver

-----------------------------------------------------------------------------
(* The steps of the server preserve the invariant.                         *)

LEMMA CarryOutPreserves ==
  ASSUME IInv, TypeOK', Pace', NEW m \in net, CarryOut(m)
  PROVE  IInv'
<1> DEFINE c == m.call
<1>1. /\ c \in Calls /\ rev \in Nat
      /\ UNCHANGED <<op, seen, pc, attempt, got, result, doubts>>
      /\ rev' = rev + 1 /\ net' = net \ {m}
      /\ took'[c] = took[c] \cup {rev + 1}
      /\ \A q \in Calls : q # c => took'[q] = took[q] /\ answer'[q] = answer[q]
      /\ \/ answer'[c] = answer[c]
         \/ pc[c] = "wait" /\ answer'[c] = [is |-> "ok", rv |-> rev + 1]
      /\ object' \in {Absent, object, rev + 1}
      /\ op[c] = "update" => object' = rev + 1 /\ m.rv \in {Absent, object}
      /\ replaced'[c] \subseteq replaced[c] \cup {object}
      /\ \A q \in Calls : q # c => replaced'[q] = replaced[q]
  <2>1. took \in [Calls -> SUBSET (1..rev)] /\ replaced \in [Calls -> SUBSET (1..rev)]
    BY DEF IInv, TypeOK
  <2> QED
    BY <2>1, CarryOutEffect DEF IInv
<1>2. pc[c] # "read" /\ m.rv = seen[c]
  BY DEF IInv, OnTheWay
<1>3. Waiting'
  BY <1>1 DEF Waiting, IInv
<1>4. OnTheWay'
  <2>1. IsFiniteSet(net')
    BY <1>1, FS_RemoveElement DEF IInv, OnTheWay
  <2> QED
    BY <1>1, <1>2, <2>1 DEF OnTheWay, IInv
<1>5. Told'
  <2>1. Told
    BY DEF IInv
  <2>2. ASSUME NEW q \in Calls
        PROVE  /\ answer'[q].is = "ok" => answer'[q].rv \in took'[q]
               /\ answer'[q].is = "NotFound" /\ op'[q] = "delete" => took'[q] # {}
               /\ pc'[q] = "convert" \/ result'[q] = "ok" => Done(q)'
    <3>1. CASE q # c
      BY <1>1, <2>1, <3>1 DEF Told, Done
    <3>2. CASE q = c
      BY <1>1, <2>1, <3>2 DEF Told, Done
    <3> QED
      BY <3>1, <3>2
  <2> QED
    BY <2>2 DEF Told
<1>6. ASSUME NEW q \in Calls PROVE Once(q)'
  <2>1. /\ Once(q) /\ seen[q] \in 0..rev /\ took[q] \subseteq 1..rev
        /\ \A r \in 1..rev : r \in 1..rev'
    BY <1>1 DEF IInv, TypeOK
  <2>2. object' = object \/ object' # seen[q] \/ seen[q] = Absent
    BY <1>1, <2>1 DEF Absent
  <2>3. CASE q # c
    BY <1>1, <2>1, <2>2, <2>3 DEF Once
  <2>4. CASE q = c
    <3> SUFFICES ASSUME op[c] = "update", seen[c] # Absent
                 PROVE  /\ replaced'[c] \subseteq {seen[c]}
                        /\ object' # seen[c] /\ \E r \in 1..rev' : took'[c] = {r}
      BY <1>1, <2>4 DEF Once
    <3>1. object = seen[c] /\ object' = rev + 1
      BY <1>1, <1>2
    <3>2. took[c] = {} /\ replaced[c] \subseteq {seen[c]}
      BY <2>1, <2>4, <3>1 DEF Once
    <3>3. took'[c] = {rev + 1} /\ rev + 1 \in 1..rev'
      BY <1>1, <3>2
    <3>4. object' # seen[c]
      BY <1>1, <2>1, <2>4, <3>1
    <3> QED
      BY <1>1, <3>1, <3>2, <3>3, <3>4
  <2> QED
    BY <2>3, <2>4
<1>7. ASSUME NEW q \in Calls PROVE Budget(q)'
  <2>1. /\ Budget(q) /\ IsFiniteSet(took[q]) /\ Cardinality(took[q]) \in Nat
        /\ Cardinality(InFlight(q)) \in Nat /\ doubts[q] \in Nat
    BY Counted DEF IInv
  <2>2. Cardinality(InFlight(q)') =
          IF q = c THEN Cardinality(InFlight(q)) - 1 ELSE Cardinality(InFlight(q))
    BY <1>1, OneLess DEF IInv
  <2>3. Cardinality(took'[q]) = IF q = c THEN Cardinality(took[q]) + 1 ELSE Cardinality(took[q])
    <3>1. rev + 1 \notin took[c]
      BY <1>1 DEF IInv, TypeOK
    <3>2. CASE q = c
      BY <1>1, <2>1, <3>1, <3>2, FS_AddElement
    <3> QED
      BY <1>1, <3>2
  <2>4. Allowance(q) <= Allowance(q)' /\ Allowance(q) \in Nat /\ Allowance(q)' \in Nat
    <3>1. "ok" \notin Refusals
      BY DEF Refusals
    <3> QED
      BY <1>1, <3>1 DEF Allowance
  <2> QED
    BY <1>1, <2>1, <2>2, <2>3, <2>4 DEF Budget
<1> QED
  BY <1>3, <1>4, <1>5, <1>6, <1>7 DEF IInv

LEMMA RefusePreserves ==
  ASSUME IInv, TypeOK', Pace', NEW m \in net, Refuse(m)
  PROVE  IInv'
<1> DEFINE c == m.call
<1>1. PICK why \in Refusals :
        /\ c \in Calls /\ rev \in Nat
        /\ UNCHANGED <<op, seen, pc, attempt, got, result, doubts, object, rev, others, replaced>>
        /\ net' = net \ {m}
        /\ took' = IF Ignored(c, why) THEN [took EXCEPT ![c] = @ \cup {rev}] ELSE took
        /\ answer' \in [Calls -> Answer']
        /\ \/ answer' = answer
           \/ pc[c] = "wait" /\ answer'[c] = [is |-> why, rv |-> rev]
        /\ \A q \in Calls : q # c => answer'[q] = answer[q]
  BY RefuseEffect DEF IInv
<1>2. /\ took'[c] = took[c] \/ (op[c] = "delete" /\ took'[c] = took[c] \cup {rev})
      /\ why = "NotFound" /\ op[c] = "delete" => took'[c] = took[c] \cup {rev}
      /\ \A q \in Calls : q # c => took'[q] = took[q]
  BY <1>1 DEF Ignored, IInv, TypeOK
<1>3. pc[c] # "read" /\ why # "ok"
  BY DEF IInv, OnTheWay, Refusals
<1>4. Waiting'
  BY <1>1 DEF Waiting, IInv
<1>5. OnTheWay'
  <2>1. IsFiniteSet(net')
    BY <1>1, FS_RemoveElement DEF IInv, OnTheWay
  <2> QED
    BY <1>1, <1>2, <1>3, <2>1 DEF OnTheWay, IInv
<1>6. Told'
  <2>1. Told
    BY DEF IInv
  <2>2. ASSUME NEW q \in Calls
        PROVE  /\ answer'[q].is = "ok" => answer'[q].rv \in took'[q]
               /\ answer'[q].is = "NotFound" /\ op'[q] = "delete" => took'[q] # {}
               /\ pc'[q] = "convert" \/ result'[q] = "ok" => Done(q)'
    <3>1. CASE q # c
      BY <1>1, <1>2, <2>1, <3>1 DEF Told, Done
    <3>2. CASE q = c
      BY <1>1, <1>2, <1>3, <2>1, <3>2 DEF Told, Done
    <3> QED
      BY <3>1, <3>2
  <2> QED
    BY <2>2 DEF Told
<1>7. ASSUME NEW q \in Calls PROVE Once(q)'
  BY <1>1, <1>2 DEF Once, IInv
<1>8. ASSUME NEW q \in Calls PROVE Budget(q)'
  <2>1. /\ Budget(q) /\ Cardinality(took[q]) \in Nat
        /\ Cardinality(InFlight(q)) \in Nat /\ doubts[q] \in Nat
    BY Counted DEF IInv
  <2>2. Cardinality(InFlight(q)') =
          IF q = c THEN Cardinality(InFlight(q)) - 1 ELSE Cardinality(InFlight(q))
    BY <1>1, OneLess DEF IInv
  <2>3. op[q] # "delete" => took'[q] = took[q]
    BY <1>2
  <2>4. /\ Allowance(q) \in {0, 1} /\ Allowance(q)' \in {0, 1}
        /\ q # c => Allowance(q)' = Allowance(q)
    BY <1>1 DEF Allowance
  <2> QED
    BY <1>1, <2>1, <2>2, <2>3, <2>4 DEF Budget
<1> QED
  BY <1>4, <1>5, <1>6, <1>7, <1>8 DEF IInv

LEMMA OtherWritesPreserves ==
  ASSUME IInv, TypeOK', Pace', OtherWrites
  PROVE  IInv'
<1>1. /\ UNCHANGED <<op, seen, pc, attempt, answer, got, result, doubts, net, took, replaced>>
      /\ rev \in Nat /\ rev' = rev + 1 /\ object' \in {Absent, rev + 1}
  BY DEF OtherWrites, callVars, IInv, TypeOK
<1>2. Waiting' /\ Told' /\ OnTheWay'
  BY <1>1 DEF Waiting, Told, Done, OnTheWay, IInv
<1>3. ASSUME NEW q \in Calls PROVE Once(q)'
  <2>1. Once(q) /\ seen[q] \in 0..rev /\ \A r \in 1..rev : r \in 1..rev'
    BY <1>1 DEF IInv, TypeOK
  <2>2. object' # seen[q] \/ seen[q] = Absent
    BY <1>1, <2>1 DEF Absent
  <2> QED
    BY <1>1, <2>1, <2>2 DEF Once
<1>4. ASSUME NEW q \in Calls PROVE Budget(q)'
  <2>1. InFlight(q)' = InFlight(q) /\ Allowance(q)' = Allowance(q)
    BY <1>1 DEF InFlight, Allowance
  <2> QED
    BY <1>1, <2>1 DEF Budget, IInv
<1> QED
  BY <1>2, <1>3, <1>4 DEF IInv

-----------------------------------------------------------------------------
LEMMA Invariant == Spec => []IInv
<1>1. ASSUME IInv, [Next]_vars PROVE IInv'
  <2>1. TypeOK' /\ Pace'
    BY <1>1, TypeInductive DEF IInv
  <2>2. ASSUME NEW c \in Calls, Resolver(c) PROVE IInv'
    BY <1>1, <2>1, <2>2, ResolverPreserves
  <2>3. ASSUME NEW m \in net, CarryOut(m) \/ Refuse(m) PROVE IInv'
    BY <1>1, <2>1, <2>3, CarryOutPreserves, RefusePreserves
  <2>4. CASE OtherWrites
    BY <1>1, <2>1, <2>4, OtherWritesPreserves
  <2>5. CASE UNCHANGED vars
    BY <1>1, <2>1, <2>5 DEF IInv, vars, Waiting, OnTheWay, Told, Done, Once, Budget, Allowance, InFlight
  <2> QED
    BY <1>1, <2>2, <2>3, <2>4, <2>5 DEF Next, Server
<1> QED
  BY <1>1, InitIInv, PTL DEF Spec

(* The variables of the mutations keep their types: in particular no call  *)
(* makes more attempts than retry.OnError allows.                          *)
THEOREM TypeCorrect == Spec => []TypeOK
<1>1. IInv => TypeOK
  BY DEF IInv
<1> QED
  BY <1>1, Invariant, PTL

(* A mutation that reports success reports what one of its own requests    *)
(* has done, whatever earlier attempts and other clients do.               *)
THEOREM SuccessIsTheCalls == Spec => []SuccessIsOwn
<1>1. IInv => SuccessIsOwn
  BY DEF IInv, Told, Done, SuccessIsOwn
<1> QED
  BY <1>1, Invariant, PTL

(* The resource version that updateKubernetesResource sends on every       *)
(* attempt keeps a late or repeated request from replacing what others     *)
(* have written, and from taking effect twice.                             *)
THEOREM UpdatesAreSafe == Spec => []NoLostUpdate
<1>1. ASSUME IInv PROVE NoLostUpdate
  <2> SUFFICES ASSUME NEW c \in Calls, op[c] = "update", seen[c] # Absent
               PROVE  replaced[c] \subseteq {seen[c]} /\ Cardinality(took[c]) <= 1
    BY DEF NoLostUpdate
  <2>1. /\ replaced[c] \subseteq {seen[c]}
        /\ took[c] = {} \/ \E r \in 1..rev : took[c] = {r}
    BY <1>1 DEF IInv, Once
  <2>2. Cardinality(took[c]) \in {0, 1}
    BY <2>1, FS_EmptySet, FS_Singleton
  <2> QED
    BY <2>1, <2>2
<1> QED
  BY <1>1, Invariant, PTL

(* A create or an update has more than one effect only if attempts ended   *)
(* in doubt: each retry that follows a refusal adds none.                  *)
THEOREM EffectsAreAccountedFor == Spec => []EffectsAccounted
<1>1. ASSUME IInv PROVE EffectsAccounted
  <2> SUFFICES ASSUME NEW c \in Calls, op[c] # "delete"
               PROVE  Cardinality(took[c]) + Cardinality(InFlight(c)) <= doubts[c] + 1
    BY DEF EffectsAccounted
  <2>1. /\ Cardinality(took[c]) + Cardinality(InFlight(c)) <= doubts[c] + Allowance(c)
        /\ Cardinality(took[c]) \in Nat /\ Cardinality(InFlight(c)) \in Nat /\ doubts[c] \in Nat
    BY <1>1, Counted DEF IInv, Budget
  <2>2. Allowance(c) \in {0, 1}
    BY DEF Allowance
  <2> QED
    BY <2>1, <2>2
<1> QED
  BY <1>1, Invariant, PTL
=============================================================================
