------------------------------ MODULE Mutation ------------------------------
(***************************************************************************)
(* internal/graph/resolvers/mutation.go: create, update and delete, each   *)
(* tried up to four times (retry.DefaultBackoff) against an API server.    *)
(*                                                                         *)
(* An attempt that gets no answer, or one that does not say whether the    *)
(* request was carried out, is retried if IsRetriable says so.  The server *)
(* may carry the request out all the same, even while a later attempt is   *)
(* on its way.  Several calls and other clients write one object.          *)
(***************************************************************************)
EXTENDS Integers, FiniteSets

CONSTANTS
  Calls,      \* mutations in progress
  Ops,        \* the operations that calls perform
  Steps,      \* attempts that retry.OnError makes: 4 in retry.DefaultBackoff
  MaxOthers   \* bound on what other clients do

ASSUME MutationAssumption ==
  /\ Ops \subseteq {"create", "generate", "update", "overwrite", "delete"}
  /\ Steps \in Nat \ {0}
  /\ MaxOthers \in Nat

Absent == 0   \* the revision of an object that does not exist

(* What a call may get: the reasons of a refusal say that nothing was      *)
(* done, the other ones leave that open.                                   *)
Refusals == {"AlreadyExists", "Conflict", "NotFound", "Invalid"}
Doubts   == {"Timeout", "ServerTimeout", "InternalError", "TooManyRequests",
             "UnexpectedServerError", "Unknown"}

NoAnswer == [is |-> "none", rv |-> Absent]

VARIABLES
  op,       \* op[c]: "generate" is a create with generateName, "overwrite"
            \* an update without a resource version
  seen,     \* seen[c]: the resource version in u
  pc,       \* where call c is
  attempt,  \* attempts made
  answer,   \* answer[c]: what the server has answered to the last one
  got,      \* got[c]: the resource version that the response left in u
  result,   \* result[c]: what the call has returned
  net,      \* requests the server has neither carried out nor refused
  object,   \* the revision of the object that calls name
  rev,      \* the last revision that the server has given out
  others,   \* number of writes by other clients
  took,     \* history: the revisions at which a request of c took effect
  replaced, \* history: the revisions that updates of c have replaced
  doubts    \* history: attempts of c that ended in doubt

vars == <<op, seen, pc, attempt, answer, got, result, net, object, rev, others,
          took, replaced, doubts>>

callVars   == <<op, seen, pc, attempt, got, result, doubts>>
serverVars == <<net, object, rev, others, took, replaced>>

Init ==
  /\ op \in [Calls -> Ops]
  /\ seen = [c \in Calls |-> Absent]
  /\ pc = [c \in Calls |-> "read"]
  /\ attempt = [c \in Calls |-> 0]
  /\ answer = [c \in Calls |-> NoAnswer]
  /\ got = [c \in Calls |-> Absent]
  /\ result = [c \in Calls |-> "none"]
  /\ net = {}
  /\ object \in {Absent, 1}
  /\ rev = 1
  /\ others = 0
  /\ took = [c \in Calls |-> {}]
  /\ replaced = [c \in Calls |-> {}]
  /\ doubts = [c \in Calls |-> 0]

Return(c, r) ==
  /\ pc' = [pc EXCEPT ![c] = "returned"]
  /\ result' = [result EXCEPT ![c] = r]

-----------------------------------------------------------------------------
(* The resolver *)

(* The caller of an update reads the object first, and sends what it has   *)
(* read with its changes: the comment above u.SetAPIVersion expects that.  *)
CallerReads(c) ==
  /\ pc[c] = "read"
  /\ pc' = [pc EXCEPT ![c] = "try"]
  /\ seen' = [seen EXCEPT ![c] = IF op[c] = "update" THEN object ELSE Absent]
  /\ UNCHANGED <<op, attempt, answer, got, result, doubts, serverVars>>

(* clients.Get fails, or the JSON of the resource or one of the patches    *)
(* cannot be used: the call ends before anything is sent.                  *)
PrepareFails(c) ==
  /\ pc[c] = "try"
  /\ attempt[c] = 0
  /\ Return(c, "error")
  /\ UNCHANGED <<op, seen, attempt, answer, got, doubts, serverVars>>

(* Mutant: the update is made without a resource version. *)
NoPrecondition(c) == Absent

(* The resource version that a request carries: u is not changed by        *)
(* attempts that fail.                                                     *)
Precondition(c) == seen[c]

(* c.Create, c.Update or c.Delete. *)
Try(c) ==
  /\ pc[c] = "try"
  /\ pc' = [pc EXCEPT ![c] = "wait"]
  /\ attempt' = [attempt EXCEPT ![c] = @ + 1]
  /\ net' = net \cup {[call |-> c, n |-> attempt[c] + 1, rv |-> Precondition(c)]}
  /\ UNCHANGED <<op, seen, answer, got, result, doubts, object, rev, others, took,
                 replaced>>

(* The reasons that IsRetriable lists. *)
IsRetriable(err) == err \in Doubts

(* Mutant: a create whose object exists already has succeeded. *)
IgnoredIfExists(c, err) ==
  \/ op[c] = "delete" /\ err = "NotFound"
  \/ op[c] = "create" /\ err = "AlreadyExists"

(* resource.IgnoreNotFound, in the delete only. *)
Ignored(c, err) == op[c] = "delete" /\ err = "NotFound"

(* Mutant: one more attempt than there are steps. *)
FailedOnceMore(c, err) ==
  \/ /\ IsRetriable(err) /\ attempt[c] <= Steps
     /\ pc' = [pc EXCEPT ![c] = "try"]
     /\ UNCHANGED result
  \/ /\ ~(IsRetriable(err) /\ attempt[c] <= Steps)
     /\ IF Ignored(c, err) THEN /\ pc' = [pc EXCEPT ![c] = "convert"]
                                /\ UNCHANGED result
                           ELSE Return(c, "error")

(* retry.OnError: an attempt of c has failed with err. *)
Failed(c, err) ==
  \/ /\ IsRetriable(err) /\ attempt[c] < Steps
     /\ pc' = [pc EXCEPT ![c] = "try"]
     /\ UNCHANGED result
  \/ /\ ~(IsRetriable(err) /\ attempt[c] < Steps)
     /\ IF Ignored(c, err) THEN /\ pc' = [pc EXCEPT ![c] = "convert"]
                                /\ UNCHANGED result
                           ELSE Return(c, "error")

(* The server has refused. *)
Refused(c) ==
  /\ pc[c] = "wait"
  /\ answer[c].is \in Refusals
  /\ Failed(c, answer[c].is)
  /\ answer' = [answer EXCEPT ![c] = NoAnswer]
  /\ UNCHANGED <<op, seen, attempt, got, doubts, serverVars>>

(* The answer is late or lost, the deadline has passed, or the server has  *)
(* failed in a way that does not tell: u is left as it was.                *)
InDoubt(c) ==
  /\ pc[c] = "wait"
  /\ \E err \in Doubts : Failed(c, err)
  /\ doubts' = [doubts EXCEPT ![c] = @ + 1]
  /\ answer' = [answer EXCEPT ![c] = NoAnswer]
  /\ UNCHANGED <<op, seen, attempt, got, serverVars>>

(* The response is decoded into u. *)
Succeeds(c) ==
  /\ pc[c] = "wait"
  /\ answer[c].is = "ok"
  /\ pc' = [pc EXCEPT ![c] = "convert"]
  /\ got' = [got EXCEPT ![c] = answer[c].rv]
  /\ answer' = [answer EXCEPT ![c] = NoAnswer]
  /\ UNCHANGED <<op, seen, attempt, result, doubts, serverVars>>

Convert(c) ==
  /\ pc[c] = "convert"
  /\ Return(c, "ok")
  /\ UNCHANGED <<op, seen, attempt, answer, got, doubts, serverVars>>

(* Mutant: GetKubernetesResource is part of what is retried. *)
ConvertFailsRetries(c) ==
  /\ pc[c] = "convert"
  /\ IF attempt[c] < Steps THEN pc' = [pc EXCEPT ![c] = "try"] /\ UNCHANGED result
                           ELSE Return(c, "error")
  /\ UNCHANGED <<op, seen, attempt, answer, got, doubts, serverVars>>

(* GetKubernetesResource cannot model u. *)
ConvertFails(c) ==
  /\ pc[c] = "convert"
  /\ Return(c, "error")
  /\ UNCHANGED <<op, seen, attempt, answer, got, doubts, serverVars>>

-----------------------------------------------------------------------------
(* The API server, and other clients of it *)

(* Why the server refuses request m, apart from Invalid. *)
Refusal(m) ==
  CASE op[m.call] = "create" /\ object # Absent -> "AlreadyExists"
    [] op[m.call] \in {"update", "overwrite", "delete"} /\ object = Absent -> "NotFound"
    [] op[m.call] = "update" /\ m.rv \notin {Absent, object} -> "Conflict"
    [] OTHER -> "none"

(* An answer reaches the attempt that waits for it, if there is one. *)
Reply(m, is, rv) ==
  answer' = IF pc[m.call] = "wait" /\ attempt[m.call] = m.n
            THEN [answer EXCEPT ![m.call] = [is |-> is, rv |-> rv]]
            ELSE answer

CarryOut(m) ==
  LET c == m.call IN
  /\ Refusal(m) = "none"
  /\ net' = net \ {m}
  /\ rev' = rev + 1
  /\ took' = [took EXCEPT ![c] = @ \cup {rev + 1}]
  /\ replaced' = IF op[c] \in {"update", "overwrite"}
                 THEN [replaced EXCEPT ![c] = @ \cup {object}] ELSE replaced
  /\ object' = CASE op[c] = "generate" -> object
                 [] op[c] = "delete"   -> Absent
                 [] OTHER              -> rev + 1
  /\ Reply(m, "ok", rev + 1)
  /\ UNCHANGED <<callVars, others>>

Refuse(m) ==
  LET why == IF Refusal(m) = "none" THEN "Invalid" ELSE Refusal(m) IN
  /\ net' = net \ {m}
  /\ took' = IF Ignored(m.call, why) THEN [took EXCEPT ![m.call] = @ \cup {rev}]
             ELSE took
  /\ Reply(m, why, rev)
  /\ UNCHANGED <<callVars, object, rev, others, replaced>>

(* Others create, update or delete the object. *)
OtherWrites ==
  /\ others < MaxOthers
  /\ others' = others + 1
  /\ rev' = rev + 1
  /\ object' \in {Absent, rev + 1} \ {object}
  /\ UNCHANGED <<callVars, answer, net, took, replaced>>

-----------------------------------------------------------------------------
Resolver(c) ==
  \/ CallerReads(c) \/ PrepareFails(c)
  \/ Try(c) \/ Refused(c) \/ InDoubt(c) \/ Succeeds(c)
  \/ Convert(c) \/ ConvertFails(c)

Server == (\E m \in net : CarryOut(m) \/ Refuse(m)) \/ OtherWrites

Next == (\E c \in Calls : Resolver(c)) \/ Server

Spec == Init /\ [][Next]_vars

-----------------------------------------------------------------------------
Request == [call : Calls, n : 1..Steps, rv : 0..rev]
Answer  == [is : Refusals \cup {"none", "ok"}, rv : 0..rev]

TypeOK ==
  /\ op \in [Calls -> Ops]
  /\ seen \in [Calls -> 0..rev]
  /\ pc \in [Calls -> {"read", "try", "wait", "convert", "returned"}]
  /\ attempt \in [Calls -> 0..Steps]
  /\ answer \in [Calls -> Answer]
  /\ got \in [Calls -> 0..rev]
  /\ result \in [Calls -> {"none", "ok", "error"}]
  /\ net \subseteq Request
  /\ rev \in Nat /\ object \in 0..rev
  /\ others \in 0..MaxOthers
  /\ took \in [Calls -> SUBSET (1..rev)]
  /\ replaced \in [Calls -> SUBSET (1..rev)]
  /\ doubts \in [Calls -> 0..Steps]

(* Success is the call's own: a create or an update that reports success   *)
(* returns the revision that one of its own requests has made, and a       *)
(* delete has found the object gone or made it so.                         *)
SuccessIsOwn ==
  \A c \in Calls : result[c] = "ok" =>
    IF op[c] = "delete" THEN took[c] # {} ELSE got[c] \in took[c]

(* A caller that reads, modifies and then updates never overwrites what    *)
(* others have written since, and its change is made at most once, however *)
(* often it is retried and however late a request arrives.                 *)
NoLostUpdate ==
  \A c \in Calls : op[c] = "update" /\ seen[c] # Absent =>
    replaced[c] \subseteq {seen[c]} /\ Cardinality(took[c]) <= 1

(* Requests that took effect, or still may, beyond the first one are       *)
(* accounted for by attempts that ended in doubt.                          *)
InFlight(c) == {m \in net : m.call = c}

EffectsAccounted ==
  \A c \in Calls : op[c] # "delete" =>
    Cardinality(took[c]) + Cardinality(InFlight(c)) <= doubts[c] + 1
=============================================================================
