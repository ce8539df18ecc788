-------------------------- MODULE LiveQueryPromise --------------------------
(***************************************************************************)
(* What a live query promises to the client that has subscribed: it        *)
(* resolves the query, waits, and resolves it again if a refresh is owed.  *)
(* A change makes it owe one, it never forgets that it does, it refreshes  *)
(* for no other reason, and at most once per throttle interval.  How       *)
(* triggers, timers and channels bring that about is left to LiveQuery.    *)
(***************************************************************************)
EXTENDS Integers

CONSTANT Throttle   \* the throttle interval, in ticks

VARIABLES
  done,   \* the context of the operation is done
  owed,   \* something has changed since the last refresh
  phase,  \* the query is being resolved, waits for a refresh, or has ended
  since   \* ticks since the last refresh, up to Throttle

vars == <<done, owed, phase, since>>

Init ==
  /\ done = FALSE
  /\ owed = FALSE
  /\ phase = "resolve"
  /\ since = Throttle

Tick ==
  /\ since < Throttle
  /\ since' = since + 1
  /\ UNCHANGED <<done, owed, phase>>

(* Something that the query reads has changed. *)
Owe ==
  /\ owed' = TRUE
  /\ UNCHANGED <<done, phase, since>>

(* All responses of the resolution have been returned. *)
Resolved ==
  /\ phase = "resolve"
  /\ phase' = "wait"
  /\ UNCHANGED <<done, owed, since>>

(* What changed before the refresh is paid by it; more may have changed    *)
(* that nobody has looked at yet.                                          *)
Refresh ==
  /\ phase = "wait"
  /\ owed
  /\ since = Throttle
  /\ phase' = "resolve"
  /\ owed' \in BOOLEAN
  /\ since' = 0
  /\ UNCHANGED done

Leave ==
  /\ done' = TRUE
  /\ UNCHANGED <<owed, phase, since>>

(* The client has left: nothing is owed to it, and the query ends.         *)
Ending ==
  /\ done
  /\ owed' \in BOOLEAN
  /\ phase' \in IF phase = "end" THEN {"end"} ELSE {"resolve", "wait", "end"}
  /\ UNCHANGED <<done, since>>

Next == Tick \/ Owe \/ Resolved \/ Refresh \/ Leave \/ Ending

Spec == Init /\ [][Next]_vars
=============================================================================
