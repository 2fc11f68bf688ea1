--------------------------- MODULE UpdateContract ---------------------------
(***************************************************************************)
(* What the durable inbox promises about one Telegram update, whatever the *)
(* processes, lanes, leases and crashes behind it: at-least-once handling. *)
(* An accepted update stays pending until a handler of it has succeeded    *)
(* (done) or its attempts are used up (dead); a settled update never       *)
(* becomes pending again and only a settled update is forgotten.           *)
(***************************************************************************)
EXTENDS Naturals

CONSTANTS Updates, MaxAttempts

VARIABLES
  status,   \* life cycle of an update
  handled,  \* updates of which a handler has succeeded
  used      \* attempts used up by work or by a vanished process

cvars == <<status, handled, used>>

CInit ==
  /\ status = [u \in Updates |-> "absent"]
  /\ handled = {}
  /\ used = [u \in Updates |-> 0]

Accept(u) ==
  /\ status[u] = "absent"
  /\ status' = [status EXCEPT ![u] = "pending"]
  /\ UNCHANGED <<handled, used>>

\* Attempts only grow; a process exit may use up one of several updates.
Attempt ==
  /\ used' \in [Updates -> Nat]
  /\ \A u \in Updates : used'[u] >= used[u]
  /\ UNCHANGED <<status, handled>>

\* At least once: handlers may succeed again, even late.
Handle(u) ==
  /\ status[u] # "absent"
  /\ handled' = handled \cup {u}
  /\ UNCHANGED <<status, used>>

Settle(u) ==
  /\ status[u] = "pending" /\ u \in handled
  /\ status' = [status EXCEPT ![u] = "done"]
  /\ UNCHANGED <<handled, used>>

GiveUp(S) ==
  /\ \A u \in S : status[u] = "pending" /\ used[u] >= MaxAttempts
  /\ status' = [u \in Updates |-> IF u \in S THEN "dead" ELSE status[u]]
  /\ UNCHANGED <<handled, used>>

ForgetUpdate(u) ==
  /\ status[u] \in {"done", "dead"}
  /\ status' = [status EXCEPT ![u] = "purged"]
  /\ UNCHANGED <<handled, used>>

CNext ==
  \/ \E u \in Updates : Accept(u) \/ Handle(u) \/ Settle(u) \/ ForgetUpdate(u)
  \/ \E S \in SUBSET Updates : GiveUp(S)
  \/ Attempt

CSpec == CInit /\ [][CNext]_cvars

=============================================================================
