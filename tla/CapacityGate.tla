---------------------------- MODULE CapacityGate ----------------------------
(***************************************************************************)
(* The admission gate in front of Telegram, model and skill requests:      *)
(* class ReservedCapacityGate of bot/services/request_priority.py with its *)
(* three semaphores.  Ordinary requests pass "normal", ordinary and        *)
(* background ones pass "noncritical", and every request passes "total",   *)
(* whose permits go to the most urgent waiter.                             *)
(*                                                                         *)
(* A task runs without interruption from one await to the next, so an      *)
(* action is all a task does between two of them.  A permit is handed to a *)
(* waiter by setting its future; until the waiter runs again it may be     *)
(* cancelled, and it must then pass the permit on.                         *)
(***************************************************************************)
EXTENDS Naturals, FiniteSets

CONSTANTS
  Tasks,     \* requests, one at a time per task
  Tier,      \* the first semaphore a task needs: its priority
  Capacity   \* permits of each semaphore

Normal == 1
Noncritical == 2
Total == 3
Sems == {Normal, Noncritical, Total}

\* __init__ clamps the capacities: 1 <= normal <= noncritical <= total.
ASSUME ConstantsAssumption ==
  /\ IsFiniteSet(Tasks)
  /\ Tier \in [Tasks -> Sems]
  /\ Capacity \in [Sems -> Nat \ {0}]
  /\ Capacity[Normal] <= Capacity[Noncritical]
  /\ Capacity[Noncritical] <= Capacity[Total]

VARIABLES
  value,  \* _value of each semaphore
  st,     \* a task: outside, waiting for a future, its future set or
          \* cancelled, or inside the slot
  at,     \* the semaphore it waits for or was last given
  ahead,  \* pairs of waiters of a semaphore in the order of their arrival
  stale   \* the queue of "total" still holds cancelled futures

vars == <<value, st, at, ahead, stale>>

TypeOK ==
  /\ value \in [Sems -> Nat]
  /\ st \in [Tasks -> {"outside", "waiting", "granted", "cancelled", "inside"}]
  /\ at \in [Tasks -> Sems]
  /\ ahead \in SUBSET (Tasks \X Tasks)
  /\ stale \in BOOLEAN

-----------------------------------------------------------------------------
Waiting(s) == {t \in Tasks : st[t] = "waiting" /\ at[t] = s}
Granted(s) == {t \in Tasks : st[t] = "granted" /\ at[t] = s}

\* The permits a task has: "acquired", and the one its future was set to.
Has(t, s) ==
  /\ st[t] # "outside" /\ Tier[t] <= s
  /\ s < at[t] \/ (s = at[t] /\ st[t] \in {"granted", "inside"})
Holders(s) == {t \in Tasks : Has(t, s)}

\* Mutant: the value of the semaphore is not looked at.
OpenIfUnclaimed(s) == Waiting(s) = {} /\ Granted(s) = {}

\* Mutant: background requests are not counted against "noncritical".
OpenUnreserved(s) == s = Noncritical \/ (value[s] > 0 /\ Waiting(s) = {})

\* An acquire takes a permit at once only if nobody queues.  asyncio.Semaphore
\* counts a waiter until it has run again, the priority semaphore even a
\* cancelled one until a release discards it.
Open(s) ==
  /\ value[s] > 0 /\ Waiting(s) = {}
  /\ IF s = Total THEN ~stale ELSE Granted(s) = {}

\* "total" serves the most urgent waiter, the others serve in order of arrival.
First(s, t, u) ==
  \/ s = Total /\ Tier[t] > Tier[u]
  \/ (s = Total => Tier[t] = Tier[u]) /\ <<t, u>> \in ahead

Least(m, n) == IF m <= n THEN m ELSE n

\* G are the n foremost waiters of s, or all of them.
Foremost(s, n, G) ==
  /\ G \subseteq Waiting(s)
  /\ Cardinality(G) = Least(n, Cardinality(Waiting(s)))
  /\ \A t \in G, u \in Waiting(s) \ G : First(s, t, u)

\* Task t goes to x at semaphore s, the futures of G are set.
Put(t, x, s, G) ==
  /\ st' = [u \in Tasks |-> IF u = t THEN x ELSE IF u \in G THEN "granted" ELSE st[u]]
  /\ at' = [at EXCEPT ![t] = s]
  /\ ahead' = {p \in ahead \cup (Waiting(s) \X {t}) : st'[p[1]] = "waiting" /\ st'[p[2]] = "waiting"}

\* From semaphore k on, t takes what is open and stops at b, or is inside
\* (b beyond the last).
Advance(t, k, b, G) ==
  /\ \A s \in Sems : k <= s /\ s < b => Open(s)
  /\ IF b > Total THEN Put(t, "inside", Total, G)
     ELSE ~Open(b) /\ Put(t, "waiting", b, G)

Taken(k, b, s) == IF k <= s /\ s < b THEN 1 ELSE 0

-----------------------------------------------------------------------------
Enter(t) ==
  /\ st[t] = "outside"
  /\ \E b \in Sems \cup {Total + 1} :
       /\ Tier[t] <= b /\ Advance(t, Tier[t], b, {})
       /\ value' = [s \in Sems |-> value[s] - Taken(Tier[t], b, s)]
  /\ UNCHANGED stale

\* Mutant: permits that came back meanwhile wake nobody.
ResumeAlone(t) ==
  /\ st[t] = "granted"
  /\ \E b \in Sems \cup {Total + 1} :
       /\ at[t] < b /\ Advance(t, at[t] + 1, b, {})
       /\ value' = [s \in Sems |-> value[s] - Taken(at[t] + 1, b, s)]
  /\ UNCHANGED stale

\* The task runs with its future set.  asyncio.Semaphore then wakes as many
\* others as permits are left.
Resume(t) ==
  /\ st[t] = "granted"
  /\ \E b \in Sems \cup {Total + 1}, G \in SUBSET Waiting(at[t]) :
       /\ IF at[t] = Total THEN G = {} ELSE Foremost(at[t], value[at[t]], G)
       /\ at[t] < b /\ Advance(t, at[t] + 1, b, G)
       /\ value' = [s \in Sems |-> IF s = at[t] THEN value[s] - Cardinality(G)
                                   ELSE value[s] - Taken(at[t] + 1, b, s)]
  /\ UNCHANGED stale

\* The deadline or a cancellation reaches the task while its future is pending.
Cancel(t) ==
  /\ st[t] = "waiting"
  /\ Put(t, "cancelled", at[t], {})
  /\ stale' = (stale \/ at[t] = Total)
  /\ UNCHANGED value

\* t leaves and back[s] permits return to s, which may wake wakes[s] waiters.  A
\* release of "total" pops its queue up to a live waiter, or to the end.  Its
\* min(capacity, ...) is left out: by PermitsConserved it never takes effect.
Leave(t, back, wakes) ==
  \E G \in SUBSET {u \in Tasks : st[u] = "waiting"} :
    /\ \A s \in Sems : Foremost(s, wakes[s], G \cap Waiting(s))
    /\ Put(t, "outside", Total, G)
    /\ value' = [s \in Sems |-> value[s] + back[s] - Cardinality(G \cap Waiting(s))]
    /\ \/ back[Total] = 0 /\ UNCHANGED stale
       \/ back[Total] > 0 /\ stale' = FALSE
       \/ back[Total] > 0 /\ G \cap Waiting(Total) # {} /\ UNCHANGED stale

\* Mutant: a permit that was handed over just before the cancellation is lost.
GiveUpForgetful(t) ==
  /\ st[t] \in {"granted", "cancelled"}
  /\ LET back == [s \in Sems |-> IF Has(t, s) /\ s # at[t] THEN 1 ELSE 0]
     IN Leave(t, back, [s \in Sems |-> IF s = at[t] /\ s # Total THEN value[s] ELSE back[s]])

\* A cancelled wait, or a cancellation that comes after the future was set:
\* the permits so far are rolled back.
GiveUp(t) ==
  /\ st[t] \in {"granted", "cancelled"}
  /\ LET back == [s \in Sems |-> IF Has(t, s) THEN 1 ELSE 0]
     IN Leave(t, back, [s \in Sems |-> IF s = at[t] /\ s # Total THEN value[s] + back[s]
                                       ELSE back[s]])

\* Mutant: a permit of "total" is put back and no waiter is woken.
ExitQuietly(t) ==
  /\ st[t] = "inside"
  /\ LET back == [s \in Sems |-> IF Has(t, s) THEN 1 ELSE 0]
     IN Leave(t, back, [s \in Sems |-> IF s = Total THEN 0 ELSE back[s]])

Exit(t) ==
  /\ st[t] = "inside"
  /\ LET back == [s \in Sems |-> IF Has(t, s) THEN 1 ELSE 0]
     IN Leave(t, back, back)

Init ==
  /\ value = Capacity
  /\ st = [t \in Tasks |-> "outside"] /\ at = [t \in Tasks |-> Total]
  /\ ahead = {} /\ stale = FALSE

Next == \E t \in Tasks : Enter(t) \/ Resume(t) \/ Cancel(t) \/ GiveUp(t) \/ Exit(t)

Spec == Init /\ [][Next]_vars

\* The event loop runs a task whose future is done, and requests are bounded.
Fairness == \A t \in Tasks : WF_vars(Resume(t) \/ GiveUp(t)) /\ WF_vars(Exit(t))
FairSpec == Spec /\ Fairness

-----------------------------------------------------------------------------
(* Properties *)

\* Every permit is free or with exactly one task, however the hand-over of a
\* permit, cancellations and roll-backs interleave: none is lost or doubled.
PermitsConserved == \A s \in Sems : value[s] + Cardinality(Holders(s)) = Capacity[s]

\* A permit is never free while a request waits for it, unless a waiter that
\* was already chosen is about to run and to wake the others.  Cancelled
\* futures left in the priority queue never shut out newcomers either.
NoIdlePermit ==
  \A s \in Sems : value[s] > 0 =>
    /\ Waiting(s) # {} => s # Total /\ Granted(s) # {}
    /\ s = Total => ~stale

\* A task waits at none of the semaphores that its priority skips.
StageFits == \A t \in Tasks : Tier[t] <= at[t]

\* The inductive invariant of the proofs.
InductiveInv == TypeOK /\ StageFits /\ PermitsConserved /\ NoIdlePermit

Urgent == {t \in Tasks : Tier[t] = Total}

\* "The difference between total_capacity and noncritical_capacity is therefore
\* always available to interactive/security requests": such a request waits
\* only while others of its kind use all of the difference.
ReserveForUrgent ==
  Waiting(Total) \cap Urgent # {} =>
    Cardinality(Holders(Total) \cap Urgent) + Capacity[Noncritical] >= Capacity[Total]

\* An urgent request that waits gets its permit or gives up, whatever ordinary
\* requests do.
UrgentServed == \A t \in Urgent : st[t] = "waiting" ~> st[t] # "waiting"
=============================================================================
