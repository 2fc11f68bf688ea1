---------------------------- MODULE HttpSession ----------------------------
(***************************************************************************)
(* The HTTP session all calls to Telegram go through                       *)
(* (services/telegram_session.py): after network failures in a row the     *)
(* connector is closed, once nobody is using it, and the next request      *)
(* builds a new one.  The admission gate in front of it is CapacityGate.   *)
(*                                                                         *)
(* create_session and close belong to the library (aiogram): a close that  *)
(* finds an open connector closes it at once and then lingers.             *)
(***************************************************************************)
EXTENDS Naturals

CONSTANTS
  Requests, Downloads, \* callers of make_request; of stream_content
  Nobody,
  Failures,            \* TELEGRAM_CONNECTOR_RESET_FAILURES
  MaxConnectors        \* bound: connectors built

HttpAssumption ==
  /\ Nobody \notin Requests \cup Downloads /\ Requests \cap Downloads = {}
  /\ Failures \in Nat \ {0} /\ MaxConnectors \in Nat \ {0}

VARIABLES
  at,       \* caller -> what it does
  uses,     \* caller -> the connector its exchange runs on, 0: none
  gen, open,\* the current connector's number; whether it is open
  rebuild,  \* _should_reset_connector
  wanted,   \* _reset_requested
  failures, \* _consecutive_network_failures
  reset,    \* who has _reset_lock
  caught    \* history: callers whose exchange began while the connector was being closed

vars == <<at, uses, gen, open, rebuild, wanted, failures, reset, caught>>

Callers == Requests \cup Downloads
Steps == {"idle", "queued", "closing", "create", "linger", "exchange", "left", "lastqueued", "lastclosing"}
TypeOK ==
  /\ at \in [Callers -> Steps] /\ uses \in [Callers -> 0..MaxConnectors]
  /\ gen \in 0..MaxConnectors /\ open \in BOOLEAN /\ rebuild \in BOOLEAN /\ wanted \in BOOLEAN
  /\ failures \in 0..Failures /\ reset \in Callers \cup {Nobody} /\ caught \subseteq Callers

Init ==
  /\ at = [c \in Callers |-> "idle"] /\ uses = [c \in Callers |-> 0] /\ gen = 0 /\ open = FALSE
  /\ rebuild = FALSE /\ wanted = FALSE /\ failures = 0 /\ reset = Nobody /\ caught = {}

Go(c, s) == at' = [at EXCEPT ![c] = s]

\* _active_requests
Active == {c \in Callers : at[c] \in {"create", "linger", "exchange"}}
Due    == wanted /\ Active = {}

\* _reset_connector_if_idle, first check: nothing to do, or for the lock; c goes on to s
Check(c, s, queued) == IF Due THEN Go(c, queued) ELSE Go(c, s)

\* make_request, and stream_content, which does not look
Request(c)  == c \in Requests /\ Check(c, "create", "queued")
Download(c) == c \in Downloads /\ Go(c, "create")
Enter(c) ==
  /\ at[c] = "idle" /\ (Request(c) \/ Download(c))
  /\ UNCHANGED <<uses, gen, open, rebuild, wanted, failures, reset, caught>>

After(s) == IF s = "queued" THEN "create" ELSE "idle"
Closes(s) == IF s = "queued" THEN "closing" ELSE "lastclosing"

\* A bug for the mutation runs: with the lock, nothing is looked at again.
LockedUnchecked(c) ==
  /\ at[c] \in {"queued", "lastqueued"} /\ reset = Nobody
  /\ Go(c, Closes(at[c])) /\ reset' = c /\ open' = FALSE
  /\ UNCHANGED <<uses, gen, rebuild, wanted, failures, caught>>

\* With the lock it looks again: whoever was first may have closed it, or be using it.
Locked(c) ==
  /\ at[c] \in {"queued", "lastqueued"} /\ reset = Nobody
  /\ IF Due THEN Go(c, Closes(at[c])) /\ reset' = c /\ open' = FALSE
            ELSE Go(c, After(at[c])) /\ UNCHANGED <<reset, open>>
  /\ UNCHANGED <<uses, gen, rebuild, wanted, failures, caught>>

\* The close lingered, failed or was cancelled: what it stands for is done in any case.
Closed(c) ==
  /\ at[c] \in {"closing", "lastclosing"}
  /\ IF at[c] = "closing" THEN Go(c, "create") \/ Go(c, "idle") ELSE Go(c, "idle")
  /\ rebuild' = TRUE /\ wanted' = FALSE /\ failures' = 0 /\ reset' = Nobody
  /\ UNCHANGED <<uses, gen, open, caught>>

\* create_session: what is to be rebuilt is closed, and that lingers if it was open.
Create(c) ==
  /\ \/ at[c] = "create" /\ ~(rebuild /\ open)
     \/ at[c] = "linger"
  /\ Go(c, "exchange")
  /\ IF open THEN uses' = [uses EXCEPT ![c] = gen] /\ UNCHANGED <<gen, open, rebuild>>
     ELSE /\ gen < MaxConnectors /\ gen' = gen + 1 /\ open' = TRUE /\ rebuild' = FALSE
          /\ uses' = [uses EXCEPT ![c] = gen + 1]
  /\ caught' = (IF reset # Nobody THEN caught \cup {c} ELSE caught)
  /\ UNCHANGED <<wanted, failures, reset>>
CloseFirst(c) ==
  /\ at[c] = "create" /\ rebuild /\ open /\ open' = FALSE /\ Go(c, "linger")
  /\ UNCHANGED <<uses, gen, rebuild, wanted, failures, reset, caught>>

\* The answer; a network failure, always if its connector is gone; any other error or a
\* cancellation counts for nothing.  A download's outcome does not count.
Count(c) ==
  \/ uses[c] = gen /\ open /\ failures' = 0 /\ UNCHANGED wanted
  \/ /\ failures' = (IF failures < Failures THEN failures + 1 ELSE failures)
     /\ wanted' = (wanted \/ failures + 1 >= Failures)
  \/ UNCHANGED <<failures, wanted>>
Leave(c) ==
  /\ at[c] = "exchange" /\ Go(c, "left") /\ uses' = [uses EXCEPT ![c] = 0]
  /\ IF c \in Requests THEN Count(c) ELSE UNCHANGED <<failures, wanted>>
  /\ caught' = caught \ {c}
  /\ UNCHANGED <<gen, open, rebuild, reset>>

\* the check after the request, with no step of anyone else before it
Last(c) ==
  /\ at[c] = "left" /\ Check(c, "idle", "lastqueued")
  /\ UNCHANGED <<uses, gen, open, rebuild, wanted, failures, reset, caught>>

Next == \E c \in Callers :
  \/ Last(c)
  \/ (\A d \in Callers : at[d] # "left")
     /\ (Enter(c) \/ Locked(c) \/ Closed(c) \/ Create(c) \/ CloseFirst(c) \/ Leave(c))

Spec == Init /\ [][Next]_vars

-----------------------------------------------------------------------------
\* A reset cuts nobody's exchange: whoever is exchanging runs on the connector in force,
\* however the checks before and after other requests and their wait for the lock fell.
\* Excepted is an exchange that began while a reset was still closing the connector: a
\* download does not wait for it, a request that finds a download passes too, and what
\* they have built is rebuilt again (stream_content, _reset_connector_if_idle).
NobodyCut == \A c \in Callers \ caught : at[c] = "exchange" => open /\ uses[c] = gen
=============================================================================
