----------------------------- MODULE ProcessLife -----------------------------
(***************************************************************************)
(* The life of one process (__main__.py): the start in order, supervision  *)
(* of the permanent services, the shutdown in order with a bound on each   *)
(* step, and the watchdogs outside the event loop that end a process which *)
(* can not end itself (services/resource_health.py, background_health.py). *)
(*                                                                         *)
(* An update stands for its row in the durable inbox: while its handler or *)
(* what the handler handed it to still runs, the row is leased to this     *)
(* process.  How long a step takes is not modelled; one that overruns its  *)
(* bound is abandoned and the next begins.                                 *)
(***************************************************************************)
EXTENDS Naturals, Sequences, FiniteSets

CONSTANTS
  Updates,
  MaxFailedPasses,           \* MAX_CONSECUTIVE_BACKGROUND_FAILURES
  MaxOverruns, MaxFreezes    \* bounds

LifeAssumption ==
  MaxFailedPasses \in Nat \ {0} /\ {MaxOverruns, MaxFreezes} \subseteq Nat

VARIABLES
  phase,      \* what main is doing
  todo,       \* the steps of it that are left
  open,       \* what must be closed: the engine, the Bot's session, the deletion scheduler
  held,       \* update -> who has it: its row is leased unless "away", "settled", "released"
  failedPasses,  \* consecutive failures of a permanent service
  ended,      \* a permanent service or the delivery has ended, or a signal has come
  frozen,     \* a call blocks the event loop
  stuck,      \* a thread or a task outlives the loop
  overran,    \* steps that were abandoned
  aborted,    \* the step at which the start failed, or "no"
  killed,     \* by a watchdog
  freezes

lifeVars == <<phase, todo, open, held, failedPasses, ended, frozen, stuck, overran, aborted,
              killed, freezes>>

\* main, to its try ... finally
Start == <<"engine", "services", "operators", "session", "identity", "construct", "recovery">>

\* A bug for the mutation runs: the inbox is stopped once its handlers are over.
HastyShutdown ==
  <<"runners", "control", "quiesce", "finalizers", "privileged", "raid", "patrol", "batches",
    "memory", "skills", "requests", "clients", "votes", "kicks", "web", "cleanup", "sends",
    "session", "engine">>

\* The finally of main: each owner of leased updates before the finalizers that settle them,
\* every user of the session and of the engine before these.
Shutdown ==
  <<"runners", "control", "quiesce", "privileged", "raid", "patrol", "batches", "memory",
    "skills", "requests", "clients", "votes", "kicks", "finalizers", "web", "cleanup", "sends",
    "session", "engine">>

Steps == {Start[i] : i \in DOMAIN Start} \cup {Shutdown[i] : i \in DOMAIN Shutdown}
Owners == {"worker", "privileged", "batch", "memory"}
Over == {"away", "settled", "released"}

TypeOK ==
  /\ phase \in {"start", "abort", "serve", "shutdown", "close", "gone"}
  /\ \A i \in DOMAIN todo : todo[i] \in Steps
  /\ open \subseteq {"engine", "session", "cleanup"}
  /\ held \in [Updates -> Owners \cup {"done"} \cup Over]
  /\ failedPasses \in 0..MaxFailedPasses
  /\ ended \in BOOLEAN /\ frozen \in BOOLEAN /\ stuck \in BOOLEAN /\ killed \in BOOLEAN
  /\ overran \subseteq Steps /\ aborted \in Steps \cup {"no"} /\ freezes \in 0..MaxFreezes

Init ==
  /\ phase = "start" /\ todo = Start /\ open = {} /\ held = [u \in Updates |-> "away"]
  /\ failedPasses = 0 /\ ended = FALSE /\ frozen = FALSE /\ stuck = FALSE /\ overran = {}
  /\ aborted = "no" /\ killed = FALSE /\ freezes = 0

Left(s) == \E i \in DOMAIN todo : todo[i] = s
Goes(to, steps) == phase' = to /\ todo' = steps

-----------------------------------------------------------------------------
(* The start *)

Opens(s) == {x \in {"engine", "session"} : x = s} \cup {x \in {"cleanup"} : s = "identity"}

StartStep ==
  /\ phase = "start" /\ todo # <<>> /\ ~frozen
  /\ open' = open \cup Opens(Head(todo))
  /\ Goes(IF Len(todo) = 1 THEN "serve" ELSE "start", Tail(todo))
  /\ UNCHANGED <<held, failedPasses, ended, frozen, stuck, overran, aborted, killed, freezes>>

\* A bug for the mutation runs: whatever fails, only the engine is disposed of.
LazyClosing(s) == IF s \in {"engine", "operators"} THEN <<>> ELSE <<"engine">>

\* What main closes when a step of the start fails
Closing(s) ==
  CASE s \in {"engine", "operators"} -> <<>>
    [] s \in {"services", "session"} -> <<"engine">>
    [] s \in {"identity", "construct"} -> <<"cleanup", "session", "engine">>
    [] s = "recovery" -> Shutdown

StartFails ==
  /\ phase = "start" /\ todo # <<>> /\ ~frozen
  /\ \E begun \in SUBSET (Opens(Head(todo)) \cap {"cleanup"}) : open' = open \cup begun
  /\ aborted' = Head(todo)
  /\ Goes(IF Head(todo) = "recovery" THEN "shutdown" ELSE "abort", Closing(Head(todo)))
  /\ UNCHANGED <<held, failedPasses, ended, frozen, stuck, overran, killed, freezes>>

-----------------------------------------------------------------------------
(* Serving *)

\* record_background_failure: the service ends with its last failure in a row.
ServicePass(ok) ==
  /\ phase = "serve" /\ ~frozen /\ ~ended
  /\ failedPasses' = IF ok THEN 0 ELSE failedPasses + 1
  /\ ended' = (failedPasses' = MaxFailedPasses)
  /\ UNCHANGED <<phase, todo, open, held, frozen, stuck, overran, aborted, killed, freezes>>

\* A signal ends the delivery, or something that should run for ever returns or raises.
Ends ==
  /\ phase = "serve" /\ ~frozen /\ ~ended /\ ended' = TRUE
  /\ UNCHANGED <<phase, todo, open, held, failedPasses, frozen, stuck, overran, aborted,
                 killed, freezes>>

\* A bug for the mutation runs: the supervisor waits for the delivery alone.
LaxSupervise ==
  /\ phase = "serve" /\ ended /\ failedPasses < MaxFailedPasses /\ ~frozen
  /\ Goes("shutdown", Shutdown)
  /\ UNCHANGED <<open, held, failedPasses, ended, frozen, stuck, overran, aborted, killed,
                 freezes>>

\* _run_with_background_supervision comes back, whichever of them ended first.
Supervise ==
  /\ phase = "serve" /\ ended /\ ~frozen /\ Goes("shutdown", Shutdown)
  /\ UNCHANGED <<open, held, failedPasses, ended, frozen, stuck, overran, aborted, killed,
                 freezes>>

\* The inbox leases updates to its workers until it is quiesced.
Take(u) ==
  /\ held[u] \in {"away", "released"} /\ aborted = "no" /\ ~frozen
  /\ phase = "serve" \/ (phase = "shutdown" /\ Left("quiesce"))
  /\ held' = [held EXCEPT ![u] = "worker"]
  /\ UNCHANGED <<phase, todo, open, failedPasses, ended, frozen, stuck, overran, aborted,
                 killed, freezes>>

\* A handler ends or hands its receipt on, a reply remembers the message that it answers.
HandOn(u) ==
  /\ phase \in {"serve", "shutdown"} /\ ~frozen
  /\ \E k \in CASE held[u] = "worker" -> {"privileged", "batch", "done"}
                [] held[u] = "batch" -> {"memory", "done"}
                [] held[u] \in {"privileged", "memory"} -> {"done"}
                [] OTHER -> {} :
       held' = [held EXCEPT ![u] = k]
  /\ UNCHANGED <<phase, todo, open, failedPasses, ended, frozen, stuck, overran, aborted,
                 killed, freezes>>

\* The finalizer of an update whose receipt is over settles its row.
Finalize(u) ==
  /\ held[u] = "done" /\ ~frozen
  /\ phase = "serve" \/ (phase = "shutdown" /\ Left("finalizers"))
  /\ held' = [held EXCEPT ![u] = "settled"]
  /\ UNCHANGED <<phase, todo, open, failedPasses, ended, frozen, stuck, overran, aborted,
                 killed, freezes>>

-----------------------------------------------------------------------------
(* The shutdown *)

\* What a step that ends in time leaves: receipts it can not wait for are failed, queued
\* and running handlers are cancelled and their rows released.
Flushed(s) == [u \in Updates |->
  CASE s = "privileged" /\ held[u] = "privileged" -> "done"
    [] s = "batches" /\ held[u] = "batch" -> "done"
    [] s = "memory" /\ held[u] = "memory" -> "done"
    [] s = "finalizers" /\ held[u] = "worker" -> "released"
    [] s = "finalizers" /\ held[u] = "done" -> "settled"
    [] OTHER -> held[u]]

\* _cancel_tasks_bounded, _await_cleanup_bounded: the step ends, or is cancelled and left
\* behind; the quiescing waits for the handlers, and gives up.
ShutdownStep ==
  /\ phase \in {"shutdown", "abort"} /\ todo # <<>> /\ ~frozen
  /\ LET s == Head(todo) IN
       \/ /\ s = "quiesce" => \A u \in Updates : held[u] # "worker"
          /\ held' = Flushed(s) /\ open' = open \ {s} /\ UNCHANGED overran
       \/ /\ Cardinality(overran) < MaxOverruns /\ overran' = overran \cup {s}
          /\ UNCHANGED <<held, open>>
  /\ Goes(phase, Tail(todo))
  /\ UNCHANGED <<failedPasses, ended, frozen, stuck, aborted, killed, freezes>>

\* main is over; the loop drains what is left for a while and closes.
Drain ==
  /\ phase \in {"shutdown", "abort"} /\ todo = <<>> /\ ~frozen
  /\ Goes("close", <<>>) /\ stuck' \in BOOLEAN
  /\ UNCHANGED <<open, held, failedPasses, ended, frozen, overran, aborted, killed, freezes>>

Exit ==
  /\ phase = "close" /\ ~stuck /\ Goes("gone", <<>>)
  /\ UNCHANGED <<open, held, failedPasses, ended, frozen, stuck, overran, aborted, killed,
                 freezes>>

-----------------------------------------------------------------------------
(* The watchdogs, threads beside the loop *)

Freeze ==
  /\ phase \notin {"close", "gone"} /\ ~frozen /\ freezes < MaxFreezes
  /\ frozen' = TRUE /\ freezes' = freezes + 1
  /\ UNCHANGED <<phase, todo, open, held, failedPasses, ended, stuck, overran, aborted, killed>>

Thaw ==
  /\ frozen /\ frozen' = FALSE
  /\ UNCHANGED <<phase, todo, open, held, failedPasses, ended, stuck, overran, aborted,
                 killed, freezes>>

Kill ==
  /\ Goes("gone", <<>>) /\ killed' = TRUE
  /\ UNCHANGED <<open, held, failedPasses, ended, frozen, stuck, overran, aborted, freezes>>

\* _hard_loop_stall_monitor: no heartbeat for 45 s
Stalled == frozen /\ phase # "gone" /\ Kill

\* _arm_forced_exit_watchdog: 110 s for the ordered shutdown, then 5 s for the rest
HardLimit == phase \in {"shutdown", "close"} /\ Kill

Next ==
  \/ StartStep \/ StartFails \/ Ends \/ Supervise \/ ShutdownStep \/ Drain \/ Exit
  \/ \E ok \in BOOLEAN : ServicePass(ok)
  \/ \E u \in Updates : Take(u) \/ HandOn(u) \/ Finalize(u)
  \/ Freeze \/ Thaw \/ Stalled \/ HardLimit

\* The loop runs while nothing blocks it, each step of the start comes back, and the
\* watchdogs' threads run.
Spec ==
  /\ Init /\ [][Next]_lifeVars
  /\ WF_lifeVars(StartStep \/ StartFails) /\ WF_lifeVars(Supervise)
  /\ WF_lifeVars(ShutdownStep \/ Drain) /\ WF_lifeVars(Exit)
  /\ WF_lifeVars(Stalled) /\ WF_lifeVars(HardLimit)

-----------------------------------------------------------------------------
(* Properties *)

\* Whose overrun may leave an update with this owner
Behind(k) ==
  CASE k = "worker" -> {"finalizers"}
    [] k = "privileged" -> {"quiesce", "privileged"}
    [] k = "batch" -> {"quiesce", "batches"}
    [] k = "memory" -> {"quiesce", "batches", "memory"}
    [] k = "done" -> {"quiesce", "privileged", "batches", "memory", "finalizers"}

\* "Keep durable finalizers alive until every explicit detached owner has finished;
\* otherwise a graceful deploy can strand a live lease" (__main__.py:677-680): behind the
\* finalizers no update is left leased unless a step that its owners went through overran.
LeasesGivenBack ==
  phase \in {"shutdown", "close"} /\ ~Left("finalizers") =>
    \A u \in Updates : held[u] \in Over \/ Behind(held[u]) \cap overran # {}

\* An exit in order has closed the engine, the session and the scheduler, wherever the start
\* failed, but for a step that overran and for a failed preload of the operators, which
\* closes nothing (__main__.py:368-432, 541-557, 665-760).
ClosedBehind ==
  phase \in {"close", "gone"} /\ ~killed /\ aborted # "operators" => open \subseteq overran

\* When a permanent service or the delivery has ended, or the start failed, the process
\* ends, whatever resists: a step, a thread, or a call that blocks the loop.
ProcessEnds == (ended \/ aborted # "no") ~> phase = "gone"

=============================================================================
