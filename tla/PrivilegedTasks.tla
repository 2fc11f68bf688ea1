-------------------------- MODULE PrivilegedTasks --------------------------
(***************************************************************************)
(* bot/services/privileged_tasks.py, one lane: privileged operations that  *)
(* handlers hand over to a few workers, deduplicated by key.  The updates  *)
(* that asked for them stay in the durable inbox until their receipts      *)
(* (bot/services/update_completion.py) are settled.                        *)
(***************************************************************************)
EXTENDS Naturals, FiniteSets

CONSTANTS
  Updates, Keys,     \* updates whose handlers submit, and deduplication keys
  LaneWorkers,       \* worker_count of the lane
  LaneSize           \* size of its queue

LaneAssumption ==
  /\ {LaneWorkers, LaneSize} \subseteq Nat \ {0}
  /\ IsFiniteSet(Updates) /\ IsFiniteSet(Keys)

\* The job that update u created for key k.
Jobs == Updates \X Keys

VARIABLES
  tasks,     \* [Jobs -> step, past its deadline, outcome, receipts it will finish]
  byKey,     \* jobs_by_key
  receipt,   \* [Updates -> pending owners, sealed, succeeded so far, settled]
  attached,  \* [Updates -> jobs its receipt was attached to], history
  tried,     \* [Updates -> keys it has submitted]
  flushing   \* phase of flush_privileged_tasks

laneVars == <<tasks, byKey, receipt, attached, tried, flushing>>

Unqueued == [st |-> "none", overdue |-> FALSE, outcome |-> "none", receipts |-> {}]
Untracked == <<>>

TypeOK ==
  /\ tasks \in [Jobs -> [st : {"none", "queued", "run", "grace", "orphan", "ended"},
                         overdue : BOOLEAN, outcome : {"none", "ok", "failed"},
                         receipts : SUBSET Updates]]
  /\ byKey \in [Keys -> Jobs \cup {Untracked}]
  /\ receipt \in [Updates -> [pending : 0..Cardinality(Keys), sealed : BOOLEAN,
                              succeeded : BOOLEAN, settled : BOOLEAN]]
  /\ attached \in [Updates -> SUBSET Jobs] /\ tried \in [Updates -> SUBSET Keys]
  /\ flushing \in {"no", "joining", "cancelled", "done"}

Init ==
  /\ tasks = [j \in Jobs |-> Unqueued] /\ byKey = [k \in Keys |-> Untracked]
  /\ receipt = [u \in Updates |-> [pending |-> 0, sealed |-> FALSE, succeeded |-> TRUE,
                                   settled |-> FALSE]]
  /\ attached = [u \in Updates |-> {}] /\ tried = [u \in Updates |-> {}] /\ flushing = "no"

At(j, s)   == tasks[j].st = s
Queued     == {j \in Jobs : At(j, "queued")}
Expired    == {j \in Queued : tasks[j].overdue}
\* An operation that may still have effects.
Live(j)    == tasks[j].st \in {"run", "grace", "orphan"}
\* A child that ignores its cancellation keeps its worker.
Busy       == {j \in Jobs : At(j, "run") \/ At(j, "orphan")}

-----------------------------------------------------------------------------
(* Receipts *)

Owes(js, u) == Cardinality({j \in js : u \in tasks[j].receipts})

\* finish(): one owner less for every job; the last one settles a sealed receipt.
Finished(js, ok) ==
  [u \in Updates |->
     LET r == receipt[u]
         left == r.pending - Owes(js, u)
     IN IF Owes(js, u) = 0 \/ r.settled THEN r
        ELSE [r EXCEPT !.pending = left, !.succeeded = @ /\ ok,
                       !.settled = left = 0 /\ r.sealed]]

\* Jobs js are over: completion, receipts and key are released together.
Over(js, ok) ==
  [j \in Jobs |-> IF j \in js THEN [tasks[j] EXCEPT !.st = "ended", !.receipts = {},
                                      !.outcome = IF ok THEN "ok" ELSE "failed"]
                  ELSE tasks[j]]
Released(js) == [k \in Keys |-> IF byKey[k] \in js THEN Untracked ELSE byKey[k]]
Finish(js, ok) ==
  tasks' = Over(js, ok) /\ byKey' = Released(js) /\ receipt' = Finished(js, ok)

\* The handler returned: wait() seals its receipt.
Seal(u) ==
  /\ ~receipt[u].sealed
  /\ receipt' = [receipt EXCEPT ![u].sealed = TRUE, ![u].settled = @ \/ receipt[u].pending = 0]
  /\ UNCHANGED <<tasks, byKey, attached, tried, flushing>>

-----------------------------------------------------------------------------
(* submit_privileged_task *)

\* Adds the caller's receipt to job j, which has step s.
Attach(ts, rs, u, j, s) ==
  /\ tasks' = [ts EXCEPT ![j].st = s, ![j].receipts = @ \cup {u}]
  /\ receipt' = [rs EXCEPT ![u].pending = @ + 1]
  /\ attached' = [attached EXCEPT ![u] = @ \cup {j}]

\* Queued jobs past their deadline are discarded first; a tracked key gets the
\* caller as one more owner, also while draining; a new job needs a place.
Submit(u, k) ==
  LET ts == Over(Expired, FALSE)
      ks == Released(Expired)
      rs == Finished(Expired, FALSE)
  IN /\ ~receipt[u].sealed /\ k \notin tried[u]
     /\ tried' = [tried EXCEPT ![u] = @ \cup {k}] /\ UNCHANGED flushing
     /\ \/ /\ ks[k] # Untracked /\ byKey' = ks /\ Attach(ts, rs, u, ks[k], ts[ks[k]].st)
        \/ /\ ks[k] = Untracked /\ flushing = "no" /\ Cardinality(Queued \ Expired) < LaneSize
           /\ byKey' = [ks EXCEPT ![k] = <<u, k>>] /\ Attach(ts, rs, u, <<u, k>>, "queued")
        \/ /\ ks[k] = Untracked
           /\ flushing # "no" \/ Cardinality(Queued \ Expired) >= LaneSize
           /\ tasks' = ts /\ byKey' = ks /\ receipt' = rs /\ UNCHANGED attached

\* Mutant: left to a worker that is free.
ReapWhenFree ==
  /\ flushing = "no" /\ Expired # {} /\ Cardinality(Busy) < LaneWorkers /\ Finish(Expired, FALSE)
  /\ UNCHANGED <<attached, tried, flushing>>

\* The reaper, every 250 ms until the shutdown.
Reap ==
  /\ flushing = "no" /\ Expired # {} /\ Finish(Expired, FALSE)
  /\ UNCHANGED <<attached, tried, flushing>>

-----------------------------------------------------------------------------
(* Workers *)

\* The deadline counts from the submission.
DeadlinePasses(j) ==
  /\ (At(j, "queued") \/ At(j, "run")) /\ ~tasks[j].overdue
  /\ tasks' = [tasks EXCEPT ![j].overdue = TRUE]
  /\ UNCHANGED <<byKey, receipt, attached, tried, flushing>>

\* Any queued job stands for the one the priorities put first.
Start(j) ==
  /\ At(j, "queued") /\ Cardinality(Busy) < LaneWorkers /\ flushing \in {"no", "joining"}
  /\ IF tasks[j].overdue THEN Finish({j}, FALSE)
     ELSE tasks' = [tasks EXCEPT ![j].st = "run"] /\ UNCHANGED <<byKey, receipt>>
  /\ UNCHANGED <<attached, tried, flushing>>

\* The operation ends in time, as an orphan, or within the grace of a cancelled
\* worker, which reports a failure whatever the operation did.
OperationEnds(j, ok) ==
  /\ Live(j) /\ Finish({j}, ok /\ ~At(j, "grace")) /\ UNCHANGED <<attached, tried, flushing>>

\* Mutant: the key and the receipts are released at the deadline.
OverrunReleases(j) ==
  /\ At(j, "run") /\ tasks[j].overdue
  /\ tasks' = [tasks EXCEPT ![j].st = "orphan", ![j].receipts = {}]
  /\ byKey' = Released({j}) /\ receipt' = Finished({j}, FALSE)
  /\ UNCHANGED <<attached, tried, flushing>>

\* At the deadline, and after the grace of a cancelled worker, the operation is
\* an orphan that keeps key and receipts.
Overrun(j) ==
  /\ (At(j, "run") /\ tasks[j].overdue) \/ At(j, "grace")
  /\ tasks' = [tasks EXCEPT ![j].st = "orphan"]
  /\ UNCHANGED <<byKey, receipt, attached, tried, flushing>>

-----------------------------------------------------------------------------
(* flush_privileged_tasks *)

BeginFlush ==
  /\ flushing = "no" /\ flushing' = "joining" /\ UNCHANGED <<tasks, byKey, receipt, attached, tried>>

\* All jobs are done, or the time is over: workers and operations are cancelled.
CancelAll ==
  /\ flushing = "joining" /\ flushing' = "cancelled"
  /\ tasks' = [j \in Jobs |-> IF At(j, "run") THEN [tasks[j] EXCEPT !.st = "grace"] ELSE tasks[j]]
  /\ UNCHANGED <<byKey, receipt, attached, tried>>

\* One second later the jobs that no worker took are retired.
Discard ==
  /\ flushing = "cancelled" /\ flushing' = "done" /\ Finish(Queued, FALSE)
  /\ UNCHANGED <<attached, tried>>

Next ==
  \/ \E u \in Updates : Seal(u) \/ \E k \in Keys : Submit(u, k)
  \/ \E j \in Jobs :
       \/ DeadlinePasses(j) \/ Start(j) \/ Overrun(j)
       \/ \E ok \in BOOLEAN : OperationEnds(j, ok)
  \/ Reap \/ BeginFlush \/ CancelAll \/ Discard

\* Clocks, the reaper and the flush go on, and a worker's grace ends.  Nothing
\* is assumed of the operations: an orphan may run for ever.
Fairness ==
  /\ \A j \in Jobs : WF_laneVars(DeadlinePasses(j)) /\ WF_laneVars(Overrun(j))
  /\ WF_laneVars(Reap) /\ WF_laneVars(CancelAll) /\ WF_laneVars(Discard)

Spec == Init /\ [][Next]_laneVars /\ Fairness

-----------------------------------------------------------------------------
(* Properties *)

\* Two operations of one key never run at the same time: neither the deadline
\* nor the shutdown gives the key away while the operation may have effects.
OneOperationPerKey ==
  \A i, j \in Jobs : i[2] = j[2] /\ Live(i) /\ Live(j) => i = j

\* An update leaves the inbox only when every operation it waits for is over,
\* and as a success only when all of them succeeded, its own or a duplicate's.
ReceiptsHonest ==
  \A u \in Updates : receipt[u].settled =>
    \A j \in attached[u] : ~Live(j) /\ (receipt[u].succeeded => tasks[j].outcome = "ok")

\* No job waits in the queue for ever, even when every worker is held by an
\* orphan that never ends: it starts, expires or is discarded.
QueueMovesOn == \A j \in Jobs : At(j, "queued") ~> ~At(j, "queued")

=============================================================================
