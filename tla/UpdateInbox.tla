----------------------------- MODULE UpdateInbox -----------------------------
(***************************************************************************)
(* The durable Telegram update inbox: class _WebhookUpdateQueue of         *)
(* bot/services/verify_web.py over the table webhook_inbox_updates, with   *)
(* the completion receipts of bot/services/update_completion.py.           *)
(*                                                                         *)
(* Webhook and polling both persist an update before it is acknowledged.   *)
(* A row is claimed under a lease, published to an in-memory lane, run by  *)
(* a worker of that lane, and then completed, given back for a retry or    *)
(* dead-lettered.  Handlers may hand work to a detached owner (deferred)   *)
(* or outlive their deadline (late); a finalizer then owns the lease.      *)
(*                                                                         *)
(* A lease timestamp is used by the code only as the identity of the claim *)
(* that wrote it and for its expiry, so it is modelled by the queued       *)
(* update object that holds it ("job") and by one Boolean, live.           *)
(***************************************************************************)
EXTENDS Naturals, FiniteSets

CONSTANTS
  Updates,      \* Telegram update ids
  Procs,        \* processor instances (a rolling deploy runs two)
  Jobs,         \* _QueuedWebhookUpdate objects
  NoJob,        \* no lease, or no in-flight entry
  NoUpdate,     \* the recovery loop holds no row
  Lanes,        \* queue lanes
  Ordinary,     \* the lane whose deadline runs from the enqueue
  Lane,         \* [Updates -> Lanes], from _classification_for_update
  Capacity,     \* [Lanes -> Nat], queue slots of a lane
  Workers,      \* [Lanes -> Nat], workers of a lane
  MaxAttempts,  \* _WEBHOOK_INBOX_MAX_ATTEMPTS
  DbFails,      \* may a write of a finalizer or a release raise?
  MaxExits      \* bound on process exits

ASSUME ConstantsAssumption ==
  /\ Updates # {} /\ Procs # {}
  /\ NoJob \notin Jobs
  /\ NoUpdate \notin Updates
  /\ Ordinary \in Lanes
  /\ Lane \in [Updates -> Lanes]
  /\ Capacity \in [Lanes -> Nat \ {0}]
  /\ Workers \in [Lanes -> Nat \ {0}]
  /\ MaxAttempts \in Nat \ {0}
  /\ DbFails \in BOOLEAN
  /\ MaxExits \in Nat

VARIABLES
  row,        \* the durable table, one row per update
  tg,         \* Telegram's side: "offered" until the acknowledgement arrives
  proc,       \* life cycle of a processor
  pub,        \* accept_durable_update and its publish task, per update
  rec,        \* the row the recovery loop is about to claim
  inflight,   \* _inflight_updates: the job that owns an update in a process
  job,        \* the queued-update objects
  exits,      \* crashes and orderly exits begun so far
  succeeded,  \* history: updates whose handler reported success
  spent       \* history: claims that used up an attempt

dbVars   == <<row, spent>>
memVars  == <<proc, pub, rec, inflight, job>>
vars     == <<row, tg, proc, pub, rec, inflight, job, exits, succeeded, spent>>

RowStatus == {"absent", "pending", "done", "dead", "purged"}
Row == [st : RowStatus, attempts : 0..MaxAttempts, lease : Jobs \cup {NoJob},
        live : BOOLEAN, delayed : BOOLEAN]

JobStatus == {"free", "claimed", "unclaiming", "queued", "running", "waiting",
              "completing", "releasing", "finishing", "orphaned"}
\* sync: the worker settles the row; deferred and late: a finalizer does;
\* orphan: cancelled at shutdown while its handler may still be running.
Modes == {"sync", "deferred", "late", "orphan"}
\* slack: the lease outlives the job's current phase (see LeaseExpires).
Job == [st : JobStatus, upd : Updates, proc : Procs, mode : Modes,
        recovery : BOOLEAN, slack : BOOLEAN]

TypeOK ==
  /\ row \in [Updates -> Row]
  /\ tg \in [Updates -> {"offered", "gone"}]
  /\ proc \in [Procs -> {"down", "running", "quiescing", "stopped"}]
  /\ pub \in [Procs -> [Updates -> {"idle", "persisted", "terminal", "spawned", "checked"}]]
  /\ rec \in [Procs -> Updates \cup {NoUpdate}]
  /\ inflight \in [Procs -> [Updates -> Jobs \cup {NoJob}]]
  /\ job \in [Jobs -> Job]
  /\ exits \in 0..MaxExits
  /\ succeeded \subseteq Updates
  /\ spent \in [Updates -> Nat]

-----------------------------------------------------------------------------
\* A row of a job that no process holds any more keeps its lease until a new
\* claim overwrites it, so a job is reusable only when no row names it.
Unused(j) == job[j].st = "free" /\ \A u \in Updates : row[u].lease # j

JobsOf(p) == {j \in Jobs : job[j].st # "free" /\ job[j].proc = p}

\* Mutant: one bounded queue shared by all lanes.
QueuedAnyLane(p, l) == {j \in JobsOf(p) : job[j].st = "queued"}

Queued(p, l)  == {j \in JobsOf(p) : job[j].st = "queued" /\ Lane[job[j].upd] = l}

\* Jobs that keep a worker of the lane busy; a deferred job does so until the
\* worker's own bookkeeping (WorkerDone) has run.
Busy(p, l) ==
  {j \in JobsOf(p) :
     /\ Lane[job[j].upd] = l
     /\ \/ job[j].mode \in {"sync", "orphan"}
           /\ job[j].st \in {"running", "completing", "releasing", "finishing"}
        \/ job[j].mode = "deferred" /\ inflight[p][job[j].upd] = j}

CanAccept(p, u) == Cardinality(Queued(p, Lane[u])) < Capacity[Lane[u]]

Holds(j) == row[job[j].upd].st = "pending" /\ row[job[j].upd].lease = j

Settled(u) == row[u].st \in {"done", "dead"}

\* Mutant: the attempt limit is not part of the claim's condition.
EligibleAnyAttempt(u) ==
  /\ row[u].st = "pending" /\ ~row[u].delayed
  /\ row[u].lease = NoJob \/ ~row[u].live

Eligible(u) ==
  /\ row[u].st = "pending"
  /\ row[u].attempts < MaxAttempts
  /\ ~row[u].delayed
  /\ row[u].lease = NoJob \/ ~row[u].live

Executing(j) == \/ job[j].st \in {"running", "waiting", "orphaned"}
                \/ job[j].mode = "orphan" /\ job[j].st # "free"

FreeJob == [st |-> "free", upd |-> CHOOSE u \in Updates : TRUE,
            proc |-> CHOOSE p \in Procs : TRUE, mode |-> "sync",
            recovery |-> FALSE, slack |-> FALSE]

\* The writes of the row's queries.
WithStatus(r, s)     == [r EXCEPT !.st = s]
WithLive(r, b)       == [r EXCEPT !.live = b]
Due(r)               == [r EXCEPT !.delayed = FALSE]
Unleased(r, s, d)    == [r EXCEPT !.st = s, !.lease = NoJob, !.live = FALSE, !.delayed = d]
Claimed(r, n, j)     == [r EXCEPT !.attempts = n, !.lease = j, !.live = TRUE,
                                  !.delayed = FALSE]
Unclaimed(r, n)      == [r EXCEPT !.attempts = n, !.lease = NoJob, !.live = FALSE,
                                  !.delayed = FALSE]
SetRow(u, r)         == row' = [row EXCEPT ![u] = r]

At(x, s)      == [x EXCEPT !.st = s]
AtAs(x, s, m) == [x EXCEPT !.st = s, !.mode = m]
Slacked(x, b) == [x EXCEPT !.slack = b]
Goto(j, s)    == job' = [job EXCEPT ![j] = At(job[j], s)]
GotoAs(j, s, m) == job' = [job EXCEPT ![j] = AtAs(job[j], s, m)]
SetSlack(j, b)  == job' = [job EXCEPT ![j] = Slacked(job[j], b)]
Leave(j)        == job' = [job EXCEPT ![j] = FreeJob]

\* A claim that has not reached its lane yet.
Unpublished(j) == job[j].st \in {"claimed", "unclaiming"}

Init ==
  /\ row = [u \in Updates |-> [st |-> "absent", attempts |-> 0, lease |-> NoJob,
                               live |-> FALSE, delayed |-> FALSE]]
  /\ tg = [u \in Updates |-> "offered"]
  /\ proc = [p \in Procs |-> "down"]
  /\ pub = [p \in Procs |-> [u \in Updates |-> "idle"]]
  /\ rec = [p \in Procs |-> NoUpdate]
  /\ inflight = [p \in Procs |-> [u \in Updates |-> NoJob]]
  /\ job = [j \in Jobs |-> FreeJob]
  /\ exits = 0
  /\ succeeded = {}
  /\ spent = [u \in Updates |-> 0]

-----------------------------------------------------------------------------
(* Acceptance: persist, acknowledge, publish to the in-memory lane.        *)

\* _ensure_durable_update: insert-or-ignore, then read whether it is settled.
Persist(p, u) ==
  /\ proc[p] = "running" /\ tg[u] = "offered" /\ pub[p][u] = "idle"
  /\ IF row[u].st = "absent" THEN SetRow(u, WithStatus(row[u], "pending")) ELSE row' = row
  /\ pub' = [pub EXCEPT ![p][u] = IF Settled(u) THEN "terminal" ELSE "persisted"]
  /\ UNCHANGED <<tg, proc, rec, inflight, job, exits, succeeded, spent>>

\* accept_durable_update returns: the transport acknowledges (the answer may
\* be lost, then Telegram delivers again) and a publish task is spawned.
Acknowledge(p, u) ==
  /\ pub[p][u] \in {"persisted", "terminal"}
  /\ tg' \in {tg, [tg EXCEPT ![u] = "gone"]}
  /\ pub' = [pub EXCEPT ![p][u] = IF @ = "terminal" THEN "idle" ELSE "spawned"]
  /\ UNCHANGED <<row, proc, rec, inflight, job, exits, succeeded, spent>>

\* First half of _enqueue_durable_update: everything before the claim.
PublishCheck(p, u) ==
  /\ pub[p][u] = "spawned"
  /\ pub' = [pub EXCEPT ![p][u] =
               IF /\ proc[p] = "running" /\ CanAccept(p, u)
                  /\ inflight[p][u] = NoJob /\ row[u].st # "purged"
               THEN "checked" ELSE "idle"]
  /\ UNCHANGED <<row, tg, proc, rec, inflight, job, exits, succeeded, spent>>

\* _recover_durable_once, one row of a page: everything before the claim.
RecoverCheck(p, u) ==
  /\ proc[p] = "running" /\ rec[p] = NoUpdate
  /\ ~\E j \in JobsOf(p) : job[j].recovery /\ Unpublished(j)
  /\ Eligible(u) /\ CanAccept(p, u) /\ inflight[p][u] = NoJob
  /\ rec' = [rec EXCEPT ![p] = u]
  /\ UNCHANGED <<row, tg, proc, pub, inflight, job, exits, succeeded, spent>>

\* _claim_durable_update, its one conditional UPDATE.
ClaimRow(u, j) == SetRow(u, Claimed(row[u], row[u].attempts + 1, j))

NewJob(p, u, j, recovery) ==
  job' = [job EXCEPT ![j] = [st |-> "claimed", upd |-> u, proc |-> p, mode |-> "sync",
                             recovery |-> recovery, slack |-> TRUE]]

PublishClaim(p, u) ==
  /\ pub[p][u] = "checked"
  /\ pub' = [pub EXCEPT ![p][u] = "idle"]
  /\ \/ ~Eligible(u) /\ UNCHANGED <<row, job>>
     \/ /\ Eligible(u)
        /\ \E j \in Jobs : Unused(j) /\ ClaimRow(u, j) /\ NewJob(p, u, j, FALSE)
  /\ UNCHANGED <<tg, proc, rec, inflight, exits, succeeded, spent>>

RecoverClaim(p) ==
  /\ rec[p] # NoUpdate
  /\ rec' = [rec EXCEPT ![p] = NoUpdate]
  /\ \/ ~Eligible(rec[p]) /\ UNCHANGED <<row, job>>
     \/ /\ Eligible(rec[p])
        /\ \E j \in Jobs : /\ Unused(j)
                           /\ ClaimRow(rec[p], j)
                           /\ NewJob(p, rec[p], j, TRUE)
  /\ UNCHANGED <<tg, proc, pub, inflight, exits, succeeded, spent>>

\* After the claim, under _dedup_lock: publish the job, or decide to give the
\* claim back because the lane filled up or the update became active.
Enqueue(j) ==
  LET p == job[j].proc  u == job[j].upd IN
  /\ job[j].st = "claimed"
  /\ IF inflight[p][u] = NoJob /\ CanAccept(p, u)
     THEN /\ Goto(j, "queued")
          /\ inflight' = [inflight EXCEPT ![p][u] = j]
          /\ spent' = [spent EXCEPT ![u] = @ + 1]
     ELSE Goto(j, "unclaiming") /\ UNCHANGED <<inflight, spent>>
  /\ UNCHANGED <<row, tg, proc, pub, rec, exits, succeeded>>

\* Mutant: the claim is given back without its attempt.
UnclaimKeepsAttempt(j) ==
  LET u == job[j].upd IN
  /\ job[j].st = "unclaiming"
  /\ Leave(j)
  /\ IF Holds(j) THEN SetRow(u, Unclaimed(row[u], row[u].attempts)) ELSE row' = row
  /\ UNCHANGED <<tg, proc, pub, rec, inflight, exits, succeeded, spent>>

\* _unclaim_durable_update: undo a claim that never reached a worker.
Unclaim(j) ==
  LET u == job[j].upd
      n == IF row[u].attempts = 0 THEN 0 ELSE row[u].attempts - 1 IN
  /\ job[j].st = "unclaiming"
  /\ Leave(j)
  /\ \/ /\ Holds(j)
        /\ SetRow(u, Unclaimed(row[u], n))
        /\ UNCHANGED spent
     \/ /\ ~Holds(j) \/ DbFails
        /\ spent' = [spent EXCEPT ![u] = @ + 1]
        /\ UNCHANGED row
  /\ UNCHANGED <<tg, proc, pub, rec, inflight, exits, succeeded>>

-----------------------------------------------------------------------------
(* A worker of the lane runs the handler and settles the row.              *)

\* Time spent waiting in a lane.  For the ordinary lane the 150 s budget that
\* runs from the enqueue is used up; in a reserved lane, whose budget starts
\* at the dequeue, the 300 s lease may now end while the handler runs.
QueueWait(j) ==
  /\ job[j].st = "queued" /\ job[j].slack
  /\ SetSlack(j, FALSE)
  /\ UNCHANGED <<row, tg, proc, pub, rec, inflight, exits, succeeded, spent>>

\* Mutant: a stage starts although its deadline has passed.
StartOverdue(j) ==
  LET p == job[j].proc  l == Lane[job[j].upd] IN
  /\ job[j].st = "queued"
  /\ proc[p] \in {"running", "quiescing"}
  /\ Cardinality(Busy(p, l)) < Workers[l]
  /\ Goto(j, "running")
  /\ UNCHANGED <<row, tg, proc, pub, rec, inflight, exits, succeeded, spent>>

\* _worker takes a job of its lane; _await_stage refuses to start a stage
\* whose deadline has passed.  (Lanes are FIFO; any queued job may go first.)
Start(j) ==
  LET p == job[j].proc  l == Lane[job[j].upd] IN
  /\ job[j].st = "queued"
  /\ proc[p] \in {"running", "quiescing"}
  /\ Cardinality(Busy(p, l)) < Workers[l]
  /\ Goto(j, IF l = Ordinary /\ ~job[j].slack THEN "releasing" ELSE "running")
  /\ UNCHANGED <<row, tg, proc, pub, rec, inflight, exits, succeeded, spent>>

\* Mutant: a failed handler takes the path of a successful one.
HandlerEndsFailureCompletes(j) ==
  /\ job[j].st = "running"
  /\ \/ Goto(j, "completing") /\ succeeded' \in {succeeded, succeeded \cup {job[j].upd}}
     \/ /\ \E m \in {"deferred", "late"} : GotoAs(j, "waiting", m)
        /\ UNCHANGED succeeded
  /\ UNCHANGED <<row, tg, proc, pub, rec, inflight, exits, spent>>

\* _process_update after feed_raw_update: the handler returned (also within
\* the grace after its cancellation), deferred to a detached owner, failed or
\* was cancelled at its deadline, or resisted the cancellation (late).
HandlerEnds(j) ==
  /\ job[j].st = "running"
  /\ \/ Goto(j, "completing") /\ succeeded' = succeeded \cup {job[j].upd}
     \/ /\ \/ Goto(j, "releasing")
           \/ \E m \in {"deferred", "late"} : GotoAs(j, "waiting", m)
        /\ UNCHANGED succeeded
  /\ UNCHANGED <<row, tg, proc, pub, rec, inflight, exits, spent>>

\* The receipt or the late handler a finalizer waits for reports its outcome.
WaitEnds(j) ==
  /\ job[j].st = "waiting"
  /\ \/ Goto(j, "completing") /\ succeeded' = succeeded \cup {job[j].upd}
     \/ Goto(j, "releasing") /\ UNCHANGED succeeded
  /\ UNCHANGED <<row, tg, proc, pub, rec, inflight, exits, spent>>

\* _wait_task_with_lease, one period: the lease is renewed, was lost, or the
\* write raised; the waiting goes on in every case.
Renew(j) ==
  /\ job[j].st = "waiting"
  /\ \/ /\ Holds(j)
        /\ SetRow(job[j].upd, WithLive(row[job[j].upd], TRUE))
        /\ SetSlack(j, TRUE)
     \/ /\ ~Holds(j) \/ DbFails
        /\ SetSlack(j, FALSE)
        /\ UNCHANGED row
  /\ UNCHANGED <<tg, proc, pub, rec, inflight, exits, succeeded, spent>>

\* Where a job goes once its row is settled or given up: the owner of the
\* in-flight entry still has to drop it.
AfterRow(j) ==
  IF job[j].mode = "deferred" /\ inflight[job[j].proc][job[j].upd] # j
  THEN Leave(j) ELSE Goto(j, "finishing")

\* _complete_durable_update.
Complete(j) ==
  LET u == job[j].upd IN
  /\ job[j].st = "completing"
  /\ \/ /\ Holds(j)
        /\ SetRow(u, Unleased(row[u], "done", FALSE))
        /\ AfterRow(j)
     \/ row[u].st = "done" /\ AfterRow(j) /\ UNCHANGED row
     \/ /\ DbFails \/ (~Holds(j) /\ row[u].st # "done")
        /\ Goto(j, "releasing")
        /\ UNCHANGED row
  /\ UNCHANGED <<tg, proc, pub, rec, inflight, exits, succeeded, spent>>

\* _release_durable_update: retry later, or dead-letter the last attempt.
Release(j) ==
  LET u == job[j].upd
      exhausted == row[u].attempts >= MaxAttempts IN
  /\ job[j].st = "releasing"
  /\ AfterRow(j)
  /\ \/ /\ Holds(j)
        /\ SetRow(u, Unleased(row[u], IF exhausted THEN "dead" ELSE "pending", ~exhausted))
     \/ (~Holds(j) \/ DbFails) /\ UNCHANGED row
  /\ UNCHANGED <<tg, proc, pub, rec, inflight, exits, succeeded, spent>>

\* Mutant: a failed update is left in the in-flight map.
ForgetOnlySettled(j) ==
  LET p == job[j].proc  u == job[j].upd IN
  inflight' = IF Settled(u) THEN [inflight EXCEPT ![p][u] = NoJob] ELSE inflight

Forget(j) ==
  LET p == job[j].proc  u == job[j].upd IN
  inflight' = IF inflight[p][u] = j THEN [inflight EXCEPT ![p][u] = NoJob] ELSE inflight

\* _finish_queued_update, and the finally block of _finalize_late_update.
Finish(j) ==
  /\ job[j].st = "finishing"
  /\ Forget(j)
  /\ IF job[j].mode = "orphan" THEN Goto(j, "orphaned") ELSE Leave(j)
  /\ UNCHANGED <<row, tg, proc, pub, rec, exits, succeeded, spent>>

\* Mutant: the late finalizer is not consulted before the entry is dropped.
WorkerDoneDespiteLate(j) ==
  /\ job[j].mode \in {"deferred", "late"}
  /\ job[j].st \in {"waiting", "completing", "releasing"}
  /\ inflight[job[j].proc][job[j].upd] = j
  /\ Forget(j)
  /\ UNCHANGED <<row, tg, proc, pub, rec, job, exits, succeeded, spent>>

\* _finish_queued_update of a job whose work was deferred: the worker reports
\* success and drops the in-flight entry while the finalizer still waits.
WorkerDone(j) ==
  /\ job[j].mode = "deferred"
  /\ job[j].st \in {"waiting", "completing", "releasing"}
  /\ inflight[job[j].proc][job[j].upd] = j
  /\ Forget(j)
  /\ UNCHANGED <<row, tg, proc, pub, rec, job, exits, succeeded, spent>>

-----------------------------------------------------------------------------
(* Time, retention, and the life cycle of a processor.                     *)

\* 300 s without a renewal.  While a job has slack its phase is shorter than
\* the lease: a claim waits at most one lock for its lane, an ordinary job
\* ends 152 s after its enqueue, a finalizer renews every 100 s.
LeaseExpires(u) ==
  LET j == row[u].lease IN
  /\ row[u].st = "pending" /\ j # NoJob /\ row[u].live
  /\ job[j].st \in {"free", "orphaned"} \/ ~job[j].slack
  /\ SetRow(u, WithLive(row[u], FALSE))
  /\ UNCHANGED <<tg, proc, pub, rec, inflight, job, exits, succeeded, spent>>

\* next_attempt_at is reached.
DelayPasses(u) ==
  /\ row[u].delayed
  /\ SetRow(u, Due(row[u]))
  /\ UNCHANGED <<tg, proc, pub, rec, inflight, job, exits, succeeded, spent>>

\* _cleanup_durable_inbox: settled rows leave after 7 or 30 days, long after
\* Telegram has stopped offering the update.
Purge(p, u) ==
  /\ proc[p] = "running" /\ Settled(u) /\ tg[u] = "gone"
  /\ SetRow(u, WithStatus(row[u], "purged"))
  /\ UNCHANGED <<tg, proc, pub, rec, inflight, job, exits, succeeded, spent>>

\* Mutant: a processor that starts revokes every lease.
BootRevokesLeases(p) ==
  /\ proc[p] = "down"
  /\ proc' = [proc EXCEPT ![p] = "running"]
  /\ row' = [u \in Updates |-> IF row[u].st = "pending"
                               THEN Unclaimed(row[u], row[u].attempts) ELSE row[u]]
  /\ UNCHANGED <<tg, pub, rec, inflight, job, exits, succeeded, spent>>

\* Mutant: exhausted rows are dead-lettered although their lease is live.
BootBuriesLive(p) ==
  /\ proc[p] = "down"
  /\ proc' = [proc EXCEPT ![p] = "running"]
  /\ row' = [u \in Updates |->
       IF row[u].st = "pending" /\ row[u].lease # NoJob
       THEN Unleased(row[u], "dead", FALSE)
       ELSE row[u]]
  /\ UNCHANGED <<tg, pub, rec, inflight, job, exits, succeeded, spent>>

\* start_recovery: _prepare_durable_recovery dead-letters exhausted rows whose
\* lease is over and never revokes a live lease.
Boot(p) ==
  /\ proc[p] = "down"
  /\ proc' = [proc EXCEPT ![p] = "running"]
  /\ row' = [u \in Updates |->
       IF /\ row[u].st = "pending" /\ row[u].attempts >= MaxAttempts
          /\ row[u].lease = NoJob \/ ~row[u].live
       THEN Unleased(row[u], "dead", FALSE)
       ELSE row[u]]
  /\ UNCHANGED <<tg, pub, rec, inflight, job, exits, succeeded, spent>>

\* Claims that vanish with their owner have used up an attempt.
Abandon(S) ==
  /\ job' = [j \in Jobs |-> IF j \in S THEN FreeJob ELSE job[j]]
  /\ spent' = [u \in Updates |->
       IF \E j \in S : job[j].upd = u /\ Unpublished(j) THEN spent[u] + 1 ELSE spent[u]]

\* quiesce: no new update is accepted and the recovery task is cancelled.
Quiesce(p) ==
  /\ proc[p] = "running" /\ exits < MaxExits
  /\ exits' = exits + 1
  /\ proc' = [proc EXCEPT ![p] = "quiescing"]
  /\ rec' = [rec EXCEPT ![p] = NoUpdate]
  /\ Abandon({j \in JobsOf(p) : job[j].recovery /\ Unpublished(j)})
  /\ UNCHANGED <<row, tg, pub, inflight, succeeded>>

\* _stop_impl once its drain window is over.
Stop(p) ==
  /\ proc[p] = "quiescing"
  /\ proc' = [proc EXCEPT ![p] = "stopped"]
  /\ UNCHANGED <<row, tg, pub, rec, inflight, job, exits, succeeded, spent>>

\* _discard_queued_updates.
Discard(j) ==
  /\ job[j].st = "queued" /\ proc[job[j].proc] = "stopped"
  /\ Goto(j, "releasing")
  /\ UNCHANGED <<row, tg, proc, pub, rec, inflight, exits, succeeded, spent>>

\* A cancelled worker releases its row; the handler may resist (orphan).
CancelWorker(j) ==
  /\ proc[job[j].proc] = "stopped" /\ job[j].mode = "sync"
  /\ job[j].st \in {"running", "completing"}
  /\ \E m \in IF job[j].st = "running" THEN {"sync", "orphan"} ELSE {"sync"} :
       GotoAs(j, "releasing", m)
  /\ UNCHANGED <<row, tg, proc, pub, rec, inflight, exits, succeeded, spent>>

\* Only the database survives the process.
Vanish(p) ==
  /\ proc' = [proc EXCEPT ![p] = "down"]
  /\ pub' = [pub EXCEPT ![p] = [u \in Updates |-> "idle"]]
  /\ rec' = [rec EXCEPT ![p] = NoUpdate]
  /\ inflight' = [inflight EXCEPT ![p] = [u \in Updates |-> NoJob]]
  /\ Abandon(JobsOf(p))
  /\ UNCHANGED <<row, tg, succeeded>>

Exit(p)  == proc[p] = "stopped" /\ Vanish(p) /\ UNCHANGED exits
Crash(p) == proc[p] # "down" /\ exits < MaxExits /\ exits' = exits + 1 /\ Vanish(p)

-----------------------------------------------------------------------------
Next ==
  \/ \E p \in Procs, u \in Updates :
       \/ Persist(p, u) \/ Acknowledge(p, u) \/ PublishCheck(p, u)
       \/ RecoverCheck(p, u) \/ PublishClaim(p, u) \/ Purge(p, u)
  \/ \E p \in Procs : RecoverClaim(p) \/ Boot(p) \/ Quiesce(p) \/ Stop(p)
                       \/ Exit(p) \/ Crash(p)
  \/ \E j \in Jobs :
       \/ Enqueue(j) \/ Unclaim(j) \/ QueueWait(j) \/ Start(j) \/ HandlerEnds(j)
       \/ WaitEnds(j) \/ Renew(j) \/ Complete(j) \/ Release(j) \/ Finish(j)
       \/ WorkerDone(j) \/ Discard(j) \/ CancelWorker(j)
  \/ \E u \in Updates : LeaseExpires(u) \/ DelayPasses(u)

Spec == Init /\ [][Next]_vars

-----------------------------------------------------------------------------
(* Fairness.  The event loop runs every ready task, the database answers,  *)
(* stages have hard deadlines, clocks advance, and the service manager     *)
(* restarts the process.  A late or deferred handler is assumed to end.    *)
(* The lanes are FIFO and a recovery pass visits every eligible row: a row *)
(* or job that keeps becoming ready is not passed over for ever.           *)

JobStep(j) ==
  \/ Enqueue(j) \/ Unclaim(j) \/ HandlerEnds(j) \/ WaitEnds(j) \/ Complete(j)
  \/ Release(j) \/ Finish(j) \/ WorkerDone(j) \/ Discard(j) \/ CancelWorker(j)

FairFor(S) ==
  /\ \A p \in Procs, u \in S :
       /\ WF_vars(Acknowledge(p, u)) /\ WF_vars(PublishCheck(p, u))
       /\ WF_vars(PublishClaim(p, u)) /\ SF_vars(RecoverCheck(p, u))
  /\ \A u \in S : WF_vars(LeaseExpires(u)) /\ WF_vars(DelayPasses(u))
  /\ \A j \in Jobs : /\ WF_vars(job[j].upd \in S /\ JobStep(j))
                     /\ SF_vars(job[j].upd \in S /\ Start(j))

\* The recovery loop is one task: it also publishes the rows outside S.
FairProcs ==
  /\ \A p \in Procs : WF_vars(RecoverClaim(p)) /\ WF_vars(Boot(p))
                      /\ WF_vars(Stop(p)) /\ WF_vars(Exit(p))
  /\ \A j \in Jobs : WF_vars(job[j].recovery /\ (Enqueue(j) \/ Unclaim(j)))

FairSpec == Spec /\ FairProcs /\ FairFor(Updates)

-----------------------------------------------------------------------------
(* Properties.                                                             *)

Barred(j) == \/ job[j].st \in {"queued", "running"}
             \/ job[j].mode = "late" /\ job[j].st = "waiting"

\* Inside one process an update is never queued, run or late-finalized by two
\* jobs at a time, whatever happens to its lease: the in-flight map that
\* _enqueue_durable_update, _recover_durable_once and _finish_queued_update
\* share is a barrier of its own.
OneCopyPerProcess ==
  \A i, j \in Jobs :
    Barred(i) /\ Barred(j) /\ job[i].proc = job[j].proc /\ job[i].upd = job[j].upd
      => i = j

\* A row is completed only after a handler, a receipt or a late handler of
\* that update reported success (_complete_durable_update is reached by no
\* failing path).
DoneMeansHandled == \A u \in Updates : row[u].st = "done" => u \in succeeded

Working(j) == job[j].st \in {"running", "waiting"}

\* With a healthy database no two workers or finalizers, in whichever
\* processes, work on one update: leases outlive the ordinary deadline, are
\* renewed by finalizers and are not revoked by a processor that starts.
ExclusiveWork ==
  \A i, j \in Jobs : Working(i) /\ Working(j) /\ job[i].upd = job[j].upd => i = j

\* _wait_task_with_lease: "The in-memory inflight entry remains the second
\* ownership barrier, so recovery in this process cannot replay the update
\* while the old task is still alive."
NoReplayWhileTaskAlive ==
  \A i, j \in Jobs :
    Working(i) /\ Working(j) /\ job[i].proc = job[j].proc /\ job[i].upd = job[j].upd
      => i = j

\* A handler never starts on an update that is already settled: no replay of
\* a completed or dead-lettered row from a queue entry that outlived it.
NoStartOnSettled ==
  [][\A j \in Jobs : job[j].st = "queued" /\ job'[j].st = "running"
                       => row[job[j].upd].st = "pending"]_vars

\* Every attempt a row counts was used by a job that reached a lane or was
\* lost with its process: queue pressure alone never brings a row closer to
\* the dead letter (_unclaim_durable_update undoes exactly its claim).
AttemptsAccounted ==
  \A u \in Updates :
    row[u].attempts = IF \E j \in Jobs : Unpublished(j) /\ job[j].upd = u
                      THEN spent[u] + 1 ELSE spent[u]

\* An exhausted row whose last lease ended without a release: no query of a
\* running processor selects it, only the next Boot.
Stranded(u) ==
  /\ row[u].st = "pending" /\ row[u].attempts = MaxAttempts
  /\ row[u].lease # NoJob /\ ~row[u].live

\* Every persisted update is eventually settled, over exits, restarts, full
\* lanes and failing writes, unless its last permitted claim is stranded.
EventuallySettled ==
  \A u \in Updates : row[u].st = "pending" ~> (Settled(u) \/ Stranded(u))

\* _prepare_durable_recovery: "Recovery queries already reclaim a row as soon
\* as its lease naturally expires."
ExpiredLeaseReclaimed ==
  \A u \in Updates :
    (row[u].st = "pending" /\ row[u].lease # NoJob /\ ~row[u].live)
      ~> (Settled(u) \/ row[u].lease = NoJob \/ row[u].live)

-----------------------------------------------------------------------------
(* The inductive invariant behind the safety properties.                   *)

\* A job that still owns its update's in-flight entry: every published job
\* but a deferred one, whose worker drops the entry before its finalizer ends.
OwnsEntry(x) ==
  /\ x.st \in {"queued", "running", "waiting", "completing", "releasing", "finishing"}
  /\ x.mode # "deferred"

\* Only a worker's verdict or a shutdown changes a job's mode.
ModeFits(x) ==
  x.st \in {"free", "claimed", "unclaiming", "queued", "running"} => x.mode = "sync"

EntryInv ==
  \A j \in Jobs :
    /\ ModeFits(job[j])
    /\ OwnsEntry(job[j]) => inflight[job[j].proc][job[j].upd] = j

\* Completion is reached over a reported success only.
HandledInv == \A j \in Jobs : job[j].st = "completing" => job[j].upd \in succeeded

\* A claim on its way to the lane cannot lose its row.
ClaimInv ==
  \A j \in Jobs : Unpublished(j) => Holds(j) /\ row[job[j].upd].live /\ job[j].slack

\* Jobs exist for accepted updates only.
AcceptedInv == \A j \in Jobs : job[j].st # "free" => row[job[j].upd].st # "absent"

\* Holds in every reachable state and is preserved by every step.
InductiveInv ==
  /\ EntryInv /\ HandledInv /\ DoneMeansHandled
  /\ ClaimInv /\ AttemptsAccounted /\ AcceptedInv

\* The inbox implements the at-least-once contract.
Contract == INSTANCE UpdateContract WITH
  status  <- [u \in Updates |-> row[u].st],
  handled <- succeeded,
  used    <- spent

\* Every step of the inbox is a step of the contract or leaves it unchanged:
\* no update is completed unhandled, dead-lettered early, revived or dropped.
ImplementsContract == Contract!CSpec

=============================================================================
