-------------------------- MODULE UpdateInboxProofs --------------------------
(***************************************************************************)
(* Theorems about the durable update inbox, for every set of updates,      *)
(* processes and jobs, every lane configuration and every attempt limit.   *)
(***************************************************************************)
EXTENDS UpdateInbox, TLAPS

\* The status sets are always expanded: they are plain enumerations.
USE DEF JobStatus, Modes, RowStatus

LEMMA FreeJobType == FreeJob \in Job
  BY ConstantsAssumption DEF FreeJob, Job

\* What the writes of a row's queries do to its columns, one fact per write.
LEMMA WithStatusRow ==
  \A r \in Row, s \in RowStatus :
    LET w == WithStatus(r, s) IN
    /\ w \in Row /\ w.st = s /\ w.attempts = r.attempts
    /\ w.lease = r.lease /\ w.live = r.live
  BY DEF Row, WithStatus

LEMMA WithLiveRow ==
  \A r \in Row, b \in BOOLEAN :
    LET w == WithLive(r, b) IN
    /\ w \in Row /\ w.st = r.st /\ w.attempts = r.attempts
    /\ w.lease = r.lease /\ w.live = b
  BY DEF Row, WithLive

LEMMA DueRow ==
  \A r \in Row :
    LET w == Due(r) IN
    /\ w \in Row /\ w.st = r.st /\ w.attempts = r.attempts
    /\ w.lease = r.lease /\ w.live = r.live
  BY DEF Row, Due

LEMMA UnleasedRow ==
  \A r \in Row, s \in RowStatus, b \in BOOLEAN :
    LET w == Unleased(r, s, b) IN
    /\ w \in Row /\ w.st = s /\ w.attempts = r.attempts
    /\ w.lease = NoJob /\ w.live = FALSE
  BY DEF Row, Unleased

LEMMA ClaimedRow ==
  \A r \in Row, n \in 0..MaxAttempts, j \in Jobs :
    LET w == Claimed(r, n, j) IN
    /\ w \in Row /\ w.st = r.st /\ w.attempts = n /\ w.lease = j /\ w.live = TRUE
  BY DEF Row, Claimed

LEMMA UnclaimedRow ==
  \A r \in Row, n \in 0..MaxAttempts :
    LET w == Unclaimed(r, n) IN
    /\ w \in Row /\ w.st = r.st /\ w.attempts = n /\ w.lease = NoJob /\ w.live = FALSE
  BY DEF Row, Unclaimed

LEMMA AtJob ==
  \A x \in Job, s \in JobStatus :
    LET y == At(x, s) IN
    /\ y \in Job /\ y.st = s /\ y.upd = x.upd /\ y.proc = x.proc
    /\ y.mode = x.mode /\ y.slack = x.slack
  BY DEF Job, At

LEMMA AtAsJob ==
  \A x \in Job, s \in JobStatus, m \in Modes :
    LET y == AtAs(x, s, m) IN
    /\ y \in Job /\ y.st = s /\ y.upd = x.upd /\ y.proc = x.proc /\ y.mode = m
    /\ y.slack = x.slack
<1> SUFFICES ASSUME NEW x \in Job, NEW s \in JobStatus, NEW m \in Modes
             PROVE  LET y == AtAs(x, s, m) IN
                    /\ y \in Job /\ y.st = s /\ y.upd = x.upd
                    /\ y.proc = x.proc /\ y.mode = m /\ y.slack = x.slack
  OBVIOUS
<1>1. AtAs(x, s, m) = [At(x, s) EXCEPT !.mode = m]
  BY DEF Job, AtAs, At
<1>2. QED  BY <1>1, AtJob DEF Job

LEMMA SlackedJob ==
  \A x \in Job, b \in BOOLEAN :
    LET y == Slacked(x, b) IN
    /\ y \in Job /\ y.st = x.st /\ y.upd = x.upd /\ y.proc = x.proc
    /\ y.mode = x.mode /\ y.slack = b
  BY DEF Job, Slacked

LEMMA InitType == Init => TypeOK
  BY ConstantsAssumption, FreeJobType DEF Init, TypeOK, Row

LEMMA SetRowType ==
  ASSUME TypeOK, NEW u \in Updates, NEW r \in Row, SetRow(u, r)
  PROVE  row' \in [Updates -> Row]
  BY DEF SetRow, TypeOK

LEMMA SetJobType ==
  ASSUME TypeOK, NEW j \in Jobs, NEW x \in Job, job' = [job EXCEPT ![j] = x]
  PROVE  job' \in [Jobs -> Job]
  BY DEF TypeOK

LEMMA GotoType ==
  ASSUME TypeOK, NEW j \in Jobs, NEW s \in JobStatus, Goto(j, s)
  PROVE  job' \in [Jobs -> Job]
  BY SetJobType, AtJob DEF TypeOK, Goto

LEMMA GotoAsType ==
  ASSUME TypeOK, NEW j \in Jobs, NEW s \in JobStatus, NEW m \in Modes, GotoAs(j, s, m)
  PROVE  job' \in [Jobs -> Job]
  BY SetJobType, AtAsJob DEF TypeOK, GotoAs

LEMMA SetSlackType ==
  ASSUME TypeOK, NEW j \in Jobs, NEW b \in BOOLEAN, SetSlack(j, b)
  PROVE  job' \in [Jobs -> Job]
  BY SetJobType, SlackedJob DEF TypeOK, SetSlack

LEMMA LeaveType ==
  ASSUME TypeOK, NEW j \in Jobs, Leave(j)
  PROVE  job' \in [Jobs -> Job]
  BY SetJobType, FreeJobType DEF Leave

LEMMA AcceptType ==
  ASSUME TypeOK, NEW p \in Procs, NEW u \in Updates,
         \/ Persist(p, u) \/ Acknowledge(p, u) \/ PublishCheck(p, u)
         \/ RecoverCheck(p, u) \/ Purge(p, u)
  PROVE  TypeOK'
<1>1. CASE Persist(p, u)
  BY <1>1, SetRowType, WithStatusRow DEF TypeOK, Persist
<1>2. CASE Acknowledge(p, u)
  BY <1>2 DEF TypeOK, Acknowledge
<1>3. CASE PublishCheck(p, u)
  BY <1>3 DEF TypeOK, PublishCheck
<1>4. CASE RecoverCheck(p, u)
  BY <1>4 DEF TypeOK, RecoverCheck
<1>5. CASE Purge(p, u)
  BY <1>5, SetRowType, WithStatusRow DEF TypeOK, Purge
<1>6. QED  BY <1>1, <1>2, <1>3, <1>4, <1>5

LEMMA ClaimRowType ==
  ASSUME TypeOK, NEW u \in Updates, NEW j \in Jobs, Eligible(u), ClaimRow(u, j)
  PROVE  row' \in [Updates -> Row]
<1>1. row[u].attempts + 1 \in 0..MaxAttempts
  BY ConstantsAssumption DEF TypeOK, Row, Eligible
<1>2. QED  BY <1>1, SetRowType, ClaimedRow DEF TypeOK, ClaimRow

LEMMA NewJobType ==
  ASSUME TypeOK, NEW p \in Procs, NEW u \in Updates, NEW j \in Jobs,
         NEW r \in BOOLEAN, NewJob(p, u, j, r)
  PROVE  job' \in [Jobs -> Job]
  BY DEF TypeOK, Job, NewJob

LEMMA ClaimType ==
  ASSUME TypeOK, NEW p \in Procs,
         RecoverClaim(p) \/ \E u \in Updates : PublishClaim(p, u)
  PROVE  TypeOK'
<1>1. ASSUME NEW u \in Updates, PublishClaim(p, u) PROVE TypeOK'
  <2>1. row' \in [Updates -> Row] /\ job' \in [Jobs -> Job]
    BY <1>1, ClaimRowType, NewJobType DEF PublishClaim, TypeOK
  <2>2. QED  BY <1>1, <2>1 DEF PublishClaim, TypeOK
<1>2. ASSUME RecoverClaim(p) PROVE TypeOK'
  <2>1. rec[p] \in Updates
    BY <1>2 DEF RecoverClaim, TypeOK
  <2>2. row' \in [Updates -> Row] /\ job' \in [Jobs -> Job]
    BY <1>2, <2>1, ClaimRowType, NewJobType DEF RecoverClaim, TypeOK
  <2>3. QED  BY <1>2, <2>2 DEF RecoverClaim, TypeOK
<1>3. QED  BY <1>1, <1>2

LEMMA ForgetType ==
  ASSUME TypeOK, NEW j \in Jobs, Forget(j)
  PROVE  inflight' \in [Procs -> [Updates -> Jobs \cup {NoJob}]]
  BY DEF TypeOK, Forget

LEMMA AfterRowType ==
  ASSUME TypeOK, NEW j \in Jobs, AfterRow(j)
  PROVE  job' \in [Jobs -> Job]
  BY GotoType, LeaveType DEF AfterRow

LEMMA JobType ==
  ASSUME TypeOK, NEW j \in Jobs,
         \/ Enqueue(j) \/ Unclaim(j) \/ QueueWait(j) \/ Start(j) \/ HandlerEnds(j)
         \/ WaitEnds(j) \/ Renew(j) \/ Complete(j) \/ Release(j) \/ Finish(j)
         \/ WorkerDone(j) \/ Discard(j) \/ CancelWorker(j)
  PROVE  TypeOK'
<1> DEFINE u == job[j].upd
           p == job[j].proc
<1>u. u \in Updates /\ p \in Procs
  BY DEF TypeOK, Job
<1>1. CASE Enqueue(j)
  <2>1. job' \in [Jobs -> Job]  BY <1>1, GotoType DEF Enqueue
  <2>2. inflight' \in [Procs -> [Updates -> Jobs \cup {NoJob}]]
    <3>1. inflight \in [Procs -> [Updates -> Jobs \cup {NoJob}]]  BY DEF TypeOK
    <3>2. inflight' = inflight \/ inflight' = [inflight EXCEPT ![p][u] = j]
      BY <1>1 DEF Enqueue
    <3>3. QED  BY <1>u, <3>1, <3>2
  <2>3. spent' \in [Updates -> Nat]
    BY <1>1, <1>u DEF Enqueue, TypeOK
  <2>4. QED  BY <1>1, <2>1, <2>2, <2>3 DEF Enqueue, TypeOK
<1>2. CASE Unclaim(j)
  <2>1. job' \in [Jobs -> Job]  BY <1>2, LeaveType DEF Unclaim
  <2>2. row' \in [Updates -> Row]
    <3>1. (IF row[u].attempts = 0 THEN 0 ELSE row[u].attempts - 1) \in 0..MaxAttempts
      BY <1>u, ConstantsAssumption DEF TypeOK, Row
    <3>2. QED  BY <1>2, <1>u, <3>1, SetRowType, UnclaimedRow DEF Unclaim, TypeOK
  <2>3. spent' \in [Updates -> Nat]
    BY <1>2, <1>u DEF Unclaim, TypeOK
  <2>4. QED  BY <1>2, <2>1, <2>2, <2>3 DEF Unclaim, TypeOK
<1>3. CASE QueueWait(j)
  BY <1>3, SetSlackType DEF QueueWait, TypeOK
<1>4. CASE Start(j)
  <2>1. job' \in [Jobs -> Job]  BY <1>4, GotoType DEF Start
  <2>2. QED  BY <1>4, <2>1 DEF Start, TypeOK
<1>5. CASE HandlerEnds(j)
  <2>1. job' \in [Jobs -> Job]
    BY <1>5, GotoType, GotoAsType DEF HandlerEnds
  <2>2. QED  BY <1>5, <1>u, <2>1 DEF HandlerEnds, TypeOK
<1>6. CASE WaitEnds(j)
  <2>1. job' \in [Jobs -> Job]  BY <1>6, GotoType DEF WaitEnds
  <2>2. QED  BY <1>6, <1>u, <2>1 DEF WaitEnds, TypeOK
<1>7. CASE Renew(j)
  <2>1. job' \in [Jobs -> Job]  BY <1>7, SetSlackType DEF Renew
  <2>2. row' \in [Updates -> Row]  BY <1>7, <1>u, SetRowType, WithLiveRow DEF Renew, TypeOK
  <2>3. QED  BY <1>7, <2>1, <2>2 DEF Renew, TypeOK
<1>8. CASE Complete(j)
  <2>1. job' \in [Jobs -> Job]  BY <1>8, GotoType, AfterRowType DEF Complete
  <2>2. row' \in [Updates -> Row]  BY <1>8, <1>u, SetRowType, UnleasedRow DEF Complete, TypeOK
  <2>3. QED  BY <1>8, <2>1, <2>2 DEF Complete, TypeOK
<1>9. CASE Release(j)
  <2>1. job' \in [Jobs -> Job]  BY <1>9, AfterRowType DEF Release
  <2>2. row' \in [Updates -> Row]  BY <1>9, <1>u, SetRowType, UnleasedRow DEF Release, TypeOK
  <2>3. QED  BY <1>9, <2>1, <2>2 DEF Release, TypeOK
<1>10. CASE Finish(j)
  <2>1. job' \in [Jobs -> Job]  BY <1>10, GotoType, LeaveType DEF Finish
  <2>2. QED  BY <1>10, <2>1, ForgetType DEF Finish, TypeOK
<1>11. CASE WorkerDone(j)
  BY <1>11, ForgetType DEF WorkerDone, TypeOK
<1>12. CASE Discard(j)
  <2>1. job' \in [Jobs -> Job]  BY <1>12, GotoType DEF Discard
  <2>2. QED  BY <1>12, <2>1 DEF Discard, TypeOK
<1>13. CASE CancelWorker(j)
  <2>1. job' \in [Jobs -> Job]  BY <1>13, GotoAsType DEF CancelWorker
  <2>2. QED  BY <1>13, <2>1 DEF CancelWorker, TypeOK
<1>14. QED
  BY <1>1, <1>2, <1>3, <1>4, <1>5, <1>6, <1>7, <1>8, <1>9, <1>10, <1>11, <1>12, <1>13

LEMMA AbandonType ==
  ASSUME TypeOK, NEW S, Abandon(S)
  PROVE  job' \in [Jobs -> Job] /\ spent' \in [Updates -> Nat]
  BY FreeJobType DEF TypeOK, Abandon

LEMMA ProcType ==
  ASSUME TypeOK, NEW p \in Procs,
         Boot(p) \/ Quiesce(p) \/ Stop(p) \/ Exit(p) \/ Crash(p)
  PROVE  TypeOK'
<1>1. CASE Boot(p)
  <2>1. row' \in [Updates -> Row]  BY <1>1, UnleasedRow DEF Boot, TypeOK
  <2>2. QED  BY <1>1, <2>1 DEF Boot, TypeOK
<1>2. CASE Quiesce(p)
  <2>1. exits' \in 0..MaxExits  BY <1>2, ConstantsAssumption DEF Quiesce, TypeOK
  <2>2. QED  BY <1>2, <2>1, AbandonType DEF Quiesce, TypeOK
<1>3. CASE Stop(p)
  BY <1>3 DEF Stop, TypeOK
<1>4. CASE Exit(p) \/ Crash(p)
  <2>1. exits' \in 0..MaxExits
    BY <1>4, ConstantsAssumption DEF Exit, Crash, TypeOK
  <2>2. Vanish(p)  BY <1>4 DEF Exit, Crash
  <2>3. QED  BY <2>1, <2>2, AbandonType DEF Vanish, TypeOK
<1>5. QED  BY <1>1, <1>2, <1>3, <1>4

LEMMA TimeType ==
  ASSUME TypeOK, NEW u \in Updates, LeaseExpires(u) \/ DelayPasses(u)
  PROVE  TypeOK'
  BY SetRowType, WithLiveRow, DueRow DEF LeaseExpires, DelayPasses, TypeOK

LEMMA NextType == TypeOK /\ [Next]_vars => TypeOK'
<1> SUFFICES ASSUME TypeOK, [Next]_vars PROVE TypeOK'
  OBVIOUS
<1>1. CASE Next
  BY <1>1, AcceptType, ClaimType, JobType, ProcType, TimeType DEF Next
<1>2. CASE UNCHANGED vars
  BY <1>2 DEF vars, TypeOK
<1>3. QED  BY <1>1, <1>2

\* Every reachable state of the inbox is well typed; in particular no claim
\* ever takes a row beyond its attempt limit (_claim_durable_update).
THEOREM TypeCorrect == Spec => []TypeOK
  BY InitType, NextType, PTL DEF Spec

-----------------------------------------------------------------------------
(* The in-flight map bars a second copy of an update inside a process.     *)

LEMMA FreeJobStatus == FreeJob.st = "free" /\ FreeJob.mode = "sync"
  BY DEF FreeJob

\* A job may move as long as it does not come to own an entry it lacks.
LEMMA EntryMove ==
  ASSUME TypeOK, EntryInv, NEW j \in Jobs, NEW x \in Job,
         job' = [job EXCEPT ![j] = x], UNCHANGED inflight,
         ModeFits(x),
         OwnsEntry(x) => /\ OwnsEntry(job[j])
                         /\ x.upd = job[j].upd /\ x.proc = job[j].proc
  PROVE  EntryInv'
  BY DEF TypeOK, EntryInv

\* Dropping an entry harms no other job, nor a job that does not own it.
LEMMA EntryForget ==
  ASSUME TypeOK, EntryInv, NEW j \in Jobs, NEW x \in Job, Forget(j),
         job' = [job EXCEPT ![j] = x], ModeFits(x), ~OwnsEntry(x)
  PROVE  EntryInv'
<1> SUFFICES ASSUME NEW i \in Jobs
             PROVE  /\ ModeFits(job'[i])
                    /\ OwnsEntry(job'[i]) => inflight'[job'[i].proc][job'[i].upd] = i
  BY DEF EntryInv
<1>1. CASE i = j
  BY <1>1 DEF TypeOK
<1>2. CASE i # j
  <2>1. job'[i] = job[i]
    BY <1>2 DEF TypeOK
  <2>2. job[i].proc \in Procs /\ job[i].upd \in Updates
    BY DEF TypeOK, Job
  <2>3. ASSUME inflight[job[i].proc][job[i].upd] = i
        PROVE  inflight'[job[i].proc][job[i].upd] = i
    BY <1>2, <2>2, <2>3 DEF Forget, TypeOK
  <2>4. QED  BY <2>1, <2>3 DEF EntryInv
<1>3. QED  BY <1>1, <1>2

LEMMA EntryUnchanged ==
  ASSUME EntryInv, UNCHANGED <<inflight, job>> PROVE EntryInv'
  BY DEF EntryInv

LEMMA EntryNewJob ==
  ASSUME TypeOK, EntryInv, NEW p \in Procs, NEW u \in Updates, NEW j \in Jobs,
         NEW r \in BOOLEAN, NewJob(p, u, j, r), UNCHANGED inflight
  PROVE  EntryInv'
<1> DEFINE x == [st |-> "claimed", upd |-> u, proc |-> p, mode |-> "sync",
                 recovery |-> r, slack |-> TRUE]
<1>1. x \in Job /\ ModeFits(x) /\ ~OwnsEntry(x)
  BY DEF Job, ModeFits, OwnsEntry
<1>2. QED  BY <1>1, EntryMove DEF NewJob

LEMMA EntryAbandon ==
  ASSUME TypeOK, EntryInv, NEW S, Abandon(S), UNCHANGED inflight
  PROVE  EntryInv'
<1> SUFFICES ASSUME NEW i \in Jobs
             PROVE  /\ ModeFits(job'[i])
                    /\ OwnsEntry(job'[i]) => inflight[job'[i].proc][job'[i].upd] = i
  BY DEF EntryInv
<1>1. job'[i] = FreeJob \/ job'[i] = job[i]
  BY DEF Abandon, TypeOK
<1>2. QED  BY <1>1, FreeJobStatus DEF EntryInv, ModeFits, OwnsEntry

LEMMA EntryVanish ==
  ASSUME TypeOK, EntryInv, NEW p \in Procs, Vanish(p)
  PROVE  EntryInv'
<1> SUFFICES ASSUME NEW i \in Jobs
             PROVE  /\ ModeFits(job'[i])
                    /\ OwnsEntry(job'[i]) => inflight'[job'[i].proc][job'[i].upd] = i
  BY DEF EntryInv
<1>1. CASE i \in JobsOf(p)
  <2>1. job'[i] = FreeJob  BY <1>1 DEF Vanish, Abandon, TypeOK
  <2>2. QED  BY <2>1, FreeJobStatus DEF ModeFits, OwnsEntry
<1>2. CASE i \notin JobsOf(p)
  <2>1. job'[i] = job[i]  BY <1>2 DEF Vanish, Abandon, TypeOK
  <2>2. ModeFits(job[i])  BY DEF EntryInv
  <2>3. ASSUME OwnsEntry(job[i]) PROVE inflight'[job[i].proc][job[i].upd] = i
    <3>1. job[i].proc # p  BY <1>2, <2>3 DEF JobsOf, OwnsEntry
    <3>2. job[i].proc \in Procs  BY DEF TypeOK, Job
    <3>3. inflight'[job[i].proc] = inflight[job[i].proc]
      BY <3>1, <3>2 DEF Vanish, TypeOK
    <3>4. QED  BY <2>3, <3>3 DEF EntryInv
  <2>4. QED  BY <2>1, <2>2, <2>3
<1>3. QED  BY <1>1, <1>2

LEMMA EntryJob ==
  ASSUME TypeOK, EntryInv, NEW j \in Jobs,
         \/ Enqueue(j) \/ Unclaim(j) \/ QueueWait(j) \/ Start(j) \/ HandlerEnds(j)
         \/ WaitEnds(j) \/ Renew(j) \/ Complete(j) \/ Release(j) \/ Finish(j)
         \/ WorkerDone(j) \/ Discard(j) \/ CancelWorker(j)
  PROVE  EntryInv'
<1> DEFINE x == job[j]
<1>x. x \in Job /\ ModeFits(x)
  BY DEF TypeOK, EntryInv
<1>f. ModeFits(FreeJob) /\ ~OwnsEntry(FreeJob)
  BY FreeJobStatus DEF ModeFits, OwnsEntry
<1>leave. ASSUME Leave(j), UNCHANGED inflight PROVE EntryInv'
  BY <1>leave, <1>f, FreeJobType, EntryMove DEF Leave
<1>goto. ASSUME NEW s \in JobStatus, Goto(j, s), UNCHANGED inflight,
                ModeFits(At(x, s)), OwnsEntry(At(x, s)) => OwnsEntry(x)
         PROVE  EntryInv'
  BY <1>goto, <1>x, AtJob, EntryMove DEF Goto
<1>after. ASSUME AfterRow(j), UNCHANGED inflight,
                 x.st \in {"completing", "releasing"}
          PROVE  EntryInv'
  <2>1. ModeFits(At(x, "finishing"))
    BY <1>x, AtJob DEF ModeFits
  <2>2. OwnsEntry(At(x, "finishing")) => OwnsEntry(x)
    BY <1>after, <1>x, AtJob DEF OwnsEntry
  <2>3. QED  BY <1>after, <1>goto, <1>leave, <2>1, <2>2 DEF AfterRow
<1>1. CASE Enqueue(j)
  <2>1. CASE Goto(j, "unclaiming") /\ UNCHANGED inflight
    <3>1. ModeFits(At(x, "unclaiming")) /\ ~OwnsEntry(At(x, "unclaiming"))
      BY <1>1, <1>x, AtJob DEF Enqueue, ModeFits, OwnsEntry
    <3>2. QED  BY <2>1, <3>1, <1>goto
  <2>2. CASE /\ inflight[x.proc][x.upd] = NoJob /\ Goto(j, "queued")
             /\ inflight' = [inflight EXCEPT ![x.proc][x.upd] = j]
    <3> SUFFICES ASSUME NEW i \in Jobs
                 PROVE  /\ ModeFits(job'[i])
                        /\ OwnsEntry(job'[i]) => inflight'[job'[i].proc][job'[i].upd] = i
      BY DEF EntryInv
    <3>1. x.proc \in Procs /\ x.upd \in Updates
      BY <1>x DEF Job
    <3>2. CASE i = j
      <4>1. job'[j] = At(x, "queued")  BY <2>2 DEF Goto, TypeOK
      <4>2. ModeFits(At(x, "queued"))
        BY <1>1, <1>x, AtJob DEF Enqueue, ModeFits
      <4>3. inflight'[x.proc][x.upd] = j  BY <2>2, <3>1 DEF TypeOK
      <4>4. QED  BY <3>2, <4>1, <4>2, <4>3, <1>x, AtJob
    <3>3. CASE i # j
      <4>1. job'[i] = job[i]  BY <2>2, <3>3 DEF Goto, TypeOK
      <4>2. job[i].proc \in Procs /\ job[i].upd \in Updates
        BY DEF TypeOK, Job
      <4>3. ASSUME inflight[job[i].proc][job[i].upd] = i
            PROVE  inflight'[job[i].proc][job[i].upd] = i
        BY <2>2, <3>1, <4>2, <4>3, ConstantsAssumption DEF TypeOK
      <4>4. QED  BY <4>1, <4>3 DEF EntryInv
    <3>4. QED  BY <3>2, <3>3
  <2>3. QED  BY <1>1, <2>1, <2>2 DEF Enqueue
<1>2. CASE Unclaim(j)
  BY <1>2, <1>leave DEF Unclaim
<1>3. CASE QueueWait(j)
  <2>1. ModeFits(Slacked(x, FALSE)) /\ (OwnsEntry(Slacked(x, FALSE)) => OwnsEntry(x))
    BY <1>x, SlackedJob DEF ModeFits, OwnsEntry
  <2>2. QED  BY <1>3, <1>x, <2>1, SlackedJob, EntryMove DEF QueueWait, SetSlack
<1>4. CASE Start(j)
  <2>1. ASSUME NEW s \in {"running", "releasing"}
        PROVE  ModeFits(At(x, s)) /\ (OwnsEntry(At(x, s)) => OwnsEntry(x))
    BY <1>4, <1>x, AtJob DEF Start, ModeFits, OwnsEntry
  <2>2. QED  BY <1>4, <1>goto, <2>1 DEF Start
<1>5. CASE HandlerEnds(j)
  <2>1. ASSUME NEW s \in {"completing", "releasing"}
        PROVE  ModeFits(At(x, s)) /\ (OwnsEntry(At(x, s)) => OwnsEntry(x))
    BY <1>5, <1>x, AtJob DEF HandlerEnds, ModeFits, OwnsEntry
  <2>2. ASSUME NEW m \in {"deferred", "late"}, GotoAs(j, "waiting", m)
        PROVE  EntryInv'
    <3>1. /\ AtAs(x, "waiting", m) \in Job
          /\ AtAs(x, "waiting", m).upd = x.upd /\ AtAs(x, "waiting", m).proc = x.proc
          /\ AtAs(x, "waiting", m).st = "waiting"
      BY <1>x, AtAsJob
    <3>2. ModeFits(AtAs(x, "waiting", m)) /\ OwnsEntry(x)
      BY <1>5, <1>x, <3>1 DEF HandlerEnds, ModeFits, OwnsEntry
    <3>3. QED  BY <1>5, <2>2, <3>1, <3>2, EntryMove DEF HandlerEnds, GotoAs
  <2>3. QED  BY <1>5, <1>goto, <2>1, <2>2 DEF HandlerEnds
<1>6. CASE WaitEnds(j)
  <2>1. ASSUME NEW s \in {"completing", "releasing"}
        PROVE  ModeFits(At(x, s)) /\ (OwnsEntry(At(x, s)) => OwnsEntry(x))
    BY <1>6, <1>x, AtJob DEF WaitEnds, ModeFits, OwnsEntry
  <2>2. QED  BY <1>6, <1>goto, <2>1 DEF WaitEnds
<1>7. CASE Renew(j)
  <2>1. ASSUME NEW b \in BOOLEAN
        PROVE  ModeFits(Slacked(x, b)) /\ (OwnsEntry(Slacked(x, b)) => OwnsEntry(x))
    BY <1>x, SlackedJob DEF ModeFits, OwnsEntry
  <2>2. ASSUME NEW b \in BOOLEAN, SetSlack(j, b), UNCHANGED inflight PROVE EntryInv'
    BY <1>x, <2>1, <2>2, SlackedJob, EntryMove DEF SetSlack
  <2>3. QED  BY <1>7, <2>2 DEF Renew
<1>8. CASE Complete(j)
  <2>1. ModeFits(At(x, "releasing")) /\ (OwnsEntry(At(x, "releasing")) => OwnsEntry(x))
    BY <1>8, <1>x, AtJob DEF Complete, ModeFits, OwnsEntry
  <2>2. QED  BY <1>8, <1>goto, <1>after, <2>1 DEF Complete
<1>9. CASE Release(j)
  BY <1>9, <1>after DEF Release
<1>10. CASE Finish(j)
  <2>1. ModeFits(At(x, "orphaned")) /\ ~OwnsEntry(At(x, "orphaned"))
    BY <1>x, AtJob DEF ModeFits, OwnsEntry
  <2>2. QED
    BY <1>10, <1>f, <1>x, <2>1, AtJob, FreeJobType, EntryForget DEF Finish, Goto, Leave
<1>11. CASE WorkerDone(j)
  <2>1. job' = [job EXCEPT ![j] = x] /\ ~OwnsEntry(x)
    BY <1>11 DEF WorkerDone, OwnsEntry, TypeOK
  <2>2. QED  BY <1>11, <1>x, <2>1, EntryForget DEF WorkerDone
<1>12. CASE Discard(j)
  <2>1. ModeFits(At(x, "releasing")) /\ (OwnsEntry(At(x, "releasing")) => OwnsEntry(x))
    BY <1>12, <1>x, AtJob DEF Discard, ModeFits, OwnsEntry
  <2>2. QED  BY <1>12, <1>goto, <2>1 DEF Discard
<1>13. CASE CancelWorker(j)
  <2>1. PICK m \in {"sync", "orphan"} : GotoAs(j, "releasing", m)
    BY <1>13 DEF CancelWorker
  <2>2. /\ AtAs(x, "releasing", m) \in Job
        /\ AtAs(x, "releasing", m).upd = x.upd /\ AtAs(x, "releasing", m).proc = x.proc
        /\ AtAs(x, "releasing", m).st = "releasing"
    BY <1>x, AtAsJob
  <2>3. ModeFits(AtAs(x, "releasing", m)) /\ OwnsEntry(x)
    BY <1>13, <1>x, <2>2 DEF CancelWorker, ModeFits, OwnsEntry
  <2>4. QED  BY <1>13, <2>1, <2>2, <2>3, EntryMove DEF CancelWorker, GotoAs
<1>14. QED
  BY <1>1, <1>2, <1>3, <1>4, <1>5, <1>6, <1>7, <1>8, <1>9, <1>10, <1>11, <1>12, <1>13

LEMMA EntryNext == TypeOK /\ EntryInv /\ [Next]_vars => EntryInv'
<1> SUFFICES ASSUME TypeOK, EntryInv, [Next]_vars PROVE EntryInv'
  OBVIOUS
<1>1. ASSUME NEW p \in Procs, NEW u \in Updates,
             \/ Persist(p, u) \/ Acknowledge(p, u) \/ PublishCheck(p, u)
             \/ RecoverCheck(p, u) \/ Purge(p, u) \/ Boot(p) \/ Stop(p)
             \/ LeaseExpires(u) \/ DelayPasses(u)
      PROVE  EntryInv'
  BY <1>1, EntryUnchanged
     DEF Persist, Acknowledge, PublishCheck, RecoverCheck, Purge, Boot, Stop,
         LeaseExpires, DelayPasses
<1>2. ASSUME NEW p \in Procs, NEW u \in Updates, PublishClaim(p, u) PROVE EntryInv'
  BY <1>2, EntryUnchanged, EntryNewJob DEF PublishClaim
<1>3. ASSUME NEW p \in Procs, RecoverClaim(p) PROVE EntryInv'
  <2>1. rec[p] \in Updates  BY <1>3 DEF RecoverClaim, TypeOK
  <2>2. QED  BY <1>3, <2>1, EntryUnchanged, EntryNewJob DEF RecoverClaim
<1>4. ASSUME NEW p \in Procs, Quiesce(p) PROVE EntryInv'
  BY <1>4, EntryAbandon DEF Quiesce
<1>5. ASSUME NEW p \in Procs, Exit(p) \/ Crash(p) PROVE EntryInv'
  BY <1>5, EntryVanish DEF Exit, Crash
<1>6. CASE UNCHANGED vars
  BY <1>6, EntryUnchanged DEF vars
<1>7. QED
  <2>1. PICK u \in Updates : TRUE  BY ConstantsAssumption
  <2>2. PICK p \in Procs : TRUE  BY ConstantsAssumption
  <2>3. QED
    BY <1>1, <1>2, <1>3, <1>4, <1>5, <1>6, <2>1, <2>2, EntryJob DEF Next

LEMMA EntryAlways == Spec => []EntryInv
<1>1. Init => EntryInv
  BY FreeJobStatus DEF Init, EntryInv, ModeFits, OwnsEntry
<1>2. QED  BY <1>1, EntryNext, TypeCorrect, PTL DEF Spec

\* Whatever happens to leases and processes, no process ever queues, runs or
\* late-finalizes two copies of an update (_inflight_updates).
THEOREM OneCopy == Spec => []OneCopyPerProcess
<1>1. TypeOK /\ EntryInv => OneCopyPerProcess
  <2> SUFFICES ASSUME TypeOK, EntryInv, NEW i \in Jobs, NEW j \in Jobs,
                      Barred(i), Barred(j), job[i].proc = job[j].proc,
                      job[i].upd = job[j].upd
               PROVE  i = j
    BY DEF OneCopyPerProcess
  <2>1. OwnsEntry(job[i]) /\ OwnsEntry(job[j])
    BY DEF Barred, OwnsEntry, EntryInv, ModeFits
  <2>2. QED  BY <2>1 DEF EntryInv
<1>2. QED  BY <1>1, TypeCorrect, EntryAlways, PTL

-----------------------------------------------------------------------------
(* Completion only after a reported success.                               *)

\* What a step may do to a job, as far as its update and status matter: keep
\* it, free it, move it, or claim an unused one.
LEMMA GotoFields ==
  ASSUME TypeOK, NEW j \in Jobs, NEW s \in JobStatus, Goto(j, s)
  PROVE  /\ job'[j].st = s /\ job'[j].upd = job[j].upd
         /\ job'[j].slack = job[j].slack
         /\ \A i \in Jobs \ {j} : job'[i] = job[i]
  BY AtJob DEF Goto, TypeOK

LEMMA GotoAsFields ==
  ASSUME TypeOK, NEW j \in Jobs, NEW s \in JobStatus, NEW m \in Modes, GotoAs(j, s, m)
  PROVE  /\ job'[j].st = s /\ job'[j].upd = job[j].upd
         /\ \A i \in Jobs \ {j} : job'[i] = job[i]
  BY AtAsJob DEF GotoAs, TypeOK

LEMMA SetSlackFields ==
  ASSUME TypeOK, NEW j \in Jobs, NEW b \in BOOLEAN, SetSlack(j, b)
  PROVE  /\ job'[j].st = job[j].st /\ job'[j].upd = job[j].upd
         /\ \A i \in Jobs \ {j} : job'[i] = job[i]
  BY SlackedJob DEF SetSlack, TypeOK

LEMMA LeaveFields ==
  ASSUME TypeOK, NEW j \in Jobs, Leave(j)
  PROVE  /\ job'[j].st = "free"
         /\ \A i \in Jobs \ {j} : job'[i] = job[i]
  BY FreeJobStatus DEF Leave, TypeOK

LEMMA AfterRowFields ==
  ASSUME TypeOK, NEW j \in Jobs, AfterRow(j)
  PROVE  /\ \/ job'[j].st = "free"
            \/ job'[j].st = "finishing" /\ job'[j].upd = job[j].upd
         /\ \A i \in Jobs \ {j} : job'[i] = job[i]
  BY GotoFields, LeaveFields DEF AfterRow

LEMMA NewJobFields ==
  ASSUME TypeOK, NEW p \in Procs, NEW u \in Updates, NEW j \in Jobs,
         NEW r \in BOOLEAN, NewJob(p, u, j, r)
  PROVE  /\ job'[j].st = "claimed" /\ job'[j].upd = u /\ job'[j].slack = TRUE
         /\ \A i \in Jobs \ {j} : job'[i] = job[i]
  BY DEF NewJob, TypeOK

LEMMA AbandonFields ==
  ASSUME TypeOK, NEW S \in SUBSET Jobs, Abandon(S)
  PROVE  /\ \A i \in S : job'[i].st = "free"
         /\ \A i \in Jobs \ S : job'[i] = job[i]
  BY FreeJobStatus DEF Abandon

\* Only a reported success leads to a completion.
LEMMA HandledNext ==
  TypeOK /\ HandledInv /\ [Next]_vars => HandledInv' /\ succeeded \subseteq succeeded'
<1> SUFFICES ASSUME TypeOK, HandledInv, [Next]_vars
             PROVE  HandledInv' /\ succeeded \subseteq succeeded'
  OBVIOUS
<1> DEFINE Same == UNCHANGED <<job, succeeded>>
<1>same. ASSUME Same PROVE HandledInv' /\ succeeded \subseteq succeeded'
  BY <1>same DEF HandledInv
<1>move. ASSUME NEW j \in Jobs, \A i \in Jobs \ {j} : job'[i] = job[i],
                succeeded \subseteq succeeded',
                job'[j].st = "completing" => job'[j].upd \in succeeded'
         PROVE  HandledInv' /\ succeeded \subseteq succeeded'
  BY <1>move DEF HandledInv
<1>gone. ASSUME NEW S \in SUBSET Jobs, Abandon(S), UNCHANGED succeeded
         PROVE  HandledInv' /\ succeeded \subseteq succeeded'
  BY <1>gone, AbandonFields DEF HandledInv
<1>1. ASSUME NEW p \in Procs, NEW u \in Updates,
             \/ Persist(p, u) \/ Acknowledge(p, u) \/ PublishCheck(p, u)
             \/ RecoverCheck(p, u) \/ Purge(p, u) \/ Boot(p) \/ Stop(p)
             \/ LeaseExpires(u) \/ DelayPasses(u)
      PROVE  Same
  BY <1>1
     DEF Persist, Acknowledge, PublishCheck, RecoverCheck, Purge, Boot, Stop,
         LeaseExpires, DelayPasses
<1>2. ASSUME NEW p \in Procs, RecoverClaim(p) \/ \E u \in Updates : PublishClaim(p, u)
      PROVE  HandledInv' /\ succeeded \subseteq succeeded'
  <2>1. RecoverClaim(p) => rec[p] \in Updates  BY DEF RecoverClaim, TypeOK
  <2>2. QED  BY <1>2, <1>same, <1>move, <2>1, NewJobFields DEF RecoverClaim, PublishClaim
<1>3. ASSUME NEW p \in Procs, Quiesce(p) \/ Exit(p) \/ Crash(p)
      PROVE  HandledInv' /\ succeeded \subseteq succeeded'
  <2>1. PICK S \in SUBSET Jobs : Abandon(S) /\ UNCHANGED succeeded
    BY <1>3 DEF Quiesce, Exit, Crash, Vanish, JobsOf
  <2>2. QED  BY <2>1, <1>gone
<1>4. ASSUME NEW j \in Jobs, Enqueue(j) \/ Start(j) \/ Discard(j)
      PROVE  HandledInv' /\ succeeded \subseteq succeeded'
  BY <1>4, <1>move, GotoFields DEF Enqueue, Start, Discard
<1>5. ASSUME NEW j \in Jobs, Unclaim(j) \/ Finish(j)
      PROVE  HandledInv' /\ succeeded \subseteq succeeded'
  BY <1>5, <1>move, GotoFields, LeaveFields DEF Unclaim, Finish
<1>6. ASSUME NEW j \in Jobs, QueueWait(j) \/ Renew(j)
      PROVE  HandledInv' /\ succeeded \subseteq succeeded'
  BY <1>6, <1>move, SetSlackFields DEF QueueWait, Renew
<1>7. ASSUME NEW j \in Jobs, HandlerEnds(j) \/ WaitEnds(j)
      PROVE  HandledInv' /\ succeeded \subseteq succeeded'
  BY <1>7, <1>move, GotoFields, GotoAsFields DEF HandlerEnds, WaitEnds
<1>8. ASSUME NEW j \in Jobs, Complete(j) \/ Release(j)
      PROVE  HandledInv' /\ succeeded \subseteq succeeded'
  BY <1>8, <1>move, GotoFields, AfterRowFields DEF Complete, Release
<1>9. ASSUME NEW j \in Jobs, WorkerDone(j) PROVE Same
  BY <1>9 DEF WorkerDone
<1>10. ASSUME NEW j \in Jobs, CancelWorker(j)
       PROVE  HandledInv' /\ succeeded \subseteq succeeded'
  BY <1>10, <1>move, GotoAsFields DEF CancelWorker
<1>11. CASE UNCHANGED vars
  BY <1>11, <1>same DEF vars
<1>12. QED
  <2>1. PICK u \in Updates : TRUE  BY ConstantsAssumption
  <2>2. PICK p \in Procs : TRUE  BY ConstantsAssumption
  <2>3. QED
    BY <1>same, <1>1, <1>2, <1>3, <1>4, <1>5, <1>6, <1>7, <1>8, <1>9, <1>10, <1>11,
       <2>1, <2>2 DEF Next
-----------------------------------------------------------------------------
(* Attempts: a claim that never reached its lane is undone exactly.        *)

Tally == ClaimInv /\ AttemptsAccounted

\* At most one claim of an update is on its way to a lane: both would hold
\* the row's lease.
LEMMA OneClaim ==
  ASSUME ClaimInv, NEW i \in Jobs, NEW j \in Jobs, Unpublished(i), Unpublished(j),
         job[i].upd = job[j].upd
  PROVE  i = j
  BY DEF ClaimInv, Holds

\* A step that touches neither an unpublished claim nor the row under it.
LEMMA TallySame ==
  ASSUME TypeOK, Tally, UNCHANGED spent,
         \A j \in Jobs :
           /\ Unpublished(j)' <=> Unpublished(j)
           /\ Unpublished(j) => job'[j].upd = job[j].upd /\ job'[j].slack,
         \A j \in Jobs : Unpublished(j) =>
           LET r == row'[job[j].upd] IN r.st = "pending" /\ r.lease = j /\ r.live,
         \A u \in Updates : row'[u].attempts = row[u].attempts
  PROVE  Tally'
<1>1. ClaimInv'
  BY DEF Tally, ClaimInv, Holds
<1>2. ASSUME NEW u \in Updates
      PROVE  (\E j \in Jobs : Unpublished(j) /\ job[j].upd = u)'
               <=> (\E j \in Jobs : Unpublished(j) /\ job[j].upd = u)
  OBVIOUS
<1>3. AttemptsAccounted'
  BY <1>2 DEF Tally, AttemptsAccounted
<1>4. QED  BY <1>1, <1>3 DEF Tally

\* The usual step of a published job j: it stays published and its row may
\* change only if it holds it.
LEMMA TallyMove ==
  ASSUME TypeOK, Tally, UNCHANGED spent, NEW j \in Jobs,
         ~Unpublished(j), ~Unpublished(j)',
         \A i \in Jobs \ {j} : job'[i] = job[i],
         \/ UNCHANGED row
         \/ /\ Holds(j)
            /\ \E r \in Row : /\ SetRow(job[j].upd, r)
                              /\ r.attempts = row[job[j].upd].attempts
  PROVE  Tally'
<1>u. job[j].upd \in Updates
  BY DEF TypeOK, Job
<1>1. ASSUME NEW i \in Jobs, Unpublished(i) PROVE row'[job[i].upd] = row[job[i].upd]
  <2>1. job[i].upd \in Updates  BY DEF TypeOK, Job
  <2>2. CASE UNCHANGED row  BY <2>2
  <2>3. CASE Holds(j) /\ \E r \in Row : SetRow(job[j].upd, r)
    <3>1. job[i].upd # job[j].upd
      BY <1>1, <2>3 DEF Tally, ClaimInv, Holds
    <3>2. QED  BY <2>1, <2>3, <3>1 DEF SetRow, TypeOK
  <2>4. QED  BY <2>2, <2>3
<1>2. \A u \in Updates : row'[u].attempts = row[u].attempts
  BY <1>u DEF SetRow, TypeOK
<1>3. \A i \in Jobs : Unpublished(i)' <=> Unpublished(i)
  BY DEF Unpublished
<1>4. \A i \in Jobs : Unpublished(i) => job'[i].upd = job[i].upd /\ job'[i].slack
  BY DEF Tally, ClaimInv
<1>5. \A i \in Jobs : Unpublished(i) =>
        LET r == row'[job[i].upd] IN r.st = "pending" /\ r.lease = i /\ r.live
  BY <1>1 DEF Tally, ClaimInv, Holds
<1>6. QED  BY <1>2, <1>3, <1>4, <1>5, TallySame

\* A row that no unpublished claim stands on may change freely, but for its
\* attempts.
LEMMA TallyRow ==
  ASSUME TypeOK, Tally, UNCHANGED <<spent, job>>,
         \A u \in Updates :
           /\ row'[u].attempts = row[u].attempts
           /\ \/ row'[u] = row[u]
              \/ row[u].st # "pending" \/ ~row[u].live
              \/ row'[u].st = row[u].st /\ row'[u].lease = row[u].lease
                 /\ row'[u].live = row[u].live
              \/ \A j \in Jobs : Unpublished(j) => job[j].upd # u
  PROVE  Tally'
<1>1. \A j \in Jobs : Unpublished(j) =>
        LET r == row'[job[j].upd] IN r.st = "pending" /\ r.lease = j /\ r.live
  BY DEF Tally, ClaimInv, Holds, TypeOK, Job
<1>2. \A j \in Jobs : (Unpublished(j)' <=> Unpublished(j))
                      /\ (Unpublished(j) => job'[j].upd = job[j].upd /\ job'[j].slack)
  BY DEF Unpublished, Tally, ClaimInv
<1>3. QED  BY <1>1, <1>2, TallySame

LEMMA TallyClaim ==
  ASSUME TypeOK, Tally, UNCHANGED spent, NEW p \in Procs, NEW u \in Updates,
         NEW j \in Jobs, NEW b \in BOOLEAN,
         Eligible(u), Unused(j), ClaimRow(u, j), NewJob(p, u, j, b)
  PROVE  Tally'
<1>1. \A i \in Jobs : Unpublished(i) => job[i].upd # u
  BY ConstantsAssumption DEF Tally, ClaimInv, Holds, Eligible
<1>2. row[u].attempts + 1 \in 0..MaxAttempts
  BY ConstantsAssumption DEF TypeOK, Row, Eligible
<1>3. /\ row'[u].st = "pending" /\ row'[u].lease = j /\ row'[u].live
      /\ row'[u].attempts = row[u].attempts + 1
  BY <1>2, ClaimedRow DEF ClaimRow, SetRow, TypeOK, Eligible
<1>4. \A v \in Updates \ {u} : row'[v] = row[v]
  BY DEF ClaimRow, SetRow, TypeOK
<1>5. /\ Unpublished(j)' /\ job'[j].upd = u /\ job'[j].slack
      /\ \A i \in Jobs \ {j} : job'[i] = job[i]
  <2>1. /\ job'[j].st = "claimed" /\ job'[j].upd = u /\ job'[j].slack = TRUE
        /\ \A i \in Jobs \ {j} : job'[i] = job[i]
    BY DEF NewJob, TypeOK
  <2>2. QED  BY <2>1 DEF Unpublished
<1>6. ClaimInv'
  <2> SUFFICES ASSUME NEW i \in Jobs, Unpublished(i)'
               PROVE  Holds(i)' /\ row'[job'[i].upd].live /\ job'[i].slack
    BY DEF ClaimInv
  <2>1. CASE i = j
    BY <1>3, <1>5, <2>1 DEF Holds
  <2>2. CASE i # j
    <3>1. Unpublished(i) /\ job'[i] = job[i]
      BY <1>5, <2>2 DEF Unpublished
    <3>2. job[i].upd \in Updates \ {u}
      BY <1>1, <3>1 DEF TypeOK, Job
    <3>3. QED  BY <1>4, <3>1, <3>2 DEF Tally, ClaimInv, Holds
  <2>3. QED  BY <2>1, <2>2
<1>7. AttemptsAccounted'
  <2> SUFFICES ASSUME NEW v \in Updates
               PROVE  row'[v].attempts =
                        IF \E i \in Jobs : Unpublished(i)' /\ job'[i].upd = v
                        THEN spent[v] + 1 ELSE spent[v]
    BY DEF AttemptsAccounted
  <2>1. CASE v = u
    <3>1. row[u].attempts = spent[u]
      BY <1>1 DEF Tally, AttemptsAccounted
    <3>2. QED  BY <1>3, <1>5, <2>1, <3>1
  <2>2. CASE v # u
    <3>1. (\E i \in Jobs : Unpublished(i)' /\ job'[i].upd = v)
            <=> (\E i \in Jobs : Unpublished(i) /\ job[i].upd = v)
      BY <1>5, <2>2 DEF Unpublished, Unused
    <3>2. QED  BY <1>4, <2>2, <3>1 DEF Tally, AttemptsAccounted
  <2>3. QED  BY <2>1, <2>2
<1>8. QED  BY <1>6, <1>7 DEF Tally

\* Claims that disappear, by publication, by a failed undo or with their
\* owner, have used up the attempt they counted.
LEMMA TallyGone ==
  ASSUME TypeOK, Tally, UNCHANGED row, NEW S \in SUBSET Jobs,
         \A j \in S : ~Unpublished(j)',
         \A j \in Jobs \ S : job'[j] = job[j],
         spent' = [u \in Updates |->
           IF \E j \in S : job[j].upd = u /\ Unpublished(j) THEN spent[u] + 1 ELSE spent[u]]
  PROVE  Tally'
<1>1. ClaimInv'
  BY DEF Tally, ClaimInv, Holds, Unpublished
<1>2. AttemptsAccounted'
  <2> SUFFICES ASSUME NEW u \in Updates
               PROVE  row[u].attempts =
                        IF \E j \in Jobs : Unpublished(j)' /\ job'[j].upd = u
                        THEN spent'[u] + 1 ELSE spent'[u]
    BY DEF AttemptsAccounted
  <2>0. spent[u] \in Nat  BY DEF TypeOK
  <2>1. CASE \E j \in S : job[j].upd = u /\ Unpublished(j)
    <3>1. PICK j \in S : job[j].upd = u /\ Unpublished(j)  BY <2>1
    <3>2. ~\E i \in Jobs : Unpublished(i)' /\ job'[i].upd = u
      BY <3>1, OneClaim DEF Tally, Unpublished
    <3>3. spent'[u] = spent[u] + 1 /\ row[u].attempts = spent[u] + 1
      BY <2>1, <3>1 DEF Tally, AttemptsAccounted
    <3>4. QED  BY <3>2, <3>3
  <2>2. CASE ~\E j \in S : job[j].upd = u /\ Unpublished(j)
    <3>1. (\E j \in Jobs : Unpublished(j)' /\ job'[j].upd = u)
            <=> (\E j \in Jobs : Unpublished(j) /\ job[j].upd = u)
      BY <2>2 DEF Unpublished
    <3>2. spent'[u] = spent[u]  BY <2>2
    <3>3. QED  BY <3>1, <3>2 DEF Tally, AttemptsAccounted
  <2>3. QED  BY <2>1, <2>2
<1>3. QED  BY <1>1, <1>2 DEF Tally

LEMMA TallyUnclaim ==
  ASSUME TypeOK, Tally, NEW j \in Jobs, Unclaim(j)
  PROVE  Tally'
<1> DEFINE u == job[j].upd
           n == IF row[u].attempts = 0 THEN 0 ELSE row[u].attempts - 1
<1>u. u \in Updates /\ Unpublished(j) /\ job'[j].st = "free"
      /\ \A i \in Jobs \ {j} : job'[i] = job[i]
  BY LeaveFields DEF Unclaim, TypeOK, Job, Unpublished
<1>1. CASE Holds(j) /\ SetRow(u, Unclaimed(row[u], n)) /\ UNCHANGED spent
  <2>1. row[u].attempts = spent[u] + 1 /\ spent[u] \in Nat
    BY <1>u DEF Tally, AttemptsAccounted, TypeOK
  <2>2. n \in 0..MaxAttempts /\ n = spent[u]
    <3>1. row[u].attempts \in 0..MaxAttempts /\ MaxAttempts \in Nat
      BY <1>u, ConstantsAssumption DEF TypeOK, Row
    <3>2. QED  BY <2>1, <3>1
  <2>3. row'[u].attempts = spent[u] /\ \A v \in Updates \ {u} : row'[v] = row[v]
    BY <1>1, <1>u, <2>2, UnclaimedRow DEF SetRow, TypeOK
  <2>4. \A i \in Jobs : Unpublished(i)' => i # j /\ Unpublished(i) /\ job[i].upd # u
    BY <1>u, OneClaim DEF Tally, Unpublished
  <2>5. ClaimInv'
    <3> SUFFICES ASSUME NEW i \in Jobs, Unpublished(i)'
                 PROVE  Holds(i)' /\ row'[job'[i].upd].live /\ job'[i].slack
      BY DEF ClaimInv
    <3>1. job'[i] = job[i] /\ Unpublished(i) /\ job[i].upd \in Updates \ {u}
      BY <1>u, <2>4 DEF TypeOK, Job
    <3>2. QED  BY <2>3, <3>1 DEF Tally, ClaimInv, Holds
  <2>6. AttemptsAccounted'
    <3> SUFFICES ASSUME NEW v \in Updates
                 PROVE  row'[v].attempts =
                          IF \E i \in Jobs : Unpublished(i)' /\ job'[i].upd = v
                          THEN spent[v] + 1 ELSE spent[v]
      BY <1>1 DEF AttemptsAccounted
    <3>1. CASE v = u
      BY <1>u, <2>3, <2>4, <3>1
    <3>2. CASE v # u
      <4>1. (\E i \in Jobs : Unpublished(i)' /\ job'[i].upd = v)
              <=> (\E i \in Jobs : Unpublished(i) /\ job[i].upd = v)
        BY <1>u, <2>4, <3>2 DEF Unpublished
      <4>2. QED  BY <2>3, <3>2, <4>1 DEF Tally, AttemptsAccounted
    <3>3. QED  BY <3>1, <3>2
  <2>7. QED  BY <2>5, <2>6 DEF Tally
<1>2. CASE UNCHANGED row /\ spent' = [spent EXCEPT ![u] = @ + 1]
  <2>1. spent' = [v \in Updates |->
          IF \E i \in {j} : job[i].upd = v /\ Unpublished(i) THEN spent[v] + 1 ELSE spent[v]]
    BY <1>2, <1>u DEF TypeOK
  <2>2. /\ {j} \in SUBSET Jobs
        /\ \A i \in {j} : ~Unpublished(i)'
        /\ \A i \in Jobs \ {j} : job'[i] = job[i]
    BY <1>u DEF Unpublished
  <2>3. QED  BY <1>2, <2>1, <2>2, TallyGone
<1>3. QED  BY <1>1, <1>2 DEF Unclaim

LEMMA TallyEnqueue ==
  ASSUME TypeOK, Tally, NEW j \in Jobs, Enqueue(j)
  PROVE  Tally'
<1> DEFINE u == job[j].upd
<1>u. u \in Updates /\ Unpublished(j)
  BY DEF Enqueue, TypeOK, Job, Unpublished
<1>1. CASE Goto(j, "queued") /\ spent' = [spent EXCEPT ![u] = @ + 1]
  <2>1. spent' = [v \in Updates |->
          IF \E i \in {j} : job[i].upd = v /\ Unpublished(i) THEN spent[v] + 1 ELSE spent[v]]
    BY <1>1, <1>u DEF TypeOK
  <2>2. /\ {j} \in SUBSET Jobs
        /\ \A i \in {j} : ~Unpublished(i)'
        /\ \A i \in Jobs \ {j} : job'[i] = job[i]
    BY <1>1, GotoFields DEF Unpublished
  <2>3. UNCHANGED row  BY DEF Enqueue
  <2>4. QED  BY <2>1, <2>2, <2>3, TallyGone
<1>2. CASE Goto(j, "unclaiming") /\ UNCHANGED spent
  <2>1. /\ job'[j].st = "unclaiming" /\ job'[j].upd = u /\ job'[j].slack = job[j].slack
        /\ \A i \in Jobs \ {j} : job'[i] = job[i]
    BY <1>2, GotoFields
  <2>2. \A i \in Jobs : (Unpublished(i)' <=> Unpublished(i))
                        /\ (Unpublished(i) => job'[i].upd = job[i].upd /\ job'[i].slack)
    BY <1>u, <2>1 DEF Unpublished, Tally, ClaimInv
  <2>3. \A i \in Jobs : Unpublished(i) =>
          LET r == row'[job[i].upd] IN r.st = "pending" /\ r.lease = i /\ r.live
    BY DEF Tally, ClaimInv, Holds, Enqueue
  <2>4. QED  BY <1>2, <2>2, <2>3, TallySame DEF Enqueue
<1>3. QED  BY <1>1, <1>2 DEF Enqueue

LEMMA TallyPublished ==
  ASSUME TypeOK, Tally, NEW j \in Jobs,
         \/ QueueWait(j) \/ Start(j) \/ HandlerEnds(j) \/ WaitEnds(j) \/ Renew(j)
         \/ Complete(j) \/ Release(j) \/ Finish(j) \/ WorkerDone(j) \/ Discard(j)
         \/ CancelWorker(j)
  PROVE  Tally'
<1> DEFINE u == job[j].upd
<1>u. row[u] \in Row /\ u \in Updates
  BY DEF TypeOK, Job
<1>1. CASE QueueWait(j) \/ Renew(j)
  <2>1. /\ ~Unpublished(j) /\ ~Unpublished(j)' /\ \A i \in Jobs \ {j} : job'[i] = job[i]
    BY <1>1, SetSlackFields DEF QueueWait, Renew, Unpublished
  <2>2. \/ UNCHANGED row
        \/ Holds(j) /\ \E r \in Row : SetRow(u, r) /\ r.attempts = row[u].attempts
    BY <1>1, <1>u, WithLiveRow DEF QueueWait, Renew
  <2>3. QED  BY <1>1, <2>1, <2>2, TallyMove DEF QueueWait, Renew
<1>2. CASE Start(j) \/ Discard(j) \/ Finish(j)
  <2>1. /\ ~Unpublished(j) /\ ~Unpublished(j)' /\ \A i \in Jobs \ {j} : job'[i] = job[i]
    BY <1>2, GotoFields, LeaveFields DEF Start, Discard, Finish, Unpublished
  <2>2. QED  BY <1>2, <2>1, TallyMove DEF Start, Discard, Finish
<1>3. CASE HandlerEnds(j) \/ WaitEnds(j) \/ CancelWorker(j)
  <2>1. /\ ~Unpublished(j) /\ ~Unpublished(j)' /\ \A i \in Jobs \ {j} : job'[i] = job[i]
    BY <1>3, GotoFields, GotoAsFields DEF HandlerEnds, WaitEnds, CancelWorker, Unpublished
  <2>2. QED  BY <1>3, <2>1, TallyMove DEF HandlerEnds, WaitEnds, CancelWorker
<1>4. CASE Complete(j) \/ Release(j)
  <2>1. /\ ~Unpublished(j) /\ ~Unpublished(j)' /\ \A i \in Jobs \ {j} : job'[i] = job[i]
    BY <1>4, GotoFields, AfterRowFields DEF Complete, Release, Unpublished
  <2>r. ASSUME NEW r \in Row, r.attempts = row[u].attempts, Holds(j), SetRow(u, r)
        PROVE  \/ UNCHANGED row
               \/ Holds(j) /\ \E q \in Row : SetRow(u, q) /\ q.attempts = row[u].attempts
    BY <2>r
  <2>2. \/ UNCHANGED row
        \/ Holds(j) /\ \E r \in Row : SetRow(u, r) /\ r.attempts = row[u].attempts
    <3>1. CASE Complete(j)
      BY <3>1, <2>r, <1>u, UnleasedRow DEF Complete
    <3>2. CASE Release(j)
      BY <3>2, <2>r, <1>u, UnleasedRow DEF Release
    <3>3. QED  BY <1>4, <3>1, <3>2
  <2>3. QED  BY <1>4, <2>1, <2>2, TallyMove DEF Complete, Release
<1>5. CASE WorkerDone(j)
  BY <1>5, TallyRow DEF WorkerDone
<1>6. QED  BY <1>1, <1>2, <1>3, <1>4, <1>5
LEMMA TallyNext == TypeOK /\ Tally /\ [Next]_vars => Tally'
<1> SUFFICES ASSUME TypeOK, Tally, [Next]_vars PROVE Tally'
  OBVIOUS
<1>t. ASSUME NEW u \in Updates
      PROVE  /\ row[u] \in Row
             /\ \A j \in Jobs : Unpublished(j) /\ job[j].upd = u =>
                  row[u].st = "pending" /\ row[u].lease = j /\ row[u].live /\ job[j].slack
  BY DEF TypeOK, Tally, ClaimInv, Holds
<1>1. ASSUME NEW p \in Procs, NEW u \in Updates,
             Persist(p, u) \/ Purge(p, u) \/ DelayPasses(u)
      PROVE  Tally'
  <2>1. \A v \in Updates \ {u} : row'[v] = row[v]
    BY <1>1 DEF Persist, Purge, DelayPasses, SetRow, TypeOK
  <2>2. /\ row'[u].attempts = row[u].attempts
        /\ \/ row[u].st # "pending"
           \/ row'[u] = row[u]
           \/ row'[u].st = row[u].st /\ row'[u].lease = row[u].lease
              /\ row'[u].live = row[u].live
    BY <1>1, <1>t, WithStatusRow, DueRow
       DEF Persist, Purge, DelayPasses, SetRow, Settled, TypeOK
  <2>3. QED  BY <1>1, <2>1, <2>2, TallyRow DEF Persist, Purge, DelayPasses
<1>2. ASSUME NEW u \in Updates, LeaseExpires(u) PROVE Tally'
  <2>1. \A v \in Updates \ {u} : row'[v] = row[v]
    BY <1>2 DEF LeaseExpires, SetRow, TypeOK
  <2>2. row'[u].attempts = row[u].attempts
    BY <1>2, <1>t, WithLiveRow DEF LeaseExpires, SetRow, TypeOK
  <2>3. \A j \in Jobs : Unpublished(j) => job[j].upd # u
    BY <1>2, <1>t DEF LeaseExpires, Unpublished
  <2>4. QED  BY <1>2, <2>1, <2>2, <2>3, TallyRow DEF LeaseExpires
<1>3. ASSUME NEW p \in Procs, Boot(p) PROVE Tally'
  <2>1. ASSUME NEW u \in Updates
        PROVE  /\ row'[u].attempts = row[u].attempts
               /\ row'[u] = row[u] \/ row[u].lease = NoJob \/ ~row[u].live
    BY <1>3, <1>t, UnleasedRow DEF Boot
  <2>2. ASSUME NEW u \in Updates, row[u].lease = NoJob
        PROVE  \A j \in Jobs : Unpublished(j) => job[j].upd # u
    BY <1>t, <2>2, ConstantsAssumption
  <2>3. QED  BY <1>3, <2>1, <2>2, TallyRow DEF Boot
<1>4. ASSUME NEW p \in Procs, NEW u \in Updates,
             Acknowledge(p, u) \/ PublishCheck(p, u) \/ RecoverCheck(p, u) \/ Stop(p)
      PROVE  Tally'
  BY <1>4, TallyRow DEF Acknowledge, PublishCheck, RecoverCheck, Stop
<1>5. ASSUME NEW p \in Procs, NEW u \in Updates, PublishClaim(p, u) PROVE Tally'
  BY <1>5, TallyRow, TallyClaim DEF PublishClaim
<1>6. ASSUME NEW p \in Procs, RecoverClaim(p) PROVE Tally'
  <2>1. rec[p] \in Updates  BY <1>6 DEF RecoverClaim, TypeOK
  <2>2. QED  BY <1>6, <2>1, TallyRow, TallyClaim DEF RecoverClaim
<1>7. ASSUME NEW p \in Procs, Quiesce(p) \/ Exit(p) \/ Crash(p) PROVE Tally'
  <2>1. PICK S \in SUBSET Jobs : Abandon(S) /\ UNCHANGED row
    BY <1>7 DEF Quiesce, Exit, Crash, Vanish, JobsOf
  <2>2. \A j \in S : ~Unpublished(j)'
    BY <2>1, AbandonFields DEF Unpublished
  <2>3. QED  BY <2>1, <2>2, AbandonFields, TallyGone DEF Abandon
<1>8. CASE UNCHANGED vars
  BY <1>8, TallyRow DEF vars
<1>9. QED
  <2>1. PICK u \in Updates : TRUE  BY ConstantsAssumption
  <2>2. PICK p \in Procs : TRUE  BY ConstantsAssumption
  <2>3. QED
    BY <1>1, <1>2, <1>3, <1>4, <1>5, <1>6, <1>7, <1>8, <2>1, <2>2,
       TallyEnqueue, TallyUnclaim, TallyPublished DEF Next

\* Queue pressure alone never brings a row closer to the dead letter: every
\* attempt a row counts was used by a job that reached a lane, or was lost
\* with its process or with a failed undo (_unclaim_durable_update).
THEOREM AttemptsFair == Spec => []AttemptsAccounted
<1>1. Init => Tally
  BY FreeJobStatus DEF Init, Tally, ClaimInv, AttemptsAccounted, Unpublished
<1>2. Tally => AttemptsAccounted
  BY DEF Tally
<1>3. QED  BY <1>1, <1>2, TallyNext, TypeCorrect, PTL DEF Spec

-----------------------------------------------------------------------------
(* The inbox implements the at-least-once contract.                        *)

Sound == HandledInv /\ Tally /\ AcceptedInv

\* An exhausted row under no claim in transit has used all its attempts.
LEMMA Exhausted ==
  ASSUME TypeOK, Tally, NEW u \in Updates, row[u].attempts >= MaxAttempts,
         \A j \in Jobs : Unpublished(j) => job[j].upd # u
  PROVE  spent[u] >= MaxAttempts
  BY DEF Tally, AttemptsAccounted

LEMMA SetRowStatus ==
  ASSUME TypeOK, NEW u \in Updates, NEW r, SetRow(u, r)
  PROVE  \A v \in Updates : row'[v].st = IF v = u THEN r.st ELSE row[v].st
  BY DEF SetRow, TypeOK

LEMMA Simulation ==
  TypeOK /\ TypeOK' /\ Sound /\ [Next]_vars => [Contract!CNext]_(Contract!cvars)
<1> SUFFICES ASSUME TypeOK, TypeOK', Sound, [Next]_vars
             PROVE  [Contract!CNext]_(Contract!cvars)
  OBVIOUS
<1>t. ASSUME NEW u \in Updates PROVE row[u] \in Row
  BY DEF TypeOK
<1>s. ASSUME NEW j \in Jobs PROVE job[j].upd \in Updates
  BY DEF TypeOK, Job
<1>same. ASSUME \A u \in Updates : row'[u].st = row[u].st, UNCHANGED <<succeeded, spent>>
         PROVE  UNCHANGED Contract!cvars
  BY <1>same DEF Contract!cvars
<1>attempt. ASSUME UNCHANGED <<row, succeeded>>, \A u \in Updates : spent'[u] >= spent[u]
            PROVE  [Contract!CNext]_(Contract!cvars)
  BY <1>attempt DEF Contract!CNext, Contract!Attempt, TypeOK
<1>1. ASSUME NEW p \in Procs, NEW u \in Updates, Persist(p, u)
      PROVE  [Contract!CNext]_(Contract!cvars)
  <2>1. CASE row[u].st = "absent"
    <3>1. [v \in Updates |-> row'[v].st]
            = [[v \in Updates |-> row[v].st] EXCEPT ![u] = "pending"]
      <4>1. SetRow(u, WithStatus(row[u], "pending"))  BY <1>1, <2>1 DEF Persist
      <4>2. WithStatus(row[u], "pending").st = "pending"  BY <1>t, WithStatusRow
      <4>3. QED  BY <4>1, <4>2, SetRowStatus
    <3>2. QED  BY <1>1, <2>1, <3>1 DEF Persist, Contract!CNext, Contract!Accept
  <2>2. CASE row[u].st # "absent"
    BY <1>1, <2>2, <1>same DEF Persist
  <2>3. QED  BY <2>1, <2>2
<1>2. ASSUME NEW p \in Procs, NEW u \in Updates, Purge(p, u)
      PROVE  [Contract!CNext]_(Contract!cvars)
  <2>1. [v \in Updates |-> row'[v].st]
          = [[v \in Updates |-> row[v].st] EXCEPT ![u] = "purged"]
    BY <1>2, <1>t, WithStatusRow DEF Purge, SetRow, TypeOK
  <2>2. QED  BY <1>2, <2>1 DEF Purge, Settled, Contract!CNext, Contract!ForgetUpdate
<1>3. ASSUME NEW p \in Procs, NEW u \in Updates,
             \/ Acknowledge(p, u) \/ PublishCheck(p, u) \/ RecoverCheck(p, u)
             \/ Stop(p) \/ LeaseExpires(u) \/ DelayPasses(u)
      PROVE  UNCHANGED Contract!cvars
  <2>1. \A v \in Updates : row'[v].st = row[v].st
    <3>1. CASE LeaseExpires(u)
      <4>1. WithLive(row[u], FALSE).st = row[u].st  BY <1>t, WithLiveRow
      <4>2. QED  BY <3>1, <4>1, SetRowStatus DEF LeaseExpires
    <3>2. CASE DelayPasses(u)
      <4>1. Due(row[u]).st = row[u].st  BY <1>t, DueRow
      <4>2. QED  BY <3>2, <4>1, SetRowStatus DEF DelayPasses
    <3>3. QED
      BY <1>3, <3>1, <3>2 DEF Acknowledge, PublishCheck, RecoverCheck, Stop
  <2>2. QED
    BY <1>3, <2>1, <1>same
       DEF Acknowledge, PublishCheck, RecoverCheck, Stop, LeaseExpires, DelayPasses
<1>claim. ASSUME NEW u \in Updates, NEW j \in Jobs, Eligible(u), ClaimRow(u, j),
                 UNCHANGED <<succeeded, spent>>
          PROVE  UNCHANGED Contract!cvars
  <2>1. row[u].attempts + 1 \in 0..MaxAttempts
    BY <1>claim, ConstantsAssumption DEF TypeOK, Row, Eligible
  <2>2. \A v \in Updates : row'[v].st = row[v].st
    BY <1>claim, <1>t, <2>1, ClaimedRow DEF ClaimRow, SetRow, TypeOK
  <2>3. QED  BY <1>claim, <2>2, <1>same
<1>4. ASSUME NEW p \in Procs, NEW u \in Updates, PublishClaim(p, u)
      PROVE  UNCHANGED Contract!cvars
  BY <1>4, <1>claim, <1>same DEF PublishClaim
<1>5. ASSUME NEW p \in Procs, RecoverClaim(p) PROVE UNCHANGED Contract!cvars
  <2>1. rec[p] \in Updates  BY <1>5 DEF RecoverClaim, TypeOK
  <2>2. QED  BY <1>5, <2>1, <1>claim, <1>same DEF RecoverClaim
<1>6. ASSUME NEW p \in Procs, Boot(p) PROVE [Contract!CNext]_(Contract!cvars)
  <2> DEFINE S == {u \in Updates : /\ row[u].st = "pending" /\ row[u].attempts >= MaxAttempts
                                   /\ row[u].lease = NoJob \/ ~row[u].live}
  <2>1. \A u \in S : \A j \in Jobs : Unpublished(j) => job[j].upd # u
    BY ConstantsAssumption DEF Sound, Tally, ClaimInv, Holds
  <2>2. \A u \in S : row[u].st = "pending" /\ spent[u] >= MaxAttempts
    BY <2>1, Exhausted DEF Sound
  <2>3. \A u \in Updates : row'[u].st = IF u \in S THEN "dead" ELSE row[u].st
    BY <1>6, <1>t, UnleasedRow DEF Boot
  <2>4. S \in SUBSET Updates  OBVIOUS
  <2> HIDE DEF S
  <2>5. QED  BY <1>6, <2>2, <2>3, <2>4 DEF Boot, Contract!CNext, Contract!GiveUp
<1>7. ASSUME NEW p \in Procs, Quiesce(p) \/ Exit(p) \/ Crash(p)
      PROVE  [Contract!CNext]_(Contract!cvars)
  <2>1. UNCHANGED <<row, succeeded>> /\ \E S : Abandon(S)
    BY <1>7 DEF Quiesce, Exit, Crash, Vanish
  <2>2. \A u \in Updates : spent'[u] >= spent[u]
    BY <2>1 DEF Abandon, TypeOK
  <2>3. QED  BY <2>1, <2>2, <1>attempt
<1>8. ASSUME NEW j \in Jobs, Enqueue(j) PROVE [Contract!CNext]_(Contract!cvars)
  <2>1. \A u \in Updates : spent'[u] >= spent[u]
    BY <1>8, <1>s DEF Enqueue, TypeOK
  <2>2. QED  BY <1>8, <2>1, <1>attempt DEF Enqueue
<1>9. ASSUME NEW j \in Jobs, Unclaim(j) PROVE [Contract!CNext]_(Contract!cvars)
  <2> DEFINE u == job[j].upd
             n == IF row[u].attempts = 0 THEN 0 ELSE row[u].attempts - 1
  <2>1. CASE UNCHANGED row /\ spent' = [spent EXCEPT ![u] = @ + 1]
    <3>1. \A v \in Updates : spent'[v] >= spent[v]
      BY <1>s, <2>1 DEF TypeOK
    <3>2. QED  BY <1>9, <2>1, <3>1, <1>attempt DEF Unclaim
  <2>2. CASE SetRow(u, Unclaimed(row[u], n)) /\ UNCHANGED spent
    <3>1. n \in 0..MaxAttempts
      <4>1. row[u].attempts \in 0..MaxAttempts /\ MaxAttempts \in Nat
        BY <1>s, ConstantsAssumption DEF TypeOK, Row
      <4>2. QED  BY <4>1
    <3>2. \A v \in Updates : row'[v].st = row[v].st
      BY <1>s, <1>t, <2>2, <3>1, UnclaimedRow DEF SetRow, TypeOK
    <3>3. QED  BY <1>9, <2>2, <3>2, <1>same DEF Unclaim
  <2>3. QED  BY <1>9, <2>1, <2>2 DEF Unclaim
<1>10. ASSUME NEW j \in Jobs, HandlerEnds(j) \/ WaitEnds(j)
       PROVE  [Contract!CNext]_(Contract!cvars)
  <2>1. row[job[j].upd].st # "absent"
    BY <1>10 DEF HandlerEnds, WaitEnds, Sound, AcceptedInv
  <2>2. CASE succeeded' = succeeded \cup {job[j].upd}
    BY <1>10, <1>s, <2>1, <2>2 DEF HandlerEnds, WaitEnds, Contract!CNext, Contract!Handle
  <2>3. CASE UNCHANGED succeeded
    BY <1>10, <2>3, <1>same DEF HandlerEnds, WaitEnds
  <2>4. QED  BY <1>10, <2>2, <2>3 DEF HandlerEnds, WaitEnds
<1>11. ASSUME NEW j \in Jobs, Complete(j) PROVE [Contract!CNext]_(Contract!cvars)
  <2> DEFINE u == job[j].upd
  <2>1. CASE Holds(j) /\ SetRow(u, Unleased(row[u], "done", FALSE))
    <3>1. [v \in Updates |-> row'[v].st]
            = [[v \in Updates |-> row[v].st] EXCEPT ![u] = "done"]
      <4>1. Unleased(row[u], "done", FALSE).st = "done"  BY <1>s, <1>t, UnleasedRow
      <4>2. QED  BY <1>s, <2>1, <4>1, SetRowStatus
    <3>2. row[u].st = "pending" /\ u \in succeeded
      BY <1>11, <2>1 DEF Complete, Holds, Sound, HandledInv
    <3>3. QED  BY <1>11, <1>s, <3>1, <3>2 DEF Complete, Contract!CNext, Contract!Settle
  <2>2. CASE UNCHANGED row
    BY <1>11, <2>2, <1>same DEF Complete
  <2>3. QED  BY <1>11, <2>1, <2>2 DEF Complete
<1>12. ASSUME NEW j \in Jobs, Release(j) PROVE [Contract!CNext]_(Contract!cvars)
  <2> DEFINE u == job[j].upd
  <2>1. CASE UNCHANGED row
    BY <1>12, <2>1, <1>same DEF Release
  <2>2. CASE /\ Holds(j) /\ ~(row[u].attempts >= MaxAttempts)
             /\ SetRow(u, Unleased(row[u], "pending", TRUE))
    <3>1. \A v \in Updates : row'[v].st = row[v].st
      <4>1. Unleased(row[u], "pending", TRUE).st = row[u].st
        BY <1>s, <1>t, <2>2, UnleasedRow DEF Holds
      <4>2. QED  BY <1>s, <2>2, <4>1, SetRowStatus
    <3>2. QED  BY <1>12, <3>1, <1>same DEF Release
  <2>3. CASE /\ Holds(j) /\ row[u].attempts >= MaxAttempts
             /\ SetRow(u, Unleased(row[u], "dead", FALSE))
    <3>1. \A i \in Jobs : Unpublished(i) => job[i].upd # u
      BY <1>12, <2>3 DEF Release, Sound, Tally, ClaimInv, Holds, Unpublished
    <3>2. row[u].st = "pending" /\ spent[u] >= MaxAttempts
      BY <1>s, <2>3, <3>1, Exhausted DEF Holds, Sound
    <3>3. \A v \in Updates : row'[v].st = IF v \in {u} THEN "dead" ELSE row[v].st
      BY <1>s, <1>t, <2>3, UnleasedRow DEF SetRow, TypeOK
    <3>4. {u} \in SUBSET Updates  BY <1>s
    <3>5. QED  BY <1>12, <3>2, <3>3, <3>4 DEF Release, Contract!CNext, Contract!GiveUp
  <2>4. QED  BY <1>12, <2>1, <2>2, <2>3 DEF Release
<1>13. ASSUME NEW j \in Jobs,
              \/ QueueWait(j) \/ Start(j) \/ Renew(j) \/ Finish(j) \/ WorkerDone(j)
              \/ Discard(j) \/ CancelWorker(j)
       PROVE  UNCHANGED Contract!cvars
  <2>1. \A v \in Updates : row'[v].st = row[v].st
    <3>1. CASE UNCHANGED row
      BY <3>1
    <3>2. CASE SetRow(job[j].upd, WithLive(row[job[j].upd], TRUE))
      <4>1. WithLive(row[job[j].upd], TRUE).st = row[job[j].upd].st
        BY <1>s, <1>t, WithLiveRow
      <4>2. QED  BY <1>s, <3>2, <4>1, SetRowStatus
    <3>3. QED
      BY <1>13, <3>1, <3>2
         DEF QueueWait, Start, Renew, Finish, WorkerDone, Discard, CancelWorker
  <2>2. QED
    BY <1>13, <2>1, <1>same
       DEF QueueWait, Start, Renew, Finish, WorkerDone, Discard, CancelWorker
<1>14. CASE UNCHANGED vars
  BY <1>14, <1>same DEF vars
<1>15. QED
  <2>1. PICK u \in Updates : TRUE  BY ConstantsAssumption
  <2>2. PICK p \in Procs : TRUE  BY ConstantsAssumption
  <2>3. QED
    BY <1>1, <1>2, <1>3, <1>4, <1>5, <1>6, <1>7, <1>8, <1>9, <1>10, <1>11, <1>12,
       <1>13, <1>14, <2>1, <2>2 DEF Next

\* The contract never makes an update absent again, nor completes it unhandled.
LEMMA ContractSteps ==
  ASSUME [Contract!CNext]_(Contract!cvars), NEW u \in Updates
  PROVE  /\ row[u].st # "absent" => row'[u].st # "absent"
         /\ row'[u].st = "done" => row[u].st = "done" \/ u \in succeeded
<1> DEFINE f == [v \in Updates |-> row[v].st]
<1>1. f' = [v \in Updates |-> row'[v].st]  OBVIOUS
<1>2. CASE f' = f
  <2>1. f[u] = row[u].st /\ f'[u] = row'[u].st  BY <1>1
  <2>2. QED  BY <1>2, <2>1
<1>3. CASE \E v \in Updates : Contract!Accept(v) \/ Contract!Settle(v) \/ Contract!ForgetUpdate(v)
  BY <1>3 DEF Contract!Accept, Contract!Settle, Contract!ForgetUpdate
<1>4. CASE \E S \in SUBSET Updates : Contract!GiveUp(S)
  BY <1>4 DEF Contract!GiveUp
<1>5. QED
  BY <1>2, <1>3, <1>4 DEF Contract!CNext, Contract!cvars, Contract!Attempt, Contract!Handle

\* Jobs are made for pending rows only.
LEMMA AcceptedNext ==
  TypeOK /\ TypeOK' /\ Sound /\ [Next]_vars => AcceptedInv'
<1> SUFFICES ASSUME TypeOK, TypeOK', Sound, [Next]_vars PROVE AcceptedInv'
  OBVIOUS
<1>1. \A u \in Updates : row[u].st # "absent" => row'[u].st # "absent"
  BY Simulation, ContractSteps
<1>2. ASSUME \A j \in Jobs : job'[j].st # "free" =>
               \/ job[j].st # "free" /\ job'[j].upd = job[j].upd
               \/ job'[j].upd \in Updates /\ row[job'[j].upd].st # "absent"
      PROVE  AcceptedInv'
  <2> SUFFICES ASSUME NEW j \in Jobs, job'[j].st # "free"
               PROVE  row'[job'[j].upd].st # "absent"
    BY DEF AcceptedInv
  <2>1. job[j].upd \in Updates  BY DEF TypeOK, Job
  <2>2. QED  BY <1>1, <1>2, <2>1 DEF Sound, AcceptedInv
<1>move. ASSUME NEW j \in Jobs, \A i \in Jobs \ {j} : job'[i] = job[i],
                \/ job'[j].st = "free"
                \/ job[j].st # "free" /\ job'[j].upd = job[j].upd
                \/ job'[j].upd \in Updates /\ row[job'[j].upd].st # "absent"
         PROVE  AcceptedInv'
  BY <1>2, <1>move
<1>3. ASSUME NEW p \in Procs, NEW u \in Updates,
             \/ Persist(p, u) \/ Acknowledge(p, u) \/ PublishCheck(p, u)
             \/ RecoverCheck(p, u) \/ Purge(p, u) \/ Boot(p) \/ Stop(p)
             \/ LeaseExpires(u) \/ DelayPasses(u)
      PROVE  AcceptedInv'
  BY <1>3, <1>2
     DEF Persist, Acknowledge, PublishCheck, RecoverCheck, Purge, Boot, Stop,
         LeaseExpires, DelayPasses
<1>4. ASSUME NEW p \in Procs, RecoverClaim(p) \/ \E u \in Updates : PublishClaim(p, u)
      PROVE  AcceptedInv'
  <2>1. RecoverClaim(p) => rec[p] \in Updates  BY DEF RecoverClaim, TypeOK
  <2>2. ASSUME NEW u \in Updates, NEW j \in Jobs, NEW b \in {TRUE, FALSE},
               Eligible(u), NewJob(p, u, j, b)
        PROVE  AcceptedInv'
    <3>1. job'[j].upd = u /\ \A i \in Jobs \ {j} : job'[i] = job[i]
      BY <2>2 DEF NewJob, TypeOK
    <3>2. row[u].st # "absent"  BY <2>2 DEF Eligible
    <3>3. QED  BY <3>1, <3>2, <1>move
  <2>3. ASSUME UNCHANGED job PROVE AcceptedInv'
    BY <1>2, <2>3
  <2>4. QED  BY <1>4, <2>1, <2>2, <2>3 DEF RecoverClaim, PublishClaim
<1>5. ASSUME NEW p \in Procs, Quiesce(p) \/ Exit(p) \/ Crash(p) PROVE AcceptedInv'
  <2>1. PICK S \in SUBSET Jobs : Abandon(S)
    BY <1>5 DEF Quiesce, Exit, Crash, Vanish, JobsOf
  <2>2. QED  BY <1>2, <2>1, AbandonFields
<1>6. ASSUME NEW j \in Jobs, Enqueue(j) \/ Start(j) \/ Discard(j) \/ Unclaim(j) \/ Finish(j)
      PROVE  AcceptedInv'
  BY <1>6, <1>move, GotoFields, LeaveFields DEF Enqueue, Start, Discard, Unclaim, Finish
<1>7. ASSUME NEW j \in Jobs, QueueWait(j) \/ Renew(j) PROVE AcceptedInv'
  BY <1>7, <1>move, SetSlackFields DEF QueueWait, Renew
<1>8. ASSUME NEW j \in Jobs, HandlerEnds(j) \/ WaitEnds(j) \/ CancelWorker(j)
      PROVE  AcceptedInv'
  BY <1>8, <1>move, GotoFields, GotoAsFields DEF HandlerEnds, WaitEnds, CancelWorker
<1>9. ASSUME NEW j \in Jobs, Complete(j) \/ Release(j) PROVE AcceptedInv'
  BY <1>9, <1>move, GotoFields, AfterRowFields DEF Complete, Release
<1>10. CASE UNCHANGED job
  BY <1>2, <1>10
<1>11. QED
  <2>1. PICK u \in Updates : TRUE  BY ConstantsAssumption
  <2>2. PICK p \in Procs : TRUE  BY ConstantsAssumption
  <2>3. QED
    BY <1>3, <1>4, <1>5, <1>6, <1>7, <1>8, <1>9, <1>10, <2>1, <2>2
       DEF Next, vars, WorkerDone

LEMMA SoundAlways == Spec => []Sound
<1>1. Init => Sound
  BY FreeJobStatus
     DEF Init, Sound, HandledInv, Tally, ClaimInv, AttemptsAccounted, AcceptedInv,
         Unpublished
<1>2. TypeOK /\ TypeOK' /\ Sound /\ [Next]_vars => Sound'
  BY HandledNext, TallyNext, AcceptedNext DEF Sound
<1>3. QED  BY <1>1, <1>2, TypeCorrect, PTL DEF Spec

\* A row is completed only if a handler, a receipt or a late handler of its
\* update reported success (_complete_durable_update).
THEOREM CompletionIsHandled == Spec => []DoneMeansHandled
<1>1. Init => DoneMeansHandled
  BY DEF Init, DoneMeansHandled
<1>2. TypeOK /\ TypeOK' /\ Sound /\ DoneMeansHandled /\ [Next]_vars => DoneMeansHandled'
  BY Simulation, ContractSteps, HandledNext DEF Sound, DoneMeansHandled
<1>3. QED  BY <1>1, <1>2, TypeCorrect, SoundAlways, PTL DEF Spec

\* Over every interleaving of processes, leases, exits and failing writes the
\* inbox does to an update only what the at-least-once contract permits.
THEOREM InboxImplementsContract == Spec => ImplementsContract
<1>1. Init => Contract!CInit
  BY DEF Init, Contract!CInit
<1>2. QED
  BY <1>1, Simulation, SoundAlways, TypeCorrect, PTL
     DEF Spec, ImplementsContract, Contract!CSpec

\* The invariant the safety theorems rest on.
THEOREM Inductive == Spec => []InductiveInv
  BY EntryAlways, SoundAlways, CompletionIsHandled, PTL DEF InductiveInv, Sound, Tally
-----------------------------------------------------------------------------
(* Leases and budgets: in the ordinary lane a worker's row is its own.       *)

AllOrdinary == \A u \in Updates : Lane[u] = Ordinary

\* The phases the lease is meant to outlast; a finalizer's, if writes do not fail.
Covered(j) ==
  \/ Unpublished(j) \/ job[j].st = "running"
  \/ job[j].st = "queued" /\ job[j].slack
  \/ job[j].st = "waiting" /\ DbFails = FALSE

LeaseInv == \A j \in Jobs : Covered(j) => Holds(j) /\ row[job[j].upd].live /\ job[j].slack

\* A step after which every covered job was covered and still has its live row.
LEMMA LeaseSame ==
  ASSUME LeaseInv,
         \A i \in Jobs : Covered(i)' =>
           /\ Covered(i) /\ job'[i].upd = job[i].upd /\ job'[i].slack
           /\ LET r == row'[job[i].upd] IN r.st = "pending" /\ r.lease = i /\ r.live
  PROVE  LeaseInv'
  BY DEF LeaseInv, Holds

\* Rows may change where no covered job holds a live lease.
LEMMA LeaseRow ==
  ASSUME TypeOK, LeaseInv, UNCHANGED job,
         \A u \in Updates :
           \/ row'[u] = row[u]
           \/ row[u].st # "pending" \/ ~row[u].live
           \/ /\ row'[u].st = row[u].st /\ row'[u].lease = row[u].lease
              /\ row'[u].live = row[u].live
           \/ \A i \in Jobs : Covered(i) => job[i].upd # u
  PROVE  LeaseInv'
<1>1. \A i \in Jobs : Covered(i)' <=> Covered(i)  BY DEF Covered, Unpublished
<1>2. \A i \in Jobs : Covered(i) =>
        /\ job'[i].slack
        /\ LET r == row'[job[i].upd] IN r.st = "pending" /\ r.lease = i /\ r.live
  <2> SUFFICES ASSUME NEW i \in Jobs, Covered(i)
               PROVE  /\ job'[i].slack
                      /\ LET r == row'[job[i].upd] IN
                           r.st = "pending" /\ r.lease = i /\ r.live
    OBVIOUS
  <2>1. job[i].upd \in Updates  BY DEF TypeOK, Job
  <2>2. /\ row[job[i].upd].st = "pending" /\ row[job[i].upd].lease = i
        /\ row[job[i].upd].live /\ job[i].slack
    BY DEF LeaseInv, Holds
  <2>3. QED  BY <2>1, <2>2
<1>3. QED  BY <1>1, <1>2, LeaseSame

\* A job's own step: others keep their rows, because it writes only to a row it holds.
LEMMA LeaseMove ==
  ASSUME TypeOK, LeaseInv, NEW j \in Jobs, \A i \in Jobs \ {j} : job'[i] = job[i],
         \/ UNCHANGED row
         \/ Holds(j) /\ \E r \in Row : SetRow(job[j].upd, r),
         Covered(j)' => /\ Covered(j) /\ job'[j].upd = job[j].upd /\ job'[j].slack
                        /\ LET r == row'[job[j].upd] IN
                             r.st = "pending" /\ r.lease = j /\ r.live
  PROVE  LeaseInv'
<1>1. ASSUME NEW i \in Jobs \ {j}, Covered(i)
      PROVE  row'[job[i].upd] = row[job[i].upd]
  <2>1. job[i].upd \in Updates /\ job[j].upd \in Updates  BY DEF TypeOK, Job
  <2>2. Holds(j) => job[i].upd # job[j].upd  BY <1>1 DEF LeaseInv, Holds
  <2>3. QED  BY <2>1, <2>2 DEF SetRow, TypeOK
<1>2. \A i \in Jobs \ {j} : Covered(i)' <=> Covered(i)  BY DEF Covered, Unpublished
<1>3. \A i \in Jobs \ {j} : Covered(i) =>
        /\ job'[i].upd = job[i].upd /\ job'[i].slack
        /\ LET r == row'[job[i].upd] IN r.st = "pending" /\ r.lease = i /\ r.live
  BY <1>1 DEF LeaseInv, Holds
<1>4. QED  BY <1>2, <1>3, LeaseSame

\* A claim takes a row that nobody has under a live lease.
LEMMA LeaseClaim ==
  ASSUME TypeOK, LeaseInv, NEW p \in Procs, NEW u \in Updates,
         NEW j \in Jobs, NEW b \in BOOLEAN,
         Eligible(u), Unused(j), ClaimRow(u, j), NewJob(p, u, j, b)
  PROVE  LeaseInv'
<1>1. \A i \in Jobs : Covered(i) => job[i].upd # u
  BY ConstantsAssumption DEF LeaseInv, Holds, Eligible
<1>2. row[u].attempts + 1 \in 0..MaxAttempts
  BY ConstantsAssumption DEF TypeOK, Row, Eligible
<1>3. row'[u].st = "pending" /\ row'[u].lease = j /\ row'[u].live
  BY <1>2, ClaimedRow DEF ClaimRow, SetRow, TypeOK, Eligible
<1>4. \A v \in Updates \ {u} : row'[v] = row[v]
  BY DEF ClaimRow, SetRow, TypeOK
<1>5. job'[j].upd = u /\ job'[j].slack /\ \A i \in Jobs \ {j} : job'[i] = job[i]
  <2>1. job'[j].upd = u /\ job'[j].slack = TRUE /\ \A i \in Jobs \ {j} : job'[i] = job[i]
    BY DEF NewJob, TypeOK
  <2>2. QED  BY <2>1
<1> SUFFICES ASSUME NEW i \in Jobs, Covered(i)'
             PROVE  Holds(i)' /\ row'[job'[i].upd].live /\ job'[i].slack
  BY DEF LeaseInv
<1>6. CASE i = j
  BY <1>3, <1>5, <1>6 DEF Holds
<1>7. CASE i # j
  <2>1. Covered(i) /\ job'[i] = job[i]  BY <1>5, <1>7 DEF Covered, Unpublished
  <2>2. job[i].upd \in Updates \ {u}  BY <1>1, <2>1 DEF TypeOK, Job
  <2>3. QED  BY <1>4, <2>1, <2>2 DEF LeaseInv, Holds
<1>8. QED  BY <1>6, <1>7

\* The steps of a job: it starts its handler within its budget, and its finalizer renews.
LEMMA LeaseJob ==
  ASSUME TypeOK, LeaseInv, AllOrdinary, NEW j \in Jobs,
         \/ Enqueue(j) \/ Unclaim(j) \/ QueueWait(j) \/ Start(j) \/ HandlerEnds(j)
         \/ WaitEnds(j) \/ Renew(j) \/ Complete(j) \/ Release(j) \/ Finish(j)
         \/ WorkerDone(j) \/ Discard(j) \/ CancelWorker(j)
  PROVE  LeaseInv'
<1> DEFINE u == job[j].upd
<1>u. u \in Updates /\ row[u] \in Row /\ job[j] \in Job  BY DEF TypeOK, Job
<1>b. Covered(j) => /\ job[j].slack /\ row[u].st = "pending" /\ row[u].lease = j
                    /\ row[u].live
  BY DEF LeaseInv, Holds
<1>1. CASE Enqueue(j)
  <2>1. /\ Covered(j) /\ UNCHANGED row /\ job'[j].upd = u /\ job'[j].slack = job[j].slack
        /\ \A i \in Jobs \ {j} : job'[i] = job[i]
    BY <1>1, GotoFields DEF Enqueue, Covered, Unpublished
  <2>2. QED  BY <2>1, <1>b, LeaseMove
<1>2. CASE Unclaim(j)
  <2>1. job'[j].st = "free" /\ \A i \in Jobs \ {j} : job'[i] = job[i]
    BY <1>2, LeaveFields DEF Unclaim
  <2>2. ~Covered(j)'  BY <2>1 DEF Covered, Unpublished
  <2>3. row[u].attempts = 0 \/ row[u].attempts - 1 \in 0..MaxAttempts
    BY <1>u, ConstantsAssumption DEF Row
  <2>4. UNCHANGED row \/ (Holds(j) /\ \E r \in Row : SetRow(u, r))
    BY <1>2, <1>u, <2>3, UnclaimedRow, ConstantsAssumption DEF Unclaim
  <2>5. QED  BY <2>1, <2>2, <2>4, LeaseMove
<1>3. CASE QueueWait(j)
  <2>1. /\ UNCHANGED row /\ \A i \in Jobs \ {j} : job'[i] = job[i]
        /\ job'[j].st = "queued" /\ job'[j].slack = FALSE
    BY <1>3, <1>u, SlackedJob DEF QueueWait, SetSlack, TypeOK
  <2>2. ~Covered(j)'  BY <2>1 DEF Covered, Unpublished
  <2>3. QED  BY <2>1, <2>2, LeaseMove
<1>4. CASE Start(j)
  <2>1. /\ UNCHANGED row /\ job'[j].upd = u /\ job'[j].slack = job[j].slack
        /\ job'[j].st = (IF ~job[j].slack THEN "releasing" ELSE "running")
        /\ job[j].st = "queued" /\ \A i \in Jobs \ {j} : job'[i] = job[i]
    BY <1>4, <1>u, GotoFields DEF Start, AllOrdinary
  <2>2. Covered(j)' => Covered(j)  BY <2>1 DEF Covered, Unpublished
  <2>3. QED  BY <2>1, <2>2, <1>b, LeaseMove
<1>5. CASE HandlerEnds(j)
  <2> DEFINE Same == /\ \A i \in Jobs \ {j} : job'[i] = job[i]
                     /\ job'[j].upd = u /\ job'[j].slack = job[j].slack
  <2>1. UNCHANGED row /\ Covered(j)  BY <1>5 DEF HandlerEnds, Covered
  <2>2. Same
    <3>1. \/ \E s \in {"completing", "releasing"} : Goto(j, s)
          \/ \E m \in {"deferred", "late"} : GotoAs(j, "waiting", m)
      BY <1>5 DEF HandlerEnds
    <3>2. ASSUME NEW s \in {"completing", "releasing"}, Goto(j, s)  PROVE Same
      BY <3>2, GotoFields
    <3>3. ASSUME NEW m \in {"deferred", "late"}, GotoAs(j, "waiting", m)  PROVE Same
      BY <3>3, <1>u, AtAsJob DEF GotoAs, TypeOK
    <3>4. QED  BY <3>1, <3>2, <3>3
  <2>3. QED  BY <2>1, <2>2, <1>b, LeaseMove
<1>6. CASE WaitEnds(j) \/ Discard(j)
  <2>1. /\ UNCHANGED row /\ \A i \in Jobs \ {j} : job'[i] = job[i]
        /\ job'[j].st \in {"completing", "releasing"}
    BY <1>6, GotoFields DEF WaitEnds, Discard
  <2>2. ~Covered(j)'  BY <2>1 DEF Covered, Unpublished
  <2>3. QED  BY <2>1, <2>2, LeaseMove
<1>7. CASE Renew(j)
  <2>1. job[j].st = "waiting"  BY <1>7 DEF Renew
  <2>2. CASE Holds(j) /\ SetRow(u, WithLive(row[u], TRUE)) /\ SetSlack(j, TRUE)
    <3>1. /\ job'[j].st = "waiting" /\ job'[j].upd = u /\ job'[j].slack
          /\ \A i \in Jobs \ {j} : job'[i] = job[i]
      BY <1>u, <2>1, <2>2, SlackedJob DEF SetSlack, TypeOK
    <3>2. Covered(j)' => Covered(j)  BY <2>1, <3>1 DEF Covered, Unpublished
    <3>3. LET r == row'[u] IN r.st = "pending" /\ r.lease = j /\ r.live
      BY <1>u, <2>2, WithLiveRow DEF Holds, SetRow, TypeOK
    <3>4. \E r \in Row : SetRow(u, r)  BY <1>u, <2>2, WithLiveRow
    <3>5. QED  BY <2>2, <3>1, <3>2, <3>3, <3>4, LeaseMove
  <2>3. CASE (~Holds(j) \/ DbFails) /\ SetSlack(j, FALSE) /\ UNCHANGED row
    <3>1. job'[j].st = "waiting" /\ \A i \in Jobs \ {j} : job'[i] = job[i]
      BY <2>1, <2>3, SetSlackFields
    <3>2. ~Covered(j)'
      BY <2>1, <2>3, <3>1 DEF Covered, Unpublished, LeaseInv
    <3>3. QED  BY <2>3, <3>1, <3>2, LeaseMove
  <2>4. QED  BY <1>7, <2>2, <2>3 DEF Renew
<1>8. CASE Complete(j) \/ Release(j)
  <2>1. /\ job'[j].st \in {"free", "finishing", "releasing"}
        /\ \A i \in Jobs \ {j} : job'[i] = job[i]
    BY <1>8, GotoFields, AfterRowFields DEF Complete, Release
  <2>2. ~Covered(j)'  BY <2>1 DEF Covered, Unpublished
  <2>3. UNCHANGED row \/ (Holds(j) /\ \E r \in Row : SetRow(u, r))
    <3>1. CASE Complete(j)  BY <3>1, <1>u, UnleasedRow DEF Complete
    <3>2. CASE Release(j)  BY <3>2, <1>u, UnleasedRow DEF Release
    <3>3. QED  BY <1>8, <3>1, <3>2
  <2>4. QED  BY <2>1, <2>2, <2>3, LeaseMove
<1>9. CASE Finish(j)
  <2>1. /\ UNCHANGED row /\ job'[j].st \in {"free", "orphaned"}
        /\ \A i \in Jobs \ {j} : job'[i] = job[i]
    BY <1>9, GotoFields, LeaveFields DEF Finish
  <2>2. ~Covered(j)'  BY <2>1 DEF Covered, Unpublished
  <2>3. QED  BY <2>1, <2>2, LeaseMove
<1>10. CASE WorkerDone(j)
  BY <1>10, LeaseRow DEF WorkerDone
<1>11. CASE CancelWorker(j)
  <2>1. /\ UNCHANGED row /\ job'[j].st = "releasing"
        /\ \A i \in Jobs \ {j} : job'[i] = job[i]
    BY <1>11, GotoAsFields DEF CancelWorker
  <2>2. ~Covered(j)'  BY <2>1 DEF Covered, Unpublished
  <2>3. QED  BY <2>1, <2>2, LeaseMove
<1>12. QED
  BY <1>1, <1>2, <1>3, <1>4, <1>5, <1>6, <1>7, <1>8, <1>9, <1>10, <1>11

\* Every step: rows under a live lease are left alone by time, by starts and by claims.
LEMMA LeaseNext == ASSUME AllOrdinary PROVE TypeOK /\ LeaseInv /\ [Next]_vars => LeaseInv'
<1> SUFFICES ASSUME TypeOK, LeaseInv, [Next]_vars PROVE LeaseInv'
  OBVIOUS
<1>t. ASSUME NEW u \in Updates
      PROVE  /\ row[u] \in Row
             /\ \A j \in Jobs : Covered(j) /\ job[j].upd = u =>
                  row[u].st = "pending" /\ row[u].lease = j /\ row[u].live /\ job[j].slack
  BY DEF TypeOK, LeaseInv, Holds
<1>1. ASSUME NEW p \in Procs, NEW u \in Updates,
             Persist(p, u) \/ Purge(p, u) \/ DelayPasses(u)
      PROVE  LeaseInv'
  <2>1. \A v \in Updates \ {u} : row'[v] = row[v]
    BY <1>1 DEF Persist, Purge, DelayPasses, SetRow, TypeOK
  <2>2. \/ row[u].st # "pending"
        \/ row'[u] = row[u]
        \/ row'[u].st = row[u].st /\ row'[u].lease = row[u].lease
           /\ row'[u].live = row[u].live
    BY <1>1, <1>t, WithStatusRow, DueRow
       DEF Persist, Purge, DelayPasses, SetRow, Settled, TypeOK
  <2>3. QED  BY <1>1, <2>1, <2>2, LeaseRow DEF Persist, Purge, DelayPasses
<1>2. ASSUME NEW u \in Updates, LeaseExpires(u) PROVE LeaseInv'
  <2>1. \A v \in Updates \ {u} : row'[v] = row[v]
    BY <1>2 DEF LeaseExpires, SetRow, TypeOK
  <2>2. \A j \in Jobs : Covered(j) => job[j].upd # u
    BY <1>2, <1>t DEF LeaseExpires, Covered, Unpublished
  <2>3. QED  BY <1>2, <2>1, <2>2, LeaseRow DEF LeaseExpires
<1>3. ASSUME NEW p \in Procs, Boot(p) PROVE LeaseInv'
  <2>1. \A u \in Updates : row'[u] = row[u] \/ row[u].lease = NoJob \/ ~row[u].live
    BY <1>3 DEF Boot
  <2>2. ASSUME NEW u \in Updates, row[u].lease = NoJob
        PROVE  \A j \in Jobs : Covered(j) => job[j].upd # u
    BY <1>t, <2>2, ConstantsAssumption
  <2>3. QED  BY <1>3, <2>1, <2>2, LeaseRow DEF Boot
<1>4. ASSUME NEW p \in Procs, NEW u \in Updates,
             Acknowledge(p, u) \/ PublishCheck(p, u) \/ RecoverCheck(p, u) \/ Stop(p)
      PROVE  LeaseInv'
  BY <1>4, LeaseRow DEF Acknowledge, PublishCheck, RecoverCheck, Stop
<1>5. ASSUME NEW p \in Procs, NEW u \in Updates, PublishClaim(p, u) PROVE LeaseInv'
  BY <1>5, LeaseRow, LeaseClaim DEF PublishClaim
<1>6. ASSUME NEW p \in Procs, RecoverClaim(p) PROVE LeaseInv'
  <2>1. rec[p] \in Updates  BY <1>6 DEF RecoverClaim, TypeOK
  <2>2. QED  BY <1>6, <2>1, LeaseRow, LeaseClaim DEF RecoverClaim
<1>7. ASSUME NEW p \in Procs, Quiesce(p) \/ Exit(p) \/ Crash(p) PROVE LeaseInv'
  <2>1. PICK S \in SUBSET Jobs : Abandon(S) /\ UNCHANGED row
    BY <1>7 DEF Quiesce, Exit, Crash, Vanish, JobsOf
  <2>2. /\ \A i \in S : ~Covered(i)'
        /\ \A i \in Jobs \ S : job'[i] = job[i] /\ (Covered(i)' <=> Covered(i))
    BY <2>1, AbandonFields DEF Covered, Unpublished
  <2>3. QED  BY <2>1, <2>2, LeaseSame DEF LeaseInv, Holds
<1>8. CASE UNCHANGED vars
  BY <1>8, LeaseRow DEF vars
<1>9. QED
  <2>1. PICK u \in Updates : TRUE  BY ConstantsAssumption
  <2>2. PICK p \in Procs : TRUE  BY ConstantsAssumption
  <2>3. QED
    BY <1>1, <1>2, <1>3, <1>4, <1>5, <1>6, <1>7, <1>8, <2>1, <2>2, LeaseJob DEF Next

LEMMA LeaseAlways == ASSUME AllOrdinary PROVE Spec => []LeaseInv
<1>1. Init => LeaseInv
  BY FreeJobStatus DEF Init, LeaseInv, Covered, Unpublished
<1>2. QED  BY <1>1, LeaseNext, TypeCorrect, PTL DEF Spec

\* With a healthy database and updates of the ordinary lane, no two workers or finalizers in
\* any processes work on one update: the budget of 150 s from the enqueue ends before the
\* lease (_await_stage), finalizers renew it (_wait_task_with_lease) and a start revokes
\* none (_prepare_durable_recovery).
THEOREM WorkExclusive ==
  ASSUME AllOrdinary, DbFails = FALSE PROVE Spec => []ExclusiveWork
<1>1. LeaseInv => ExclusiveWork
  BY DEF LeaseInv, ExclusiveWork, Working, Covered, Holds
<1>2. QED  BY <1>1, LeaseAlways, PTL

\* A handler is started by Start alone, and in the ordinary lane within its budget.
LEMMA OnlyStart ==
  ASSUME AllOrdinary, TypeOK, Next, NEW j \in Jobs, job[j].st = "queued", job'[j].st = "running"
  PROVE  job[j].slack
<1>1. ASSUME NEW p \in Procs, NEW u \in Updates,
             \/ Persist(p, u) \/ Acknowledge(p, u) \/ PublishCheck(p, u)
             \/ RecoverCheck(p, u) \/ Purge(p, u) \/ Boot(p) \/ Stop(p)
             \/ LeaseExpires(u) \/ DelayPasses(u)
      PROVE  FALSE
  BY <1>1
     DEF Persist, Acknowledge, PublishCheck, RecoverCheck, Purge, Boot, Stop,
         LeaseExpires, DelayPasses
<1>2. ASSUME NEW p \in Procs, RecoverClaim(p) \/ \E u \in Updates : PublishClaim(p, u)
      PROVE  FALSE
  <2>1. RecoverClaim(p) => rec[p] \in Updates  BY DEF RecoverClaim, TypeOK
  <2>2. QED  BY <1>2, <2>1, NewJobFields DEF RecoverClaim, PublishClaim
<1>3. ASSUME NEW p \in Procs, Quiesce(p) \/ Exit(p) \/ Crash(p)  PROVE FALSE
  <2>1. PICK S \in SUBSET Jobs : Abandon(S)
    BY <1>3 DEF Quiesce, Exit, Crash, Vanish, JobsOf
  <2>2. QED  BY <2>1, AbandonFields
<1>4. ASSUME NEW i \in Jobs,
             \/ Enqueue(i) \/ Unclaim(i) \/ QueueWait(i) \/ HandlerEnds(i)
             \/ WaitEnds(i) \/ Renew(i) \/ Complete(i) \/ Release(i) \/ Finish(i)
             \/ WorkerDone(i) \/ Discard(i) \/ CancelWorker(i)
      PROVE  FALSE
  <2>1. CASE Enqueue(i) \/ Discard(i)
    BY <2>1, GotoFields DEF Enqueue, Discard
  <2>2. CASE Unclaim(i) \/ Finish(i)
    BY <2>2, GotoFields, LeaveFields DEF Unclaim, Finish
  <2>3. CASE QueueWait(i) \/ Renew(i)
    BY <2>3, SetSlackFields DEF QueueWait, Renew
  <2>4. CASE HandlerEnds(i) \/ WaitEnds(i)
    BY <2>4, GotoFields, GotoAsFields DEF HandlerEnds, WaitEnds
  <2>5. CASE Complete(i) \/ Release(i)
    BY <2>5, GotoFields, AfterRowFields DEF Complete, Release
  <2>6. CASE WorkerDone(i)
    BY <2>6 DEF WorkerDone
  <2>7. CASE CancelWorker(i)
    BY <2>7, GotoAsFields DEF CancelWorker
  <2>8. QED  BY <1>4, <2>1, <2>2, <2>3, <2>4, <2>5, <2>6, <2>7
<1>5. ASSUME NEW i \in Jobs, Start(i)  PROVE job[j].slack
  <2>1. Lane[job[i].upd] = Ordinary  BY DEF AllOrdinary, TypeOK, Job
  <2>2. /\ \A k \in Jobs \ {i} : job'[k] = job[k]
        /\ job'[i].st = (IF ~job[i].slack THEN "releasing" ELSE "running")
    BY <1>5, <2>1, GotoFields DEF Start
  <2>3. QED  BY <2>2
<1>6. QED
  <2>1. PICK u \in Updates : TRUE  BY ConstantsAssumption
  <2>2. PICK p \in Procs : TRUE  BY ConstantsAssumption
  <2>3. QED  BY <1>1, <1>2, <1>3, <1>4, <1>5, <2>1, <2>2 DEF Next

\* A handler never starts on a settled update of the ordinary lane, also when writes fail:
\* a queued job that has outlived its lease has outlived its budget (_await_stage).
THEOREM NoSettledStart == ASSUME AllOrdinary PROVE Spec => NoStartOnSettled
<1>1. ASSUME TypeOK, LeaseInv, Next, NEW j \in Jobs,
             job[j].st = "queued", job'[j].st = "running"
      PROVE  row[job[j].upd].st = "pending"
  <2>1. Covered(j)  BY <1>1, OnlyStart DEF Covered
  <2>2. QED  BY <1>1, <2>1 DEF LeaseInv, Holds
<1>2. TypeOK /\ LeaseInv /\ [Next]_vars =>
        [\A j \in Jobs : job[j].st = "queued" /\ job'[j].st = "running"
                           => row[job[j].upd].st = "pending"]_vars
  BY <1>1
<1>3. QED  BY <1>2, LeaseAlways, TypeCorrect, PTL DEF Spec, NoStartOnSettled
=============================================================================
