# TLA+ models of Smart_Group_Bot

The bot is one asyncio program in front of Telegram and a SQL database.  Hundreds of
tasks (update handlers, workers, sweepers, the Mini App's HTTP handlers) alternate
between short transactions and remote calls that may fail, time out after they took
effect, or outlive the task that made them.  A second process may run during a rolling
deploy, and every process may die between two steps.  The code defends itself with
conditional writes on leases and generations.  These modules say what those defences
achieve, check it on small instances with TLC, and prove it for every instance with
TLAPS where it matters most.

- [1. The system](#1-the-system)
- [2. The durable update inbox](#2-the-durable-update-inbox)
- [3. Member verification](#3-member-verification)
- [4. Admission gates](#4-admission-gates)
- [5. What acts on members](#5-what-acts-on-members)
- [6. What moves messages, calls and stored work](#6-what-moves-messages-calls-and-stored-work)
- [7. Runs and bounds](#7-runs-and-bounds)
- [8. Proofs](#8-proofs)
- [9. What the models found](#9-what-the-models-found)
- [10. What is not modelled](#10-what-is-not-modelled)
- [11. What could follow](#11-what-could-follow)

To check a run: `tlc -config VerifyJoin.cfg MCJoinVerification`; to check the proofs:
`tlapm JoinVerificationProofs.tla`.  `PROJECT.json` maps every definition to the lines
it stands for and lists the main hazards with the properties that cover them.

## 1. The system

Paths are below `bot/`.  "Hard" names what a unit test hardly reaches.

| component | module | hard | what makes it correct |
|---|---|---|---|
| durable update inbox (`services/verify_web.py`, `update_completion.py`) | `UpdateInbox`, `UpdateContract` | claim/publish races, leases across processes, handlers that resist cancellation, crash at any step | at-least-once; one copy per process; attempts counted fairly; every update settled |
| member verification (`services/join_verification.py`, `handlers/membership.py`, `handlers/admin.py`) | `JoinVerification`, `ChallengeContract` | every Telegram call races every other worker of the row; a kick is a ban that must be lifted | solved in time is never punished; nobody left muted or banned without a cause; no row left for ever |
| verification page and buttons (`services/verify_web.py`, `handlers/membership.py`) | `VerifyPage` | two submissions, a cancelled request, a button and the sweeper on one row | "passed" is said of released members; no cache entry or slot leaks |
| admission gates (`services/request_priority.py`) | `CapacityGate` | hand-off to a cancelled waiter | permits conserved, no lost wake-up, a reserve for urgent requests |
| vote ban (`services/vote_ban.py`, `handlers/group.py`) | `VoteBan`, `VotePrompt` | enforcement taken over during its call; two leases per outcome; pins of unknown outcome | decided once; Telegram and policy agree afterwards |
| lockdowns (`services/raid_guard.py`) | `RaidGuard`, `RaidSuspects` | expiry against administrators and detection; restart around a pin; mutes landing late | memory and settings agree; pins are in the ledger; nobody left muted |
| moderation (`handlers/group.py`, `services/moderation.py`) | `Moderation` | verdicts of minutes ago; replayed updates; buttons against /unban | warnings counted once; nobody banned against the policy |
| global bans (`handlers/admin.py`, `web/settings_api.py`, `middlewares/global_ban.py`) | `GlobalBans`, `BanScope` | operations overtaking each other group by group | the last policy wins; a failed call has its journal |
| patrol (`services/patrol.py`) | `Patrol` | exemption or pass during a batch | nobody muted without a row; an exemption is respected |
| update delivery (`services/update_delivery.py`) | `UpdateDelivery` | control calls of unknown effect; batch persisted out of order | no update forgotten that is not stored |
| Telegram cleanup (`services/telegram_cleanup.py`) | `CleanupQueue` | a delete outlives its lease | every request settled |
| scheduled messages (`services/scheduled_messages.py`) | `ScheduledMessages` | crash between delivery and completion | a repetition has a cause |
| group permissions (`services/group_permissions.py`) | `GroupPermissions` | fingerprint against the real state, a pass cut off in its call | converges; "applied" is true but for named exceptions |
| privileged lanes (`services/privileged_tasks.py`) | `PrivilegedTasks` | operation outlives its deadline | one operation per key; receipts honest |
| debounced replies (`handlers/group.py`) | `PendingReplies` | worker ends while an item arrives | every message answered or told, once per cause |
| reply delivery (`utils/telegram.py`, `services/reply_progress.py`) | `ReplyDelivery` | lost edits and sends | nothing read twice unless a message was lost |
| LLM client (`services/llm.py`, `resource_health.py`) | `ModelCalls` | calls that never end | capacity respected; requests return |
| memory (`services/memory.py`) | `MemoryHistory` | compaction beside arrivals, retention and restart | no message lost to a compaction |
| proactive topics (`services/proactive.py`) | `ProactiveTopics` | unlocked JSON document with four writers | one topic per silence; no update overwritten |
| speech style (`services/speech_style.py`) | `SpeechStyle` | retarget during a model call | the profile is the target's |
| call for administrators (`services/call_admin.py`, `notification_pins.py`) | `CallAdmin` | lost pins, edits and unpins | cooldown held; a pin has its button |
| SQLite write lock (`db/sqlite_session.py`) | `WriteLock` | cancellation at the hand-over; savepoints | one holder, none forgotten |
| Telegram HTTP session (`services/telegram_session.py`) | `HttpSession` | reset beside requests | no exchange cut |
| semantic index (`services/archive_vector.py`, triggers in `db/engine.py`) | `ArchiveIndex` | edits and model changes while a batch is away | what a search compares is what the message says; every message is indexed |
| runtime settings (`services/runtime_config.py`, `web/settings_api.py`) | `RuntimeConfig` | two pages, two processes, a start that migrates | a revision names one document; what runs is what was saved |
| process life cycle (`__main__.py`, `services/resource_health.py`, `background_health.py`) | `ProcessLife` | steps that overrun, failed starts, a blocked event loop | no leased update stranded; everything closed; a broken process ends |
| authorization, migrations, commands, middlewares, skills, utilities, browser code | - | little shared protocol of their own | used as guards and inputs by the parts above |

How they meet.  Telegram reaches the program through delivery and the inbox; the inbox
runs a handler behind the middlewares and completes the row from the handler's receipt,
so every handler must tolerate being run again.  Group messages go to moderation and to
the debounced replies, whose receipts stay open until answer and history are stored;
operators' commands go through the privileged lanes, whose receipts stay open until the
operation is over.  Joins, leaves, messages and commands create and end verification
rows; the sweeper, the page and the buttons act on the same rows and on the same member
of the chat.  Votes, lockdowns, patrols, moderation and global bans reuse those rows to
punish and as journals of what Telegram still has to be told.  All of them send through
the priority gates and the HTTP session and write through the SQLite write lock.

A component is modelled with the others' part of its state as an environment: where two
meet in one row or one member, the other's step is in the module in one action (the
sweeper in `VoteBan`, `RaidSuspects`, `Patrol` and `VerifyPage`, for example) and in
detail in its own.

## 2. The durable update inbox

`UpdateInbox.tla` models class `_WebhookUpdateQueue`.  Webhook and polling both write an
update to the table `webhook_inbox_updates` before Telegram is told that it was
accepted.  From then on the row is the truth and every in-memory structure is a hint.
The queue claims a row with one conditional UPDATE (attempt + 1, a lease of 300 s),
publishes it to the bounded queue of its lane, runs it in one of the lane's workers, and
completes, releases or dead-letters the row with writes conditional on the lease.

| model | code |
|---|---|
| `row[u]` | the row: status, attempts, lease, whether the lease is live, `next_attempt_at` in the future |
| `tg[u]` | whether Telegram still offers the update (its acknowledgement has not arrived) |
| `proc[p]` | a processor: down, running, quiescing (`quiesce`), stopped (`_stop_impl`) |
| `pub[p][u]` | `accept_durable_update` and the publish task it spawns |
| `rec[p]` | the row the recovery loop is about to claim |
| `inflight[p][u]` | `_inflight_updates` |
| `job[j]` | a `_QueuedWebhookUpdate` and the task that owns it |
| `succeeded`, `spent` | history: reported successes, used attempts |

Each await of the code ends an action.  The in-flight check, the claim and the queue
insert are three awaits, so they are three actions (`PublishCheck` or `RecoverCheck`,
`PublishClaim` or `RecoverClaim`, `Enqueue` or `Unclaim`).  `HandlerEnds` chooses what the handler
does: report success or failure, defer to a detached owner, or outlive its deadline
(late).  `WaitEnds`, `Renew`, `Complete`, `Release` and `Finish` are the finalizers;
`WorkerDone` is the worker's own bookkeeping that runs beside them.

The code uses a lease timestamp as the identity of the claim that wrote it and for its
expiry.  The model therefore stores the job object itself as the lease, and a Boolean
`live`.  `slack` records that the current phase of a job is shorter than its lease
(an ordinary job ends 152 s after its enqueue, a finalizer renews every 100 s); such a
lease does not expire under its owner, every other one may at any moment.

`UpdateContract.tla` is the promise without processes and leases: an accepted update
stays pending until a handler of it succeeded or its attempts are used up, and only a
settled update is forgotten.  `ImplementsContract` is the refinement (`status` is the
row's status, `handled` is `succeeded`, `used` is `spent`).

Properties:

- `OneCopyPerProcess`: a process never queues, runs or late-finalizes an update twice at
  a time, whatever happens to its lease.
- `ExclusiveWork`: with a healthy database no two workers or finalizers in any processes
  work on one update.
- `AttemptsAccounted`: a row's attempts are those that reached a lane or were lost with
  their process; a full lane alone never brings a row closer to the dead letter.
- `DoneMeansHandled`, `NoStartOnSettled`: nothing is completed unhandled or started again
  once it is settled.
- `EventuallySettled`, `CriticalSettled`: every update is settled over exits, restarts and
  failing writes; an operator's update is settled although the ordinary lane hangs.

Fairness: the event loop runs every ready task, calls have hard deadlines, clocks move
and the service manager restarts the process (`__main__.py` exits so that it does), hence
weak fairness of every task step, of `Boot`, `LeaseExpires` and `DelayPasses`.  Lanes are
FIFO and a recovery pass visits every eligible row, so `Start` and `RecoverCheck` get
strong fairness: a full lane disables them only for a while.  Late and deferred handlers
are assumed to end.  `CriticalFairSpec` drops the assumption for the ordinary lane.

## 3. Member verification

`JoinVerification.tla` models the row of one member in one group and every task of the
process that acts on it.  Rows are keyed by (group, user), and no transaction touches two
of them, so one row is enough.

| model | code |
|---|---|
| `row` | `JoinVerification`: status, kind (join or moderation), `expires_at` or lease passed (`due`), `punish` (ban rather than kick) |
| `policy` | `UserWarning.is_banned` |
| `tg`, `present` | what Telegram enforces on the member, whether he is in the chat |
| `arrived`, `departed` | chat_member updates that wait in the inbox |
| `marker` | `_RECENT_MANUAL_UNBAN_GENERATIONS`: a manual unban a few minutes ago |
| `worker[w]` | a task: its next step, why it runs (`for`), whether the row is still the one it saw (`same`), whether nobody has written a lease or deadline since (`lease`), rounds of reconciliation, the policy it read |
| `passed`, `lifted` | history: the challenge was solved in time; nothing has asked for a ban since the last /unban |

The workers are chosen by `Role`: a join update (`_start_join_verification`: issue,
refresh, rejoin after the deadline, duplicate update), a moderation hit on a message
(`begin_moderation_challenge`), the member on the Mini App page, the sweeper
(`JoinVerificationSweeper`: expiry, kick, ban, resumed release or unban, abandoned
preparation), and an administrator's /ban and /unban.  Each step name in `Steps` is a
Telegram call or a transaction of that procedure; what follows a lost row
(`abort`, `fix`: `reconcile_stale_verification_restriction`, `rec`:
`reconcile_moderation_ban_after_lost_lease_result`) is part of the worker that lost it.

The code's only defence is the compare-and-set on id, status and lease or deadline.  The
model keeps exactly what that comparison can see: a write of a lease sets `lease` to
FALSE for all other workers (`Outrun`), the end of a row sets `same` to FALSE
(`Orphaned`).  A Telegram call (`Call`) succeeds, fails without effect, or fails
after it took effect (ambiguous); a lost call uses one of `MaxFaults`.  `GivesUp` is the
sweeper's deadline of 45 s per record and a database outage in its steps.
`Lapse` lets a deadline or the lease of a slow or dead worker pass; a lease is 90 s and the
calls made under it are bounded well below, so it does not lapse under steps that are
not in `Slow`.

`ChallengeContract.tla` is the promise: prepared, presented, then answered, withdrawn or
expired; only an expired challenge is enforced, an answered one never; a ban is recorded
only at the end of an enforcement or of an administrator's journal.  `KeepsContract` is
the refinement.

Properties:

- `PassIsFinal`: once solved in time a challenge is never enforced, by the sweeper, a
  rejoin or a resumed worker.
- `NoOrphanMute`: a member who is muted in the chat is somebody's business: a row, a
  running task or an update still to be handled.
- `NoSilentBan`: a kick's ban does not survive the row and the workers that must lift it.
- `BanInForce`: a recorded ban is enforced on Telegram once everything is quiet.
- `BanNotResurrected`: after /unban only a new cause may record a ban.
- `RowsResolve`: every row reaches its end, whatever failed or crashed.

Fairness: tasks that have begun go on, join and leave updates are delivered (the inbox),
the sweeper is called every few seconds, deadlines pass.  Nothing is assumed of the
member, of administrators, or of the outcome of a call beyond `MaxFaults`.

## 4. Admission gates

`CapacityGate.tla` models class `ReservedCapacityGate`, which every Telegram call, model
request, skill and verification step passes.  A request of priority NORMAL takes a permit
of the semaphores "normal", "noncritical" and "total" in this order, one of priority HIGH
skips the first, a CRITICAL one takes "total" only.  "normal" and "noncritical" are
`asyncio.Semaphore`s of the Python the Dockerfile names (3.12), "total" is the program's
own `_PriorityCapacitySemaphore`.

| model | code |
|---|---|
| `value[s]` | `_value` |
| `st[t]`, `at[t]` | the task: outside the slot, waiting for its future at a semaphore, its future set (`granted`) or cancelled and the task not yet run, or inside the slot |
| `ahead` | arrival order of the futures in one queue |
| `stale` | cancelled futures still in the queues of "total", which keep `acquire` from taking a free permit |

An action is what a task does between two awaits: `Enter` and `Resume` take every permit
that is free and stop at the first that is not, `Cancel` is the deadline or a cancellation
that reaches a pending future, `GiveUp` the `except` branches of `acquire` and `slot`
(also for a task cancelled after its future was set), `Exit` the end of the slot.
`asyncio.Semaphore` lets a waiter that resumes, or gives up, wake as many others as
permits are left; `release` of "total" wakes the first live waiter of the most urgent queue.

Properties:

- `PermitsConserved`: a permit is free or with exactly one request, also while it is on
  its way to a waiter that is cancelled.
- `NoIdlePermit`: no permit is free beside a waiter, unless a waiter that was chosen is
  about to run and will wake the others; "total" never refuses a free permit because of
  cancelled futures.
- `ReserveForUrgent`: the sentence of the class's docstring on the reserve.
- `UrgentServed`: an urgent request that waits is served or gives up, however many
  ordinary requests come.  Fairness: the event loop runs a task whose future is done, and
  requests inside the slot end (they have deadlines of their own).

## 5. What acts on members

Each of these modules follows one subject (a poll, a lockdown, a member, a user) with
every task that may act on it.  A step is what lies between two awaits that let another
task in: one transaction or one call.  A call of Telegram may fail, and where the code
must cope with it, fail after it took effect; the failures are counted against a bound.
A crash takes every task and leaves rows and Telegram; the restart runs what the code
runs at startup.

**`VoteBan`.**  `poll` is the status of the row of `vote_ban_sessions`, `ballots` its votes,
`counting` the handlers between the commit of their ballot and its count, `ticket` the
target's recovery row, `enforcer[e]` a task that enforces (a handler, or `Loop`, the poll's
recovery loop), `watch` whether that loop lives, `unban` and `notify` the administrator's
/unban and the task it leaves behind, `sweeper` the one that works off the ticket.  A claim
writes the poll's lease and the ticket in one transaction; `Superseded` and `Outrun` are
what the comparison on those leases can see.  Whoever claims or takes over reads the leases
again before the call (`CheckOwnership`, `CheckTakeover`); a handler that finds the poll
decided cancels the loop (`Tell`, `CancelLoop`), whose ban may still land, while a
reconciliation goes on behind its shield (`CutShort`).  The sweeper reads the policy again
after its call (`SweepAct`, `SweepCheck`).  The deadline passes when `Expire` says so.  The
lock that a handler of the buttons holds on the target is left out: what else acts on the
target takes none, so the model allows more interleavings than the code.
- `ThresholdSeen`: of two ballots that come together one sees the threshold.
- `OutcomeSettles`: once the poll is closed and everybody is at rest, Telegram bans the
  target exactly when the policy does.  `stray` excuses an enforcement that was lost track
  of: a reconciliation that failed, died or was cut short, a sweeper that goes on after
  its ticket was taken from it, a poll overwritten by the task that sends its prompt.
- `DecidedOnce`: a decided poll keeps its decision.
- `EnforcementEnds`: an enforcement ends, unless an exception ended its recovery loop.

**`VotePrompt`.**  The message of the poll: `row` holds the durable ownership of its pin and
whether the message id is known, `edit` the step of the holder of the message lock,
`closing` and `notice` the tasks that are to finalize it, `retry` the one that repeats a
failed unpin.  The poll itself is claimed and closed by anybody at any time, as `VoteBan`
lets it be.  The pin reads the row, calls and reads again (`PinRead`, `PinCall`,
`PinChecked`), and the poll may close between any two of them.
- `PinAccounted`: a pin of a closed poll nobody is about to release is owned by its row.
- `PinReleased`: without a failed call nothing stays pinned, whatever the order of pin,
  close, /unban and restart.

**`RaidGuard`.**  `guard` is the lockdown in memory, `groupRow` what the group's settings
store (the manual lockdown and the ledger of pins), `lifecycle` the step of the holder
of the lifecycle lock, `cleaner` the task that retries unpins, `past` the deadlines that
are over.
- `PersistedAgrees`: outside a transition what is enforced is what survives a restart.
- `PinsInLedger`: a pin that a crash could leave behind is in the durable ledger.
- `LockdownEnds`, `PinsRetired`: a lockdown that is over ends for good, and its pin goes.

**`RaidSuspects`.**  `record` is the member's row with the holder of its lease, `suspect`
the member, `task[t]` the issuer of the challenge, the kick of a later join, the bulk
removal.  `bounced` and `released` are history: he left and came back under a task's
eyes; a release let him go.
- `NobodyLeftMuted`: a muted member has a row that will release or remove him.
- `ConsumedGoverned`: a join its own task dealt with is out, governed or released.

**`Moderation`.**  `verdict[m]` is the model's verdict with the rules, exemption and epoch
it was made under, `row[m]` the message's warning, `ledger[m]` the id of that row (0 before
there is one), `warning` the counter and recorded ban, `audits` the ban ledger's entries,
`journal` the "unbanning" row.  The rows an undo looks at are `Active`, the newest as many as
the counter says, in the form of a set.
- `CountsAgree`: the counter is the number of the present period's unreverted rows,
  although updates come back, buttons undo and /unban begins a new period.
- `AuditedOnce`: a ban enters the audit exactly when it is recorded as enforced.
- `NobodyKeptBanned`: who is banned on Telegram against the policy has a journal for the
  sweeper, unless a ban raced with the end of an /unban (`raced`, section 9).
- `VerdictsCurrent`: nothing is recorded on a verdict from before an /unban, an
  exemption or a change of the rules.
- `MemberSettles`: every message is dealt with and no journal stays.

**`GlobalBans`.**  `policy` is the user's global ban, `local[g]` the group's own,
`journal[g]` the leased recovery row, `at[w][g]` where a worker (operation, sweeper,
enforcement on a message) is in a group, `snap` the policy it has read.  `unseen` is a
history of the groups for which an operation's last call was made for a policy that is no
longer recorded, or whose ban the panel has forgotten while Telegram kept it (section 9).
- `PolicyWins`: without failed calls every group not in `unseen` ends as the last policy
  says, however operations overtake each other.
- `JournalCovers`: with failed calls but one operation, a group agrees or has its journal.

**`BanScope`.**  One message with two buttons; `token` and `claimed` are the dictionary in
memory, `scopeTask` the queued task of a scope.
- `ScopesApart`: both scopes are worked on only after a named race.
- `ClaimBacked`: a claim that turns the other scope away has work behind it.

**`Patrol`.**  `caller` and `busySlots` admit the runs, `phase[m]` is where the run is with
a member, `row[m]` and `muted` his row and his rights.
- `NobodyLeftMuted`, `ExemptUnchallenged`, `DayCovered`: as their names say; `lost` names
  the members of a run that died, or failed to look, between its mute and its second look.

**`VerifyPage`.**  `current` and `future` are the cache of running verifications, `slots`
the bounded calls to the captcha service, `pageTask` the shielded terminal task, `button`
an administrator's press.  An issue is a number; an extended deadline makes it the same
row with another fingerprint.
- `OkHonest`: the page says "passed" only of a challenge whose member was released.
- `EntriesLive`, `SlotsReturned` (`CacheSound`): no entry or slot outlives its request.

## 6. What moves messages, calls and stored work

**`CleanupQueue`.**  `job[m]` is the row, `intake[w][m]` the request in a process's memory,
`call[w][m]` a delete call, bounded or orphaned; dates are due or not due.
- `RequestsKept`: an acknowledged request has its row or waits in a live process.
- `CallCovered`: the bounded call for an open request is under its lease to the end.
- `OneCallEach`: a process never deletes a message in two calls at once.
- `RequestsSettle`: every request is settled through failures and restarts.

**`ScheduledMessages`.**  `entry` is the administrators' row, `occ[d]` the occurrence of day
`d` with its lease, `pass[w]` the pass of a process.
- `SentAccounted`: each publication beyond the first is paid for by a failure, a crash,
  a lapsed lease or a recreated occurrence.
- `OwnerCompletes`: only the holder of the lease completes an occurrence.

**`GroupPermissions`.**  `stored` and `window` are the configuration and the night, `chat`
what Telegram has, `cache` the fingerprint, base and error in memory.  The pass runs under a
deadline of 180 s (`:608`), which cancels the call it is in: `except Exception` (`:770`,
`:809`) does not see that, so the lock is given back, no error is recorded and the
fingerprint and its freshness stay, whether or not Telegram has applied the call
(`CutOff`).  Only the pass is cut off: the handlers of the Mini App run without a deadline.
- `StatusAccounted`: "applied" without an error means that Telegram has it, unless it was
  changed there (`edited`) or a pass was cut off in its call (`cut`) since the last success.
- `PermissionsConverge`: in the end Telegram has what is configured.

**`PrivilegedTasks`.**  A job is an update and a key; `byKey` is the table that deduplicates,
`tasks[j]` the job (queued, running, orphan, over), `receipt[u]` the completion receipt.
- `OneOperationPerKey`, `ReceiptsHonest`, `QueueMovesOn`: two operations of one key never
  run together; a receipt is settled when all it waits for is over; nothing waits for ever.

**`UpdateDelivery`.**  `backlog` is what Telegram keeps, `inboxed` what is stored, `hook` the
registration, `stage` where the process is, `offset` and `batch` the polling.
- `NothingForgotten`: Telegram forgets only what is in the inbox.
- `EveryUpdateArrives`: every update reaches it.

**`ModelCalls`.**  `req[q]` is a request with candidate and attempt, `task[q]` its current
call, `orphans` the calls nobody waits for, `circuit[c]` a model's circuit, `seen` history.
- `RealCallsBounded`, `CircuitEarned`, `RequestsReturn`, `PermitsReturn`.

**`WriteLock`.**  `locked` and `queue` are the lock, `step[s]` a session at its acquire,
`holds[s]` its flag, `writer` SQLite's own writer.
- `LockAccounted`, `WriterCovered`, `TurnsKept`, `WaitsEnd`: one owner, nobody waits for a
  free lock, SQLite's writer owns it, turns are kept and waits end.  `excused` are flushes
  that never asked for the lock and rollbacks that failed.

**`HttpSession`.**  `uses[c]` is the connector a caller runs on, `gen` the one in force.
- `NobodyCut`: a reset cuts nobody's exchange, but for one that began while it closed.

**`PendingReplies`.**  `queue` and `batch` are a sender's waiting and current messages,
`worker` and `child` his worker and the bounded generation, `rows` the history's unwritten
rows, `at[u]` the receipt.
- `OneVoice`: a batch is answered or told of a failure, never both.
- `SettledByOwners`: an update is settled only when its child and rows are.
- `RepeatsExplained`: a message is answered twice only after a lost row or a stop.
- `DirectHeard`: a message to the bot is not completed in silence.
- `MessagesComplete`: every message is completed.

**`ReplyDelivery`.**  `card` is the progress card as the chat shows it, `known` as the
program knows it, `copies[p]` the messages with a part of the answer, `lost[p]` those
whose sending was lost.
- `ReadOnce`, `RepeatedUnseen`, `CardSettled`: a part is read twice only when a message
  was lost, a turn that is repeated showed nothing, no card stays at work.

**`MemoryHistory`.**  `window` is the working history, `unwritten` and `stored` its rows,
`compactor` the compaction with its snapshot.
- `NothingForgotten`, `WindowBacked` (`HistorySound`): a message leaves only into the
  summary, by age or by the limit, and a restart finds the window again; `overtaken` marks
  the race of section 9.

**`ProactiveTopics`.**  `doc` is the JSON document of a group, written by passes, the activity
writer, commands and the page; `heard` is the activity a process knows.
- `OneTopic`, `NothingOverwritten`, `ProcessedStays`.

**`SpeechStyle`.**  `style` is the stored state, `learner[w]` a distillation without a
transaction.
- `StyleCurrent`: the profile is the present target's and no collected message is uncounted.

**`CallAdmin`.**  `cooldown` is the claim of a call, `at[c]` its step, `pinned`, `button`,
`late` and `sure` what Telegram shows and what the program believes of its pin.
- `CooldownHeld`, `PinsOwned`.

**`ArchiveIndex`.**  `archive[m]` is what an archived message says, `jobs[m]` its row of
`group_message_archive_embeddings`, written by the triggers and by the indexers, `indexer[p]`
a pass with the batch it read, `space[p]` the embedding model a process is configured for.  A
text stands for its hash, and a vector for the text and the model it was made from.
- `VectorsCurrent`: what a search compares is a vector of what the message says now, made by
  the search's model, and only a message without words is passed over; `overtaken` marks
  the race of section 9.
- `IndexSettles`: every message is indexed in the end, whatever pass was cut short.

**`RuntimeConfig`.**  `stored` is the record with its revision and the secrets beside it,
`mem[p]`, `settings[p]` and `parts[p]` what a process holds of them, its `Settings` and its
components; `saver` and `plan` are the save that has the lock, `form[a]` an open page.
- `RevisionTells`: whoever holds the stored revision holds what is stored, so a save that
  passes the compare-and-set has seen what it replaces; `strayed` marks section 9's cases.
- `SettingsFollow`: a process runs on what it last saved or read, through conflicts and
  failed writes, but for components whose refresh failed.

**`ProcessLife`.**  `todo` is what is left of the start or of the shutdown, `open` what has to
be closed, `held[u]` who has a leased update in this process, `overran` the steps that were
abandoned at their bound, `frozen` a call that blocks the event loop.
- `LeasesGivenBack`: the shutdown stops the inbox's finalizers only after everything that
  may still hand them an update, so none stays leased unless a step overran.
- `ClosedBehind`: wherever the start failed, what was opened is closed.
- `ProcessEnds`: once a permanent service or the delivery has ended the process ends, so that
  the service manager can start it again, whatever step, thread or call resists.

## 7. Runs and bounds

Safety and liveness share a run where the instance allows it.  The modules of sections
5 and 6 are checked in three composed modules.  `Enforcement`, `Services` and `MCProgress`
instantiate them with variables of their own; the initial state chooses the `service` that
runs and the others keep their initial state, so that the state spaces add up instead of
multiplying.  The constants of `Enforcement` and `Services` are those of the modules, so
that the proofs of section 8 speak of the very formulas TLC checks; `MCServices` adds the
two values a configuration file can not write down.  A composed property is the conjunction of the modules'
properties of one kind; `Runs(s) => ...` or the stillness of the others restricts each
conjunct to the behaviours that run its module.

| run | instance | shows |
|---|---|---|
| `inbox_failures` | 1 process, 1 update, 2 jobs, 2 attempts, failing writes, 1 exit | every lease loss, deferred and late handler, returned claim and shutdown path keeps the invariants, and the update is settled |
| `inbox_rolling_deploy` | 2 processes, 1 update, 2 jobs, 2 attempts, healthy database, 1 exit | exclusive work across processes; the inbox implements its contract |
| `inbox_lanes` | 1 process, 2 updates in 2 lanes | the critical lane is served although the ordinary one hangs |
| `verify_join` | join task, member on the page, sweeper; 2 lost calls, 1 crash, leave and join updates in any order, authorization withdrawn | a solved challenge is final; every row is resolved; the contract holds |
| `verify_rejoin` | join task, moderation hit, sweeper; 2 lost calls, 1 crash | a kick's ban is always lifted, a recorded ban always in force |
| `verify_admin` | moderation hit, administrator, sweeper; from an empty table or a join challenge presented before | /ban and /unban at every step of a challenge, of its ban and of its kick leave no member muted and no lifted ban recorded |
| `gate_admission` | six requests, two of each priority; 1, 2 and 3 permits | no permit is lost, doubled or idle; the reserve and the service of urgent requests |
| `enforcement` | the modules of section 5, about 974,000 states | `VotesSettle`, `LockdownsKept`, `PunishmentsCounted`, `BansFollowPolicy`, `PatrolSound`, `PageSound`, `VerdictsStand` |
| `services` | the modules of section 6, about 937,000 states | `WorkKept`, `UpdatesAccounted`, `ResourcesHeld`, `AnswersSettled`, `ContextSound`, `StepsSound` |
| `progress` | twelve of these modules with fairness, smaller instances | `DutiesEnd`, `RequestsEnd`, `WaitsEnd` |
| `inbox_deferred_replay`, `memory_arrivals` | as `inbox_failures`; one group's history | a violation each: section 9 |

Bounds of the inbox, the verification and the gate.  One update per process is enough
for everything but the lanes, because updates share only lane slots and workers; two jobs
are the smallest number with which an update can be held twice; two attempts separate a
retry from the dead letter; one exit meets every step, and the restart is unbounded.  Two
processes are what a rolling deploy runs.  Lane capacity and workers are one, so that a
lane is full whenever it holds anything.  `MaxFaults` bounds lost or ambiguous calls and
outages (two, so that a compensation can fail as well), `MaxCrashes` crashes, `MaxRounds`
the reconciliation loop (five in the code; fewer where administrators act, whose
take-overs each add a round).  One worker of each kind is what the code admits for joins
(one task per member), for administrators (`_MANUAL_BAN_LOCKS`) and for the sweeper (one
record at a time for a member).  At the gate two requests of a priority give each queue
an order, and one, two and three permits let every semaphore be full while the next has
room.

Bounds of the composed instances.  Every race has two actors: two enforcers of a poll,
two messages of a member, two operations on a user, three presses of a scope, two
submissions beside one button, two posters, cleaners, saves, processes, learners, calls.
Thresholds are the smallest that separate "not yet" from "reached" (three ballots, two
warnings, two failures to a circuit or a reset), queues hold one entry so that they are
full, locks have three sessions so that order among waiters matters.  A lockdown is
established twice, so that one follows another's end; a schedule has two days.  Two
indexers and two servers are those of a rolling deploy; one page is enough for two, because
a page whose answer was lost keeps its old revision beside what another save has written.
A shutdown has one update and may abandon two steps.  Faults
are one or two where a call's compensation can fail too, up to four where the code retries
that often (`UpdateDelivery`, `ReplyDelivery`, `CallAdmin`), and one crash meets every
step.  Times are events that may come at any moment unless the code bounds the step by
less than the lease; a task that outlasts its lease counts as a fault.

Fairness of the composed run is that of the modules: tasks that began go on, loops
(recovery, reconciliation, sweeper, flush, indexer, watchdog) come round, deadlines and leases pass,
a stopped process is started again.  Nothing is assumed of people, and a call's failures
are bounded only by the constants.  Strong fairness is assumed where another actor may
disable a step again and again and the code's own queue ends that: a pass that finds the
permission lock taken, an expiry that finds the lifecycle lock taken, a claim of a due
deletion.  In `ProcessLife` the steps of the loop are fair only while no call blocks it; the
watchdogs are threads beside it and run always.

The definitions named as mutants by their comments are plausible mistakes of the code, at
least one for each property of each passing run, listed under `mutants` in
`PROJECT.json`: with the mistake in place the run's property fails, so the property says
something about the code.  A composed property has mutants in several of its modules.

Deadlock is checked at the gate only: a system with no update, no member and no exits
left stops.

## 8. Proofs

Eight modules prove, for every value of the constants (any number of processes, jobs,
lanes, updates, keys, messages, members, voters, workers and requests, any bounds on attempts,
faults and restarts), what the runs check on small instances.  `UpdateInboxProofs`,
`JoinVerificationProofs` and `CapacityGateProofs` are about one module each.
`LockdownsProofs`, `VerdictsProofs` and `BansProofs` extend `Enforcement`, `UpdatesProofs`
and `ServicesProofs` extend `Services`: each proves the inductive invariants of two to nine
of the composed modules, and from them the property of the composition that speaks of
these modules.

The theorems rest on the `ConstantsAssumption`s, `EnforcementAssumption` and
`ServicesAssumption`, which TLC evaluates on every run: the bounds are naturals, the names
for "nobody" name nobody, an enforcing task of a poll is its loop or a handler, a lane's
updates and keys are finite, and so are the operations on global bans, the presses of
a message's buttons, the submissions of the verification page, the messages of the
moderated member, the processes that publish scheduled messages and the requests to the
language models.  A theorem about one of the composed modules names the part it needs.

| theorem | statement |
|---|---|
| `UpdateInboxProofs!TypeCorrect` | `Spec => []TypeOK` |
| `UpdateInboxProofs!OneCopy` | `Spec => []OneCopyPerProcess` |
| `UpdateInboxProofs!AttemptsFair` | `Spec => []AttemptsAccounted` |
| `UpdateInboxProofs!CompletionIsHandled` | `Spec => []DoneMeansHandled` |
| `UpdateInboxProofs!InboxImplementsContract` | `Spec => ImplementsContract` |
| `UpdateInboxProofs!WorkExclusive` | `Spec => []ExclusiveWork`, if all updates are ordinary and writes do not fail |
| `UpdateInboxProofs!NoSettledStart` | `Spec => NoStartOnSettled`, if all updates are ordinary |
| `UpdateInboxProofs!Inductive` | `Spec => []InductiveInv` |
| `JoinVerificationProofs!TypeCorrect` | `Spec => []TypeOK` |
| `JoinVerificationProofs!PassIsFinalAlways` | `Spec => []PassIsFinal` |
| `JoinVerificationProofs!VerificationImplementsContract` | `Spec => KeepsContract` |
| `JoinVerificationProofs!Inductive` | `Spec => []InductiveInv` |
| `CapacityGateProofs!TypeCorrect` | `Spec => []TypeOK` |
| `CapacityGateProofs!Conserved` | `Spec => []PermitsConserved` |
| `CapacityGateProofs!NoneIdle` | `Spec => []NoIdlePermit` |
| `CapacityGateProofs!Reserve` | `Spec => []ReserveForUrgent` |
| `CapacityGateProofs!Inductive` | `Spec => []InductiveInv` |
| `UpdatesProofs!UpdatesHold` | `Spec => []UpdatesAccounted` |
| `UpdatesProofs!NeverForgotten`, `DeliveryInvariant` | `D!Spec => []D!NothingForgotten`, `[]DeliveryInv` |
| `UpdatesProofs!KeyExclusive`, `HonestReceipts`, `LaneInvariant` | `P!Spec => []P!OneOperationPerKey`, `[]P!ReceiptsHonest`, `[]LaneInv` |
| `UpdatesProofs!LifeInvariant` | `X!Spec => [](LifeInv /\ X!LeasesGivenBack)` |
| `UpdatesProofs!ResourcesAreHeld` | `Spec => []ResourcesHeld` |
| `UpdatesProofs!ModelInvariant` | `M!Spec => [](ModelInv /\ M!RealCallsBounded /\ M!CircuitEarned)` |
| `UpdatesProofs!WriteInvariant` | `L!Spec => []WriteInv`, which implies `L!LockAccounted` |
| `UpdatesProofs!SessionInvariant` | `H!Spec => []SessionInv` |
| `UpdatesProofs!AnswersAreSettled` | `Spec => []AnswersSettled` |
| `UpdatesProofs!RepliesInvariant` | `R!Spec => [](RepliesInv /\ R!OneVoice /\ R!SettledByOwners /\ R!RepeatsExplained /\ R!DirectHeard)` |
| `UpdatesProofs!AnswerInvariant` | `A!Spec => [](AnswerInv /\ A!ReadOnce /\ A!RepeatedUnseen /\ A!CardSettled)` |
| `LockdownsProofs!LockdownsHold` | `Spec => []LockdownsKept` |
| `LockdownsProofs!PinsRecoverable`, `EnforcedIsStored`, `RaidInvariant` | `R!Spec => []R!PinsInLedger`, `[]R!PersistedAgrees`, `[]RaidInv` |
| `LockdownsProofs!SuspectsInvariant` | `S!Spec => [](SuspectInv /\ S!NobodyLeftMuted /\ S!ConsumedGoverned)` |
| `VerdictsProofs!VotesHold` | `Spec => []VotesSettle` |
| `VerdictsProofs!PollDecidedOnce`, `VoteInvariant` | `V!Spec => V!DecidedOnce`, `[]VoteInv` |
| `VerdictsProofs!PromptInvariant` | `U!Spec => []PromptInv` |
| `VerdictsProofs!PunishmentsHold`, `ModerationInvariant` | `Spec => []PunishmentsCounted`, `[]ModInv` |
| `VerdictsProofs!VerdictsHold`, `VerdictsAreCurrent` | `Spec => VerdictsStand`, `M!VerdictsCurrent` |
| `BansProofs!BansHold` | `Spec => []BansFollowPolicy` |
| `BansProofs!LastPolicyWins`, `OneOperationCovered`, `BanInvariant` | `G!Spec => []G!PolicyWins`, `[]G!JournalCovers`, `[]BanInv` |
| `BansProofs!ScopesKeptApart`, `ClaimsBacked`, `ScopeInvariant` | `B!Spec => []B!ScopesApart`, `[]B!ClaimBacked`, `[]ScopeInv` |
| `BansProofs!PatrolHolds`, `PatrolInvariant` | `Spec => []PatrolSound`, `P!Spec => []PatrolInv` |
| `BansProofs!PageHolds`, `PageInvariant` | `Spec => []PageSound`, `W!Spec => []PageInv` |
| `ServicesProofs!QuietAfterCall`, `EveryPinOwned`, `CallInvariant` | `K!Spec => []K!CooldownHeld`, `[]K!PinsOwned`, `[]CallInv` |
| `ServicesProofs!WorkIsKept` | `Spec => []WorkKept` |
| `ServicesProofs!NoRequestLost`, `CallsCovered`, `NoSecondCall`, `QueueInvariant` | `C!Spec => []C!RequestsKept`, `[]C!CallCovered`, `C!OneCallEach`, `[]QueueInv` |
| `ServicesProofs!ScheduleInvariant` | `S!Spec => []ScheduleInv`, which implies `S!SentAccounted` |
| `ServicesProofs!PermissionInvariant` | `G!Spec => []PermissionInv` |
| `ServicesProofs!ConfigInvariant` | `F!Spec => []ConfigInv` |
| `ServicesProofs!ContextIsSound` | `Spec => []ContextSound` |
| `ServicesProofs!HistoryInvariant` | `Y!Init /\ [][Y!Next]_memoryVars => []HistoryInv`, which implies `Y!HistorySound` |
| `ServicesProofs!StyleInvariant` | `Y2!StyleInit /\ [][Y2!StyleNext]_styleVars => []StyleInv` |
| `ServicesProofs!TopicInvariant`, `DealtStays` | `T!Init /\ [][T!Next]_topicVars => [](TopicInv /\ T!OneTopic)`, `T!Spec => T!ProcessedStays` |
| `ServicesProofs!IndexInvariant` | `V!Init /\ [][V!Next]_indexVars => [](IndexInv /\ V!VectorsCurrent)` |

A composed theorem has three parts: the components' invariants are inductive; a behaviour
of the whole is, projected to the variables of a component, one of that component
(`Projection`: either its own step or a stutter); the invariants imply the composed
property.

*Inbox.*  `OneCopyPerProcess` is not inductive: a deferred job loses its in-flight entry
before it ends, so two jobs of one update may exist.  `EntryInv` says which jobs still
own the entry (all published ones but deferred ones) and that only a verdict changes a
job's mode; at most one job can own the entry.  `AttemptsAccounted` needs `ClaimInv` (a
claim on its way to the lane holds its row under a live lease, so nobody can claim past
it).  The refinement needs `AttemptsAccounted` for the dead letter (the attempts the row
counts were really used), `HandledInv` for completion, and `AcceptedInv` (jobs exist only
for accepted updates) for late successes.  `InductiveInv` is the conjunction.
`WorkExclusive` and `NoSettledStart` rest on `LeaseInv`: a job that is claimed, queued
within its budget, running, or waited for by a finalizer holds its row under a live lease.
It needs that the lane is the ordinary one (in a reserved lane the budget begins at the
dequeue, and the lease may end before it); the finalizer's part needs that writes do not
fail.

*Verification.*  `PassIsFinal` speaks of the row and of the workers that hold it for
enforcement.  It is preserved only if no worker that once set out to enforce a row counts
a later row as its own: `OwnershipIsCurrent` (a lease implies that the worker's row is the current one; that implies a row; and a
row in preparation or pending is no enforcer's).  `PurposeFits` records which purposes the steps
may have from which the kick and the compensation branch.  The proof restates the
invariant per worker (`Good`, equivalent by `InvIsInductiveInv`), proves what each write
does to the other workers (`SetKeeps`, `LeaseKeeps`, `DeleteKeeps`, `InsertKeeps`,
`TakeOverKeeps`), then one lemma per shape of step (a call, a renewal, the end of a row)
and one per group of actions; each lemma yields the next invariant and a step of the
contract together.

*Gate.*  The two invariants need each other: that a hand-over leaves the balance intact
counts the waiters that are woken, and that at most one is woken where the code wakes one
needs no free permit beside a waiter before.  `PutHolders` and `PutCount` give the holders
of a semaphore after one task moved and a set of futures was set; `Balance` turns the
count into conservation, and each action supplies the new value and the queue it leaves.
`StageFits` (a task waits at none of the semaphores its priority skips) makes the set of
permits a task has readable from where it waits.  `Reserve` follows: with "total" full,
whoever is inside and not urgent also has a permit of "noncritical".

*Lanes.*  `Tracked` says that a job that may still act is the one its key is mapped to, past
its deadline too, so that two of a key are one job.  `Counted` says that a receipt's count
is the number of jobs that hold it (the update's own and the duplicates it joined), which
needs `Finitely` and `Once` (an update submits a key once); `Awaited` that a job an update
waits for holds its receipt until it has ended, with success where the receipt says so.

*Delivery.*  `Confirmed` says what the offset confirms.  It is inductive only with `NoGap`:
an update below one of a running batch is in the batch or stored, so that the persisted
prefix of a batch has no hole an offset could step over.  `Largest` gives the end of such a
prefix, from the well-foundedness of the naturals, and `Acknowledge` where the offset goes.

*Calls.*  `FreshKept` adds to `CooldownHeld` that a call whose message was sent is no longer
where it gives its claim back; `Unpinned` and `RoundsLeft` say what a call has done before
its pin and while it settles it.

*Deletions.*  `RequestsKept` needs to know what a worker may take out of the table:
`DropsSettled` (a call that ends in dropping its row has settled the request) and
`Untouched` (a message nobody asked for has no row, no entry and no call).  `CallCovered` is
inductive with `OffIdle`: a process that is off runs no call, so that one that starts has
none to cover.

*Schedule.*  `SentAccounted` compares publications with their causes.  `Accounted` adds to
the publications of a day those that are still to come: the processes about to publish
without the lease of the occurrence (`Strays`) and the publication that the occurrence
itself still owes (`Owed`, none once its owner has published and only has to complete it).
A failure or a lapse pays for the stray it makes, and `Excused` says that the strays alone
are paid for as long as an occurrence can be created again, when `Owed` starts anew.

*Permissions.*  `StatusAccounted` speaks of a fingerprint without an error, and excepts what
the histories `edited` and `cut` remember; `InHand` adds that who is to apply a configuration,
or makes a call, has one to apply.

*History.*  That a compaction takes nothing that arrived while it waited for the model rests on
`LockHeld`: the compactor with the lock is the one that waits, and what it compresses is still
the head of the window.  `IsHead` says that of two sets of numbers; that the oldest of a set
are a head of it (`OldestIsHead`), and that cutting a head of a given size off cuts off just
that head, are facts about cardinalities.  `DoomedLeft` keeps rows to delete apart from the
window, and `QuietUnread` says that nothing is open before the history was read.

*Topics.*  `OneTopic` needs to know for which revisions a topic may still come: `Dealt` (the
silence is over, dealt with or claimed).  `SendingFits` says that one pass at most is between
its claim and its delivery, and that it is the first for its revision; `PassesFit` that the
passes that run are of one revision, no older than what was dealt with.  `DealtStays` is read
off the same step.

*Style and index.*  `StyleCurrent` is inductive with the types: a worker publishes only
while the target is still the one it asked the model about.  `VectorsCurrent` follows from `RowFits` (a row no edit has
overtaken is, while it is indexed and once it is ready or skipped, of what the message says
now) and `Worded` (no blank text is sent to the model).

*Settings.*  `RevisionTells` needs `Behind` (nobody holds a revision that the table has not
reached, so that the next number is new to everybody) and, for the starts that migrate,
`Booting` and `NotReplaced`.  `SettingsFollow` needs `Saving`: what a save is to write is what
its page asked for, on top of what the process holds.

*Process.*  `LifeInv` says that the steps of start and shutdown come in their order
(`InOrder`), that what is open is still to be closed or its step overran (`ToClose`), and
that what a step of the shutdown was to take away is gone unless it, or a step that feeds
it, overran (`Emptied`, `GivenBack`).  `LeasesGivenBack` is what that leaves at the end.

*Model calls.*  `RealCallsBounded` counts calls, which the code does not: `Spent` says that
the free permits, the orphans and the live tasks are together the capacity, and `Waited`
(a request has a task only while it waits for it) that no task is replaced while its call
still has a permit.  `CircuitEarned` follows from `CountedLast`: the last outcomes a circuit
has seen, as many as it counts failures, were failures, and a circuit that is not closed
counts them all.

*Write lock.*  `LockAccounted` is inductive with `Queued` (nobody waits twice, and whoever
waits is in the queue) and `Sole` (the lock has exactly one owner, a holder or a session it
was handed to, or is free).  `BestIn` gives the next in the queue, from the well-foundedness
of the naturals, and `OthersWait` what remains of a queue that one session has left.

*HTTP session.*  `NobodyCut` needs `CloseAlone` (a close began with nobody at work, so that
whoever exchanges has begun since) and, for the connector that is built meanwhile,
`RebuildSafe`; `OneCloser` says that the lock's holder is the one that closes.

*Replies.*  A receipt ends with its last owner, so `OwnersHold` says that what a worker, its
queue or a row still has is not settled, and that a worker has it once.  `WorkersHold`
says that a worker holds its child's batch until the child has ended, unless a shutdown took
it away; `WordsFit` that a batch that was answered, or whose row is decided, was heard, and that a notice
is the last word on it; `AnsweredFit` that a message that was answered without an excuse is
nobody's to answer again: it is in no queue, and if a worker still holds it, its batch is
consumed.  `DirectFit` is what is left of a message to the bot that nobody holds: it was heard,
or its receipt is unsound and it will be tried again.

*Answers.*  That an answer is read once depends on what the overlay's outcome was
when the text was sent: `OutcomeFits` says where the turn is while that outcome is open and
`Sent` that parts are sent on their own only if the overlay has not taken them, counted against the
calls that were lost.  `CardFits` and `RevealFits` say what the card may show and that none appears once
the tracker is through; `CardOwned` that a card that shows the status has somebody to settle it.

*Lockdowns.*  `PinsInLedger` needs the order of the two steps of a pin and of an unpin
(`LedgerFirst`) and that the holder of the lifecycle lock and the cleanup never pin and
unpin at the same time (`PinLock`).  `Agreed` extends `PersistedAgrees` from the moments in
which the lock is free to all moments since the state was restored: a raid detected without
the lock arms nothing over a manual lockdown.

*Suspects.*  `NobodyLeftMuted` and `ConsumedGoverned` speak of moments in which no task is
at work.  `Mended` says for the others who is going to look at a mute without a row,
`DealtWith` which joins rely on a row their task has lost; both need whose lease a row is
(`RowsHeld`), which steps each kind of task may be at (`Roles`) and that a task sees a
member out only if he is out or has come back since (`SeenOut`).

*Votes.*  `OutcomeSettles` speaks of moments at rest.  `Mistrusted` extends it to all:
what disagrees on a closed poll has a ticket, or a task that is still going to look
(`Doubts`).  It needs that a task about to record a ban it still owns has Telegram's ban
in force (`InForce`), that /unban works on a closed poll with the ticket (`UnbanHolds`),
that a ticket that is gone is in no task's lease (`NoLeases`), that only a closed poll's
ban is lifted (`Lifting`), that as long as the sweeper's ticket is its own the policy is
the one it read (`Sweeping`), and that nothing has happened before the first enforcement
(`Early`).  `Goes` and `Takes` say what a step does to the tasks, so that one lemma per
action carries the rest.

*Prompt.*  A pin is owned by its row, or somebody still attends to it (`PinsHeld`,
`Attended`); a poll that was never opened has no pin (`Unopened`), and what the row stores
follows what the chat shows (`Stored`, `Unstored`, `GivenUp`).  Since the pin is made with a
row read before the call, `Settling` says that what is about to be pinned is still owned and
that no retry works on it: a poll has one pin task, and retries begin after it.

*Warnings.*  `CountsAgree` compares a number with a set.  What makes it inductive is that an
undo, which takes the newest counted rows and knows nothing of periods, finds just those of
the present one (`ActiveIsPeriod`); this needs that ids are in the order of the claims and
that a later counted row is of no earlier period (`InOrder`).  A message that is counted has
no row yet, because a judged message is of a kind its row admits (`Judged`, which also says
that a verdict from before an /unban finds its marker; `VerdictsCurrent` follows).  `Placed`
says that whoever placed a ban and still has its journal acts for the recorded policy, so
that ending the journal leaves nobody banned against it.  `CountKept` carries the counter
through every step that touches no counted row, `WorkKeeps`, `PressKeeps` and `CommandKeeps`
what the tasks, the buttons and the command leave alone.

*Bans.*  `PolicyWins` and `JournalCovers` speak of quiet groups.  `Tended` extends the first
to all moments: while no call has failed, a group that Telegram has free against the policy,
or banned without one, has a journal that an operation has left to the sweeper, or a worker
with the correcting call still ahead (`BanAhead`, `LiftAhead`), or is in `unseen`.  Without `unseen`
it is false, which is how the races of section 9 were met.  `Covered` extends the second:
while one operation has started, `Sole` says what each of its steps implies about the
journal it owns, the group's own ban and Telegram (`WhileBanned`, `WhileLocal`, `WhileFree`),
and that only the sweeper, with its journal, works beside it (`Alone`).  Every action is one of four
shapes (`ReadDoes`, `CallDoes`, `WriteDoes`, `TakeUp`), and `OpKeeps` carries what they share.

*Scopes.*  `TokensMade` bounds the tokens by the presses that asked for one, so that the set
of tokens is large enough; `TokensHeld` says that what is queued or claimed refers to a token
that was made, and `Backed` is `ClaimBacked` for each scope.

*Patrol.*  `NobodyLeftMuted` speaks of members the run has let go of.  `Accounted` extends it
to the places where the run has done nothing yet or has taken its mute back: a mute met
there has a row, and one that lasts, which is neither about to be deleted by the run or by
the sweeper nor the row of an exemption that is through.  `StageFits` says that nobody is
held between the runs and nobody is muted while a batch is prepared.

*Page.*  That a challenge has one owner (`OneOwner`) is inductive with what taking it
does to the row (`OwnersFit`): a submission or a press that owns a challenge is why the row
is no longer pending under its number.  From that a challenge is passed or rejected by its
owner only (`OwnersVerdicts`), never both, and what the cache, the futures and the tasks
keep of a pass (`PassesKept`) is true; `OkHonest` follows.  `SlotsReturned` compares the
counter of slots with the set of requests that verify, which is why the requests are finite.

Only model-checked: liveness (`EventuallySettled`, `CriticalSettled`, `RowsResolve`,
`UrgentServed` and the properties of `progress`), which is out of this prover's reach;
`NoOrphanMute`, `NoSilentBan`, `BanInForce` and `BanNotResurrected`, which hold under the
bounds their runs state (section 9); `StepsSound`, of whose parts `OneCallEach` and
`ProcessedStays` are theorems; and the composed type invariants.

## 9. What the models found

Two runs end in the violation of a sentence of the repository.

- `inbox_deferred_replay`: a comment (`verify_web.py:2125-2128`) says that the in-flight
  entry keeps this process from replaying an update while the old task is alive.
  `_finish_queued_update` drops the entry of a *deferred* update as soon as its worker
  reports; when its lease is lost, recovery runs it beside the first task.
- `memory_arrivals`: a comment (`memory.py:3663-3664`) says that messages that arrive
  during a compaction are kept because the snapshot is a prefix of the history.  The
  retention cuts that prefix meanwhile (`:1518`), and the compaction then drops messages
  no summary holds.

Further divergences met while modelling.  The properties named here are in the modules
with the sentence they contradict; TLC refutes each on the instances of section 7, under
the module's own specification where it is a liveness property.

| where | what the code says | what can happen | property |
|---|---|---|---|
| `verify_web.py:1503` | an expired lease is reclaimed by the recovery queries | a row whose last permitted claim died waits for the next start of a processor | `UpdateInbox!ExpiredLeaseReclaimed` |
| `handlers/group.py`, README `:1022` | a restart does not process an update twice | a stop after the answer and before its row answers again | `PendingReplies!AnsweredOnce` |
| `memory.py:3391` | a published summary deletes exactly its sources | a source row written after the deletion stays | `MemoryHistory!SourcesDeleted` |
| `speech_style.py:62` | retargeting resets the counters | a distillation for the same member brings the old count back | `SpeechStyle!ResetMeansReset` |
| `admin.py:1751,1766` | an /unban sees every policy change | a replayed message enforces the recorded ban again without changing the warning it compares; the warning is deleted and Telegram keeps the ban | `Moderation!UnbanLeavesNoSplit` |
| `group.py:2095` | a direct ban of the period is not lifted by undoing another row | it is when the direct ban is on an uncounted row older than the counted ones (two presses) | `Moderation!DirectBanStays` |
| README `:1013-1020` | a delivery problem at run time falls back to polling | an outage that lasts leaves the registered webhook in place (`BrokenSpec`) | `UpdateDelivery!BrokenWebhookLeft` |
| `group_permissions.py:11` | failures are retried on the next pass | skipped when the window has come back to the last success | `GroupPermissions!FailuresRetried` |
| `group_permissions.py:842` | the status is conservative: after a newer apply failed, the requested state is not confirmed | the deadline of the pass cuts the call off after Telegram has applied it: "applied" stays, without an error, of the permissions before; if the window comes back before the reconcile interval ends, the next pass skips the group | `GroupPermissions!StatusConservative` |
| `settings_api.py:2806` | re-enabling anchors the next run to now | an occurrence left from before is delivered | `ScheduledMessages!AnchoredToNow` |
| `raid_guard.py:2143` | a lost deletion means a competitor ended the lockdown | an unknown outcome of the write leaves it stored | `RaidGuard!EndedMeansEnded` |
| `raid_guard.py:2310` | a consumed join was kicked or challenged | the task it relied on drops the row | `RaidSuspects!ConsumedMeansChecked` |
| `vote_ban.py:826-833` | the worker that lost its lease to /unban reconciles Telegram | the task /unban leaves behind cancels a recovery loop whose ban call is under way before it gets to reconcile, and the ban may still land (`vote_ban.py:2387-2388`) | `VoteBan!CancelLoop` |
| `vote_ban.py:2297` | an enforcement is renewed rather than abandoned | an exception ends the loop | `VoteBan!EnforcementNotAbandoned` |
| `vote_ban.py:1614` | a slow worker cannot overwrite a newer result | the task that sends the prompt can | `VoteBan!NeverOverwritten` |
| `vote_ban.py:1216` | expired means the votes were not reached | the last ballot may come as the deadline passes | `VoteBan!ExpiredBelowThreshold` |

Met in `JoinVerification`, outside its passing instances: a reconciliation bans on the
first of its two readings of the policy, so that an /unban in between is undone on
Telegram; a rejoin after the deadline records a ban after /unban has taken the row over
(`membership.py:1042`); a leave handled after the join that followed it deletes the new
challenge and leaves the member muted (`membership.py:3031`).

Met while proving: that every bounded delete call keeps its lease holds for the two
processes that a rolling deploy overlaps, and not for three.  A message asked for both in
memory and durably is claimed at its last attempt; a process that starts discards the spent
row during the call (`_delete_exhausted_legacy_jobs`, `telegram_cleanup.py:827`); and the
first process's flush then creates the row again, without a lease.  The request was given up
with the row, so `CallCovered` speaks of calls for open requests, for which it is a theorem.

Met while proving global bans: "the last durable policy wins" (`admin.py:2045`) holds for the
calls whose policy is read again.  Three kinds of call are not followed by such a reading:
the lift of a ban that found the policy gone (`:2044-2049`), the ban an /unban of all groups
puts back (`join_verification.py:3242-3255`) and the one the panel's removal puts back
(`settings_api.py:3226-3235`).  Each is itself a correction, so that two changes of the policy
after the operation's own are needed, three operations in all; the group then keeps what the
earlier policy asked, without a journal.  And the panel's removal of a group's ban clears the
record by comparing it with what it saw before its call (`settings_api.py:3206-3217`); a
message or a join between the two bans the member again (`middlewares/global_ban.py`), and
Telegram keeps a ban no record has.  `unseen` names the groups concerned.  TLC gives both
traces for `PolicyWins` without it, with three operations, and with two of the panel and one
message; the instance of section 7 has fewer.

Met in the semantic index: a comment (`db/engine.py:1062`) says that an edit invalidates the
previous vector before it can be recalled.  The claim reads its batch in one statement and
marks the rows in later ones by `archive_id` alone (`archive_vector.py:304-381`; SQLite's
transaction begins at the first write).  An edit between the two is overwritten, and a vector
of the old text becomes ready; `overtaken` excepts it.

Met in the runtime settings, excepted as `strayed`: the expected revision of a save is compared
with the table but not with the memory of the process, so a page that reads through one process
and saves through another, which is behind the table, keeps that process's old secrets where it
says "keep"; and a start that normalises an earlier schema writes by the row's key, over what
another process saved since it read (`runtime_config.py:1368-1416`).  Met in the start: a
failed preload of the operators closes nothing (`__main__.py:368-432`), excepted in
`ClosedBehind`.

Exceptions the modules name in their properties, each a behaviour of the code: a task
that dies, or whose compensating call fails, after a ban that lost its lease (`stray`); a
patrol that dies between its mute and its second look (`lost`); an extended deadline that
changes the page's fingerprint; an unlocked flush, or a rollback that fails and gives the
lock back while SQLite may keep the transaction (`sqlite_session.py:322-332`); a download
that begins while the connector closes (`telegram_session.py:84-91`); plain sends repeated
after a lost answer (`telegram.py:1926-1935`); a late pin of a call to the administrators
(`notification_pins.py:87-124`); a row of the history that is given up fails the receipt
after the reply was delivered (`memory.py:2712-2715`); a ban-scope claim whose task is
gone while a later press renewed it (`admin.py:2801-2813`).

The passing verification runs exclude some behaviours where they would hide everything
else, and say so by their constants: `NoOrphanMute` is checked without lost calls and
without a join task (a lost restriction of a moderation challenge, or a duplicate join
during the last calls of a kick, also leaves a member muted); `RowsResolve` and
`BanInForce` are checked without administrators (a crash during /unban of a row under
enforcement can leave a preparation that is deferred for ever; /ban reaches Telegram before
its record, and a reconciliation between the two lifts it).

## 10. What is not modelled

In the modelled parts:

- Inbox: request parsing and authentication, classification of an update into a lane, the
  bursts of unauthenticated operators, health counters, the wall clock.
- Verification: the configured owner who is never challenged, an exception of the database
  inside a handler (the inbox replays the update), rows of older schemas, the direct
  punishment when no challenge can be issued, the cleanup of prompts.  The retries and
  probes inside one Telegram helper are one call with one outcome.
- Gate: the counters of `snapshot`, the length of deadlines.
- Votes: quotas, who may start one against whom, more than one poll per target.  Lockdowns: the burst detector's counting,
  a pin that lands after a later unpin.  Moderation: matching of text, the whitelist
  counter of bots, bans of channel identities.  Global bans: the audit ledger.  Page: the
  checks of signed data, rate limits.
- Schedules: the pin of a publication, interval entries.  Permissions: calendar arithmetic,
  a call that reaches Telegram only after it was given up and another one has succeeded.
  Model client: building requests and normalising answers.  Replies: what is decided and
  written by models, voice and stickers, updates of the card.  Memory: search, ranking
  and prompts.  Index: the arithmetic of vectors, the size of a batch.
- Answers: the fallback from a rich send to an overlay (`utils/telegram.py:2365-2411`), a turn
  of several plans whose first one takes the card (`group.py:4496-4531`); `Expire` marks a
  card swept also where an earlier scheduling was rejected (`reply_progress.py:653`).
- `MuteMember` leaves out one branch of a restriction that fails (`membership.py:739-745`);
  a patrol is not cancelled while it renews its chunk; the deletion queue's writes do not
  fail; no `setWebhook` lands late; the model client drops at most one parameter per
  candidate.
- Settings: the fields of the forms, their validation and rendering, encryption; the settings
  of groups, whose writes are in the modules of the components they configure.  Life cycle:
  how long a step takes (the hard limit may fire at any moment of a shutdown).

Whole components: authorization (guards), schema and migrations, the dispatch of commands, middlewares, skills, utilities and the browser code.
They move text and values and share no protocol state with the rest.

## 11. What could follow

- Proofs of the remaining parts of `StepsSound` (the order of waiters for the write lock,
  completion by owners) and of `NoOrphanMute`.
- `VoteBan`, `RaidSuspects`, `Patrol` and `Moderation` over `ChallengeContract`, in place of
  their one-step sweepers.
- `UpdateInbox` under the phases of `ProcessLife`, in place of its own exits.
