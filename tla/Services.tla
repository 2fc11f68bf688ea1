------------------------------ MODULE Services ------------------------------
(***************************************************************************)
(* What moves messages, calls and stored work, together: queues, schedules,*)
(* permissions, transports, the model client, the write lock, the          *)
(* connector, replies, the history and its index, topics, styles, calls to *)
(* the administrators, the settings and the process itself.  Each behaviour*)
(* runs one of them from its initial states while the others keep theirs;  *)
(* the constants are those of the modules, where they are explained.       *)
(***************************************************************************)
EXTENDS Naturals, FiniteSets

CONSTANTS
  Nobody, None,
  Msgs, Cleaners, NoCleaner, MaxDeleteAttempts, MaxDeleteOrphans, MaxCleanupFaults,
  MaxCleanupStops,
  Posters, MaxDays, MaxPasses, MaxPostFaults, MaxEdits,
  Saves, Pass, NoPermHolder, MaxTurns, MaxPermEdits, MaxPermFaults,
  LaneUpdates, Keys, LaneWorkers, LaneSize,
  MaxIds, CheckLimit, UnhookLimit, MaxDeliveryFaults,
  Requests, Embeds, ModelCandidates, Attempts, Threshold, Capacity, Threads, FatalPasses,
  MaxModelRequests,
  Sessions, NoSession, Rank, MaxWriteFaults,
  Exchanges, Downloads, ResetFailures, MaxConnectors,
  Senders, PerSender, Direct, Permits, MaxBatches, MaxWaiting, MaxReplyFaults, MaxReplyStops,
  MaxParts, MaxSendFaults,
  MaxMessages, Window, KeepRecent, Automatic, Manual, Unlocked, MaxMemoryFaults,
  MaxMemoryRestarts, MaxExpiries,
  Processes, Unclaimed, CasTries, MaxTopicEvents,
  Members, Learners, DistillEvery, SampleCap, KeepSamples, MaxTargets,
  Calls, PinTries, MaxCallFaults,
  Indexers, Texts, BlankText, Spaces, MaxTextEdits, MaxSpaceChanges, MaxIndexFaults,
  Servers, Pages, SettingDocs, Old, Legacy, Secrets, MaxSaves, MaxConfigFaults, MaxServerStarts,
  Leased, MaxFailedPasses, MaxOverruns, MaxFreezes

VARIABLES
  service,    \* the module this behaviour runs
  job, proc, intake, call, fate, cleanupFaults, cleanupStops,
  postDay, entry, occ, postPass, postSent, reborn, anchored, postPasses, postFaults, edits,
  permStored, permWindow, present, chat, edited, cut, cache, permLock, work, turns,
  permEdits, permFaults,
  tasks, byKey, receipt, attached, tried, flushing,
  deliverySent, backlog, hook, hookError, reachable, inboxed, stage, misses, offset,
  deliveryBatch, landed, deliveryFaults,
  req, task, permits, orphans, old, threads, stale, fails, circuit, seen, modelPasses, asked,
  locked, lockQueue, step, holds, dirty, nested, lockWriter, lockExcused, lockFaults,
  httpAt, uses, gen, open, rebuild, httpWanted, failures, reset, caught,
  replyAt, sound, replyQueue, worker, held, replyBatch, child, cancelled, consumed, rows,
  closing, answers, noticed, replyHeard, replyExcused, replyFaults, replyStops,
  answerAt, reveal, card, known, asReply, handed, outcome, doubt, parts, part, copies, all,
  confirmed, ambiguous, armed, confirms, swept, ending, lost, answerExcused, answerFaults,
  added, memoryWindow, loaded, unwritten, memoryStored, doomed, deferred, lock, compactor,
  snapshot, summarised, retired, missing, overtaken, memoryFaults, restarts, expiries,
  doc, topicHeard, topicWriter, topicPass, page, topics, counted, topicWanted, events,
  style, samples, learner, collected, targets,
  cooldown, callAt, tries, sure, pinned, button, late, fresh, callExcused, callFaults,
  archive, jobs, space, indexer, indexOvertaken, textEdits, spaceChanges, indexFaults,
  setting, server, mem, settings, components, saver, plan, form, secret, strayed, unrefreshed,
  configFaults, serverStarts,
  phase, todo, lifeOpen, lifeHeld, failedPasses, ended, frozen, stuck, overran, aborted, killed,
  freezes

C == INSTANCE CleanupQueue
S == INSTANCE ScheduledMessages WITH
       day <- postDay, pass <- postPass, sent <- postSent, passes <- postPasses
G == INSTANCE GroupPermissions WITH
       Free <- NoPermHolder, stored <- permStored, window <- permWindow
P == INSTANCE PrivilegedTasks WITH Updates <- LaneUpdates
D == INSTANCE UpdateDelivery WITH sent <- deliverySent, batch <- deliveryBatch
M == INSTANCE ModelCalls WITH Candidates <- ModelCandidates, passes <- modelPasses
L == INSTANCE WriteLock WITH
       queue <- lockQueue, writer <- lockWriter, excused <- lockExcused, faults <- lockFaults
H == INSTANCE HttpSession WITH
       Requests <- Exchanges, Failures <- ResetFailures, at <- httpAt, wanted <- httpWanted
R == INSTANCE PendingReplies WITH
       at <- replyAt, queue <- replyQueue, batch <- replyBatch, heard <- replyHeard,
       excused <- replyExcused
A == INSTANCE ReplyDelivery WITH
       at <- answerAt, excused <- answerExcused, faults <- answerFaults
Y == INSTANCE MemoryHistory WITH Auto <- Automatic, window <- memoryWindow, stored <- memoryStored
T == INSTANCE ProactiveTopics WITH
       heard <- topicHeard, writer <- topicWriter, pass <- topicPass, wanted <- topicWanted
Y2 == INSTANCE SpeechStyle WITH Workers <- Learners
K == INSTANCE CallAdmin WITH at <- callAt, excused <- callExcused, faults <- callFaults
V == INSTANCE ArchiveIndex WITH Blank <- BlankText, overtaken <- indexOvertaken
F == INSTANCE RuntimeConfig WITH
       Docs <- SettingDocs, Keys <- Secrets, stored <- setting, parts <- components, asked <- secret,
       failed <- unrefreshed
X == INSTANCE ProcessLife WITH Updates <- Leased, open <- lifeOpen, held <- lifeHeld

ASSUME ServicesAssumption ==
  /\ C!CleanupAssumption
  /\ S!ScheduleAssumption
  /\ G!PermissionAssumption
  /\ P!LaneAssumption
  /\ D!DeliveryAssumption
  /\ M!ModelAssumption
  /\ L!WriteAssumption
  /\ H!HttpAssumption
  /\ R!ReplyAssumption
  /\ A!AnswerAssumption
  /\ Y!HistoryAssumption
  /\ T!TopicAssumption
  /\ Y2!StyleAssumption
  /\ K!CallAssumption
  /\ V!IndexAssumption
  /\ F!ConfigAssumption
  /\ X!LifeAssumption

cleanupVars == <<job, proc, intake, call, fate, cleanupFaults, cleanupStops>>
postVars == <<postDay, entry, occ, postPass, postSent, reborn, anchored, postPasses,
              postFaults, edits>>
permVars == <<permStored, permWindow, present, chat, edited, cut, cache, permLock, work,
              turns, permEdits, permFaults>>
laneVars == <<tasks, byKey, receipt, attached, tried, flushing>>
deliveryVars == <<deliverySent, backlog, hook, hookError, reachable, inboxed, stage, misses,
                  offset, deliveryBatch, landed, deliveryFaults>>
modelVars == <<req, task, permits, orphans, old, threads, stale, fails, circuit, seen,
               modelPasses, asked>>
lockVars == <<locked, lockQueue, step, holds, dirty, nested, lockWriter, lockExcused,
              lockFaults>>
httpVars == <<httpAt, uses, gen, open, rebuild, httpWanted, failures, reset, caught>>
replyVars == <<replyAt, sound, replyQueue, worker, held, replyBatch, child, cancelled,
               consumed, rows, closing, answers, noticed, replyHeard, replyExcused,
               replyFaults, replyStops>>
answerVars == <<answerAt, reveal, card, known, asReply, handed, outcome, doubt, parts, part,
                copies, all, confirmed, ambiguous, armed, confirms, swept, ending, lost,
                answerExcused, answerFaults>>
memoryVars == <<added, memoryWindow, loaded, unwritten, memoryStored, doomed, deferred, lock,
                compactor, snapshot, summarised, retired, missing, overtaken, memoryFaults,
                restarts, expiries>>
topicVars == <<doc, topicHeard, topicWriter, topicPass, page, topics, counted, topicWanted,
               events>>
styleVars == <<style, samples, learner, collected, targets>>
callVars == <<cooldown, callAt, tries, sure, pinned, button, late, fresh, callExcused,
              callFaults>>
indexVars == <<archive, jobs, space, indexer, indexOvertaken, textEdits, spaceChanges,
               indexFaults>>
configVars == <<setting, server, mem, settings, components, saver, plan, form, secret, strayed,
                unrefreshed, configFaults, serverStarts>>
lifeVars == <<phase, todo, lifeOpen, lifeHeld, failedPasses, ended, frozen, stuck, overran,
              aborted, killed, freezes>>
everything == <<service, cleanupVars, postVars, permVars, laneVars, deliveryVars, modelVars,
                lockVars, httpVars, replyVars, answerVars, memoryVars, topicVars, styleVars,
                callVars, indexVars, configVars, lifeVars>>

Runs(s) == service = s

Init ==
  /\ service \in {"cleanup", "schedule", "permissions", "lanes", "delivery", "models",
                  "writer", "http", "replies", "answer", "memory", "topics", "style", "call",
                  "index", "settings", "process"}
  /\ C!Init /\ S!Init /\ G!Init /\ P!Init /\ D!Init /\ M!Init /\ L!Init /\ H!Init /\ R!Init
     /\ A!Init /\ Y!Init /\ T!Init /\ Y2!StyleInit /\ K!Init /\ V!Init /\ F!Init /\ X!Init
  /\ ~Runs("permissions") => permStored = "none"
  /\ ~Runs("delivery") => stage = "hooked" /\ hook
  /\ ~Runs("cleanup") => \A w \in Cleaners : proc[w] = "run"
  /\ ~Runs("index") => \A p \in Indexers : space[p] = CHOOSE s \in Spaces : TRUE
  /\ ~Runs("settings") => setting.rev = 0

Next ==
  /\ UNCHANGED service
  /\ IF Runs("cleanup") THEN C!Next ELSE UNCHANGED cleanupVars
  /\ IF Runs("schedule") THEN S!Next ELSE UNCHANGED postVars
  /\ IF Runs("permissions") THEN G!Next ELSE UNCHANGED permVars
  /\ IF Runs("lanes") THEN P!Next ELSE UNCHANGED laneVars
  /\ IF Runs("delivery") THEN D!Next ELSE UNCHANGED deliveryVars
  /\ IF Runs("models") THEN M!Next ELSE UNCHANGED modelVars
  /\ IF Runs("writer") THEN L!Next ELSE UNCHANGED lockVars
  /\ IF Runs("http") THEN H!Next ELSE UNCHANGED httpVars
  /\ IF Runs("replies") THEN R!Next ELSE UNCHANGED replyVars
  /\ IF Runs("answer") THEN A!Next ELSE UNCHANGED answerVars
  /\ IF Runs("memory") THEN Y!Next ELSE UNCHANGED memoryVars
  /\ IF Runs("topics") THEN T!Next ELSE UNCHANGED topicVars
  /\ IF Runs("style") THEN Y2!StyleNext ELSE UNCHANGED styleVars
  /\ IF Runs("call") THEN K!Next ELSE UNCHANGED callVars
  /\ IF Runs("index") THEN V!Next ELSE UNCHANGED indexVars
  /\ IF Runs("settings") THEN F!Next ELSE UNCHANGED configVars
  /\ IF Runs("process") THEN X!Next ELSE UNCHANGED lifeVars

Spec == Init /\ [][Next]_everything

-----------------------------------------------------------------------------
(* Properties: those of the modules, for the behaviours that run them; each is *)
(* stated and explained in its module.                                         *)

\* The states are of the forms the modules document.
TypeOK ==
  /\ Runs("cleanup") => C!TypeOK
  /\ Runs("schedule") => S!TypeOK
  /\ Runs("permissions") => G!TypeOK
  /\ Runs("lanes") => P!TypeOK
  /\ Runs("delivery") => D!TypeOK
  /\ Runs("models") => M!TypeOK
  /\ Runs("writer") => L!TypeOK
  /\ Runs("http") => H!TypeOK
  /\ Runs("replies") => R!TypeOK
  /\ Runs("answer") => A!TypeOK
  /\ Runs("memory") => Y!TypeOK
  /\ Runs("topics") => T!TypeOK
  /\ Runs("style") => Y2!StyleTypeOK
  /\ Runs("call") => K!TypeOK
  /\ Runs("index") => V!TypeOK
  /\ Runs("settings") => F!TypeOK
  /\ Runs("process") => X!TypeOK

\* What was accepted is kept: deletion requests until they are settled, each in one
\* covered call; publications once but for a failure, a crash or a lapsed lease; a status
\* "applied" only of permissions that are in force, unless they were changed in Telegram
\* or a pass was cut off in its call; a save of the settings that has seen what it
\* replaces, and processes that run what was saved (services/telegram_cleanup.py,
\* scheduled_messages.py, group_permissions.py, runtime_config.py).
WorkKept ==
  /\ Runs("cleanup") => C!RequestsKept /\ C!CallCovered
  /\ Runs("schedule") => S!SentAccounted
  /\ Runs("permissions") => G!StatusAccounted
  /\ Runs("settings") => F!RevisionTells /\ F!SettingsFollow

\* Updates: Telegram forgets none that is not in the inbox, a receipt is settled only when
\* the operations it waits for are over, two of one key never at the same time, and a
\* shutdown in order leaves none leased (services/update_delivery.py, privileged_tasks.py,
\* __main__.py).
UpdatesAccounted ==
  /\ Runs("delivery") => D!NothingForgotten
  /\ Runs("lanes") => P!ReceiptsHonest /\ P!OneOperationPerKey
  /\ Runs("process") => X!LeasesGivenBack

\* Shared resources: real model calls stay within the capacity and a circuit opens on
\* failures alone, the process's write lock is neither leaked nor doubled, a reset of the
\* connector cuts no exchange, and an exit in order closes what was opened (services/llm.py,
\* db/sqlite_session.py, services/telegram_session.py, __main__.py).
ResourcesHeld ==
  /\ Runs("models") => M!RealCallsBounded /\ M!CircuitEarned
  /\ Runs("writer") => L!LockAccounted /\ L!WriterCovered
  /\ Runs("http") => H!NobodyCut
  /\ Runs("process") => X!ClosedBehind

\* Answers: a message is answered or told of a failure, settled by the last of its owners,
\* repeated only for a named cause, and read once (handlers/group.py, utils/telegram.py).
AnswersSettled ==
  /\ Runs("replies") => R!OneVoice /\ R!SettledByOwners /\ R!RepeatsExplained /\ R!DirectHeard
  /\ Runs("answer") => A!ReadOnce /\ A!RepeatedUnseen /\ A!CardSettled

\* Context: the history loses no message to a compaction, a learnt style is the present
\* target's, a silence is broken once, a call to the administrators keeps its cooldown and
\* its pin has an owner, and a recalled vector is of what its message says (services/memory.py,
\* speech_style.py, proactive.py, call_admin.py, archive_vector.py).
ContextSound ==
  /\ Runs("memory") => Y!HistorySound
  /\ Runs("style") => Y2!StyleCurrent
  /\ Runs("topics") => T!OneTopic
  /\ Runs("call") => K!CooldownHeld /\ K!PinsOwned
  /\ Runs("index") => V!VectorsCurrent

\* Steps: nobody passes a more urgent or an older waiter for the write lock, a message is
\* deleted in one call at a time, an occurrence is completed by its owner and a silence
\* that was dealt with is never open again.
StepsSound == L!TurnsKept /\ C!OneCallEach /\ S!OwnerCompletes /\ T!ProcessedStays

=============================================================================
