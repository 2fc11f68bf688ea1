----------------------------- MODULE MCProgress -----------------------------
(***************************************************************************)
(* What must eventually happen, in small instances with a failure and a    *)
(* crash each: each behaviour runs one module, under that module's         *)
(* fairness, while the others keep their initial states.                   *)
(***************************************************************************)
EXTENDS Naturals, FiniteSets

VARIABLES
  service,    \* the module this behaviour runs
  poll, ballots, counting, voteStale, ticket, banned, policy, enforcer, unban, notify, sweeper,
  watch, start, shown, voteFaults, voteCrashes, stray,
  lifecycle, guard, groupRow, notePins, cleaner, activating, past, gens, notices, raidFaults,
  raidCrashes, torn,
  rulesVersion, exempted, modStep, verdict, row, ledger, warning, userLock, chatBan, journal,
  restoring, target, snapshot, audits, epoch, raced, presses, modFaults,
  stored, window, present, chat, edited, cut, cache, permLock, work, turns, permEdits,
  permFaults,
  job, proc, intake, call, fate, cleanupFaults, cleanupStops,
  tasks, byKey, receipt, attached, tried, flushing,
  sent, backlog, hook, hookError, reachable, inboxed, stage, misses, offset, deliveryBatch,
  landed, deliveryFaults,
  at, sound, replyQueue, worker, held, replyBatch, child, cancelled, consumed, rows, closing,
  answers, noticed, heard, replyExcused, replyFaults, replyStops,
  req, task, permits, orphans, old, threads, modelStale, fails, circuit, seen, passes, asked,
  locked, lockQueue, lockStep, holds, dirty, nested, writer, lockExcused, faults,
  archive, jobs, space, indexer, overtaken, textEdits, spaceChanges, indexFaults,
  phase, todo, open, lifeHeld, failedPasses, ended, frozen, stuck, overran, aborted, killed,
  freezes

V == INSTANCE VoteBan WITH
       Voters <- {"v1"}, Starter <- "v1", Threshold <- 2, Enforcers <- {"e1", "loop"},
       Loop <- "loop", MaxVoteFaults <- 1, MaxVoteCrashes <- 0, stale <- voteStale
R == INSTANCE RaidGuard WITH
       MaxGens <- 1, MaxNotices <- 1, MaxRaidFaults <- 1, MaxRaidCrashes <- 1
J == INSTANCE Moderation WITH
       Hits <- {"h1"}, Button <- "button", Command <- "command", Unlocked <- "unlocked",
       NoJournal <- "nojournal", WarnThreshold <- 1, MaxRuleEdits <- 0, MaxPresses <- 1,
       MaxModFaults <- 1, step <- modStep
G == INSTANCE GroupPermissions WITH
       Saves <- {"s1"}, Pass <- "pass", Free <- "free", MaxTurns <- 1, MaxPermEdits <- 1,
       MaxPermFaults <- 1
C == INSTANCE CleanupQueue WITH
       Msgs <- {"m1"}, Cleaners <- {"w1"}, NoCleaner <- "none", MaxDeleteAttempts <- 2,
       MaxDeleteOrphans <- 1, MaxCleanupFaults <- 1, MaxCleanupStops <- 1
P == INSTANCE PrivilegedTasks WITH
       Updates <- {"u1"}, Keys <- {"k1", "k2"}, LaneWorkers <- 1, LaneSize <- 1
D == INSTANCE UpdateDelivery WITH
       MaxIds <- 1, CheckLimit <- 2, UnhookLimit <- 2, MaxDeliveryFaults <- 2,
       batch <- deliveryBatch
Q == INSTANCE PendingReplies WITH
       Senders <- {"s1"}, PerSender <- 2, Direct <- {<<"s1", 1>>}, Permits <- 1,
       MaxBatches <- 1, MaxWaiting <- 1, MaxReplyFaults <- 0, MaxReplyStops <- 0,
       queue <- replyQueue, batch <- replyBatch, excused <- replyExcused
M == INSTANCE ModelCalls WITH
       Requests <- {"q1"}, Embeds <- {}, Candidates <- 2, Attempts <- 1, Threshold <- 1,
       Capacity <- 1, Threads <- 1, FatalPasses <- 2, MaxModelRequests <- 2,
       stale <- modelStale
L == INSTANCE WriteLock WITH
       Sessions <- {"s1", "s2"}, NoSession <- "none", Rank <- [s1 |-> 0, s2 |-> 1],
       MaxWriteFaults <- 2, queue <- lockQueue, step <- lockStep, excused <- lockExcused
I == INSTANCE ArchiveIndex WITH
       Msgs <- {"m1"}, Indexers <- {"p1"}, Texts <- {"a"}, Blank <- "blank",
       Spaces <- {"s", "t"}, None <- "none", MaxTextEdits <- 2, MaxSpaceChanges <- 2,
       MaxIndexFaults <- 1
X == INSTANCE ProcessLife WITH
       Updates <- {"u1"}, MaxFailedPasses <- 2, MaxOverruns <- 1, MaxFreezes <- 1,
       held <- lifeHeld

ASSUME /\ V!VoteAssumption
       /\ R!RaidAssumption
       /\ J!ModerationAssumption
       /\ G!PermissionAssumption
       /\ C!CleanupAssumption
       /\ P!LaneAssumption
       /\ D!DeliveryAssumption
       /\ Q!ReplyAssumption
       /\ M!ModelAssumption
       /\ L!WriteAssumption
       /\ I!IndexAssumption
       /\ X!LifeAssumption

voteVars == <<poll, ballots, counting, voteStale, ticket, banned, policy, enforcer, unban,
              notify, sweeper, watch, start, shown, voteFaults, voteCrashes, stray>>
raidVars == <<lifecycle, guard, groupRow, notePins, cleaner, activating, past, gens, notices,
              raidFaults, raidCrashes, torn>>
modVars == <<rulesVersion, exempted, modStep, verdict, row, ledger, warning, userLock, chatBan,
             journal, restoring, target, snapshot, audits, epoch, raced, presses, modFaults>>
permVars == <<stored, window, present, chat, edited, cut, cache, permLock, work, turns,
              permEdits, permFaults>>
cleanupVars == <<job, proc, intake, call, fate, cleanupFaults, cleanupStops>>
laneVars == <<tasks, byKey, receipt, attached, tried, flushing>>
deliveryVars == <<sent, backlog, hook, hookError, reachable, inboxed, stage, misses, offset,
                  deliveryBatch, landed, deliveryFaults>>
replyVars == <<at, sound, replyQueue, worker, held, replyBatch, child, cancelled, consumed,
               rows, closing, answers, noticed, heard, replyExcused, replyFaults, replyStops>>
modelVars == <<req, task, permits, orphans, old, threads, modelStale, fails, circuit, seen,
               passes, asked>>
lockVars == <<locked, lockQueue, lockStep, holds, dirty, nested, writer, lockExcused, faults>>
indexVars == <<archive, jobs, space, indexer, overtaken, textEdits, spaceChanges, indexFaults>>
lifeVars == <<phase, todo, open, lifeHeld, failedPasses, ended, frozen, stuck, overran, aborted,
              killed, freezes>>
everything == <<service, voteVars, raidVars, modVars, permVars, cleanupVars, laneVars,
                deliveryVars, replyVars, modelVars, lockVars, indexVars, lifeVars>>

Runs(s) == service = s

Init ==
  /\ service \in {"vote", "raid", "moderation", "permissions", "cleanup", "lanes", "delivery",
                  "replies", "models", "writer", "index", "process"}
  /\ V!Init /\ R!Init /\ J!Init /\ G!Init /\ C!Init /\ P!Init /\ D!Init /\ Q!Init /\ M!Init
     /\ L!Init /\ I!Init /\ X!Init
  /\ ~Runs("moderation") => modStep["h1"] = "done"
  /\ ~Runs("permissions") => stored = "none"
  /\ ~Runs("delivery") => stage = "hooked" /\ hook
  /\ ~Runs("cleanup") => proc["w1"] = "run"
  /\ ~Runs("index") => space["p1"] = "s"

Next ==
  /\ UNCHANGED service
  /\ IF Runs("vote") THEN V!Next ELSE UNCHANGED voteVars
  /\ IF Runs("raid") THEN R!Next ELSE UNCHANGED raidVars
  /\ IF Runs("moderation") THEN J!Next ELSE UNCHANGED modVars
  /\ IF Runs("permissions") THEN G!Next ELSE UNCHANGED permVars
  /\ IF Runs("cleanup") THEN C!Next ELSE UNCHANGED cleanupVars
  /\ IF Runs("lanes") THEN P!Next ELSE UNCHANGED laneVars
  /\ IF Runs("delivery") THEN D!Next ELSE UNCHANGED deliveryVars
  /\ IF Runs("replies") THEN Q!Next ELSE UNCHANGED replyVars
  /\ IF Runs("models") THEN M!Next ELSE UNCHANGED modelVars
  /\ IF Runs("writer") THEN L!Next ELSE UNCHANGED lockVars
  /\ IF Runs("index") THEN I!Next ELSE UNCHANGED indexVars
  /\ IF Runs("process") THEN X!Next ELSE UNCHANGED lifeVars

\* The fairness of each module, in the behaviours that run it.
Fairness ==
  /\ WF_voteVars(Runs("vote") /\ V!LeaseAges)
  /\ WF_voteVars(Runs("vote") /\ V!RecoverByLoop)
  /\ \A e \in {"e1", "loop"} : WF_voteVars(Runs("vote") /\ V!Enforce(e))
  /\ WF_raidVars(Runs("raid") /\ R!Publish)
  /\ WF_raidVars(Runs("raid") /\ R!Clean)
  /\ WF_raidVars(Runs("raid") /\ R!Ending)
  /\ WF_raidVars(Runs("raid") /\ R!Restore)
  /\ SF_raidVars(Runs("raid") /\ R!Expire)
  /\ WF_modVars(Runs("moderation") /\ J!Handle("h1"))
  /\ \A a \in J!Enforcing : WF_modVars(Runs("moderation") /\ J!Enforce(a))
  /\ WF_modVars(Runs("moderation") /\ (J!Press /\ presses' = presses))
  /\ WF_modVars(Runs("moderation") /\ J!Sweep)
  /\ WF_modVars(Runs("moderation") /\ (J!Unban /\ presses' = presses))
  /\ SF_permVars(Runs("permissions") /\ G!PassRead)
  /\ WF_permVars(Runs("permissions") /\ G!GoStale)
  /\ \A w \in G!Workers : WF_permVars(Runs("permissions") /\ (G!Repair(w) \/ G!Resolve(w) \/ G!Apply(w)))
  /\ WF_permVars(Runs("permissions") /\ G!TakeLock("s1"))
  /\ WF_cleanupVars(Runs("cleanup") /\ C!Start("w1"))
  /\ WF_cleanupVars(Runs("cleanup") /\ C!Stop("w1"))
  /\ WF_cleanupVars(Runs("cleanup") /\ C!Persist("w1"))
  /\ SF_cleanupVars(Runs("cleanup") /\ C!Claim("w1", "m1"))
  /\ WF_cleanupVars(Runs("cleanup") /\ (C!Delete("w1", "m1") \/ C!OrphanEnds("w1", "m1") \/ C!Remove("w1", "m1")
                                             \/ C!Retry("w1", "m1")))
  /\ WF_cleanupVars(Runs("cleanup") /\ (C!DueComes("m1") \/ C!LeaseLapses("m1")))
  /\ \A j \in P!Jobs : WF_laneVars(Runs("lanes") /\ P!DeadlinePasses(j))
  /\ \A j \in P!Jobs : WF_laneVars(Runs("lanes") /\ P!Overrun(j))
  /\ WF_laneVars(Runs("lanes") /\ P!Reap)
  /\ WF_laneVars(Runs("lanes") /\ P!CancelAll)
  /\ WF_laneVars(Runs("lanes") /\ P!Discard)
  /\ WF_deliveryVars(Runs("delivery") /\ D!Start)
  /\ WF_deliveryVars(Runs("delivery") /\ D!Serve)
  /\ WF_deliveryVars(Runs("delivery") /\ (D!Check /\ D!Fine))
  /\ WF_deliveryVars(Runs("delivery") /\ D!GetUpdates)
  /\ WF_deliveryVars(Runs("delivery") /\ (\E i \in D!Ids : D!Persist(i)))
  /\ WF_deliveryVars(Runs("delivery") /\ D!Deliver(1))
  /\ WF_deliveryVars(Runs("delivery") /\ D!DeliveryFails(1))
  /\ WF_deliveryVars(Runs("delivery") /\ D!Repaired)
  /\ \A u \in Q!Updates : WF_replyVars(Runs("replies") /\ (Q!Handle(u) /\ Q!Fine))
  /\ \A u \in Q!Updates : WF_replyVars(Runs("replies") /\ Q!Message(u))
  /\ \A u \in Q!Updates : WF_replyVars(Runs("replies") /\ Q!Complete(u))
  /\ WF_replyVars(Runs("replies") /\ Q!Generate("s1"))
  /\ WF_replyVars(Runs("replies") /\ Q!Store("s1"))
  /\ WF_replyVars(Runs("replies") /\ Q!Obey("s1"))
  /\ WF_replyVars(Runs("replies") /\ Q!Work("s1"))
  /\ WF_replyVars(Runs("replies") /\ Q!Deadline("s1"))
  /\ WF_replyVars(Runs("replies") /\ (\E r \in rows : Q!WriteRow(r)))
  /\ WF_replyVars(Runs("replies") /\ (closing /\ Q!Exit))
  /\ WF_modelVars(Runs("models") /\ M!Deadline("q1"))
  /\ WF_modelVars(Runs("models") /\ M!Watch)
  /\ \A s \in {"s1", "s2"} : WF_lockVars(Runs("writer") /\ (L!Handed(s) \/ L!GiveUp(s)))
  /\ WF_indexVars(Runs("index") /\ I!ReadBatch("p1"))
  /\ WF_indexVars(Runs("index") /\ (I!Claim("p1") \/ I!Store("p1") \/ I!MarkFailed("p1")))
  /\ WF_indexVars(Runs("index") /\ I!ComesDue("m1"))
  /\ WF_lifeVars(Runs("process") /\ (X!StartStep \/ X!StartFails))
  /\ WF_lifeVars(Runs("process") /\ X!Supervise)
  /\ WF_lifeVars(Runs("process") /\ (X!ShutdownStep \/ X!Drain))
  /\ WF_lifeVars(Runs("process") /\ X!Exit)
  /\ WF_lifeVars(Runs("process") /\ X!Stalled)
  /\ WF_lifeVars(Runs("process") /\ X!HardLimit)

Spec == Init /\ [][Next]_everything /\ Fairness

-----------------------------------------------------------------------------
(* Properties: those of the modules, in which they are stated and explained; a *)
(* module that does not run stays where they are met.                          *)

\* Duties: an enforcement ends, a lockdown ends and its pin is retired, every message that
\* broke a rule is dealt with and nobody is left banned against the policy, and Telegram
\* comes to the permissions that are configured (services/vote_ban.py, raid_guard.py,
\* moderation.py, group_permissions.py).
DutiesEnd ==
  V!EnforcementEnds /\ R!LockdownEnds /\ R!PinsRetired /\ J!MemberSettles /\ G!PermissionsConverge

\* Requests: a deletion, a queued operation, an update, a message and an archived message to
\* index are each settled, through failures and a restart (services/telegram_cleanup.py,
\* privileged_tasks.py, update_delivery.py, archive_vector.py, handlers/group.py).
RequestsEnd ==
  C!RequestsSettle /\ P!QueueMovesOn /\ D!EveryUpdateArrives /\ Q!MessagesComplete
  /\ I!IndexSettles

\* Waiting: a model request comes back by its deadline, permits held by calls that never
\* end are given back, every wait for the write lock ends, and a process that is to end does
\* (services/llm.py, db/sqlite_session.py, __main__.py).
WaitsEnd == M!RequestsReturn /\ M!PermitsReturn /\ L!WaitsEnd /\ X!ProcessEnds

=============================================================================
