---------------------------- MODULE Enforcement ----------------------------
(***************************************************************************)
(* What acts on members, together: votes and their prompt, lockdowns,      *)
(* suspects, moderation, global bans and their scopes, patrols and the     *)
(* verification page.  Each behaviour runs one of them from its initial    *)
(* states while the others keep theirs; the constants are those of the     *)
(* modules, where they are explained.                                      *)
(***************************************************************************)
EXTENDS Naturals, FiniteSets

CONSTANTS
  Voters, Starter, Threshold, Enforcers, Loop, MaxVoteFaults, MaxVoteCrashes,
  MaxPromptFaults, MaxPromptCrashes,
  MaxGens, MaxNotices, MaxRaidFaults, MaxRaidCrashes,
  Issuer, Remover, Arrivals, Nobody, MaxSuspectFaults, MaxSuspectCrashes,
  Hits, Button, Command, Unlocked, NoJournal, WarnThreshold, MaxRuleEdits, MaxPresses,
  MaxModFaults,
  Groups, Ops, Panel, Sweeper, Enforcer, NoLease, MaxBanFaults, MaxMessages,
  ScopePresses, MaxScopeFaults,
  Members, Clock, ByPanel, Slots, MaxDays, MaxPatrolFaults,
  Requests, Buttons, NoOne, PageSlots, MaxIssues, MaxArms, MaxPageFaults

VARIABLES
  service,    \* the module this behaviour runs
  poll, ballots, counting, stale, ticket, voteBanned, votePolicy, enforcer, unban, notify,
  sweeper, watch, start, shown, voteFaults, voteCrashes, stray,
  promptRow, promptStart, promptShown, pinned, edit, closing, notice, retry, promptFaults,
  promptCrashes,
  lifecycle, guard, groupRow, notePins, cleaner, activating, past, gens, notices, raidFaults,
  raidCrashes, torn,
  record, suspect, suspectTask, used, consumed, suspectReleased, bounced, suspectFaults,
  suspectCrashes,
  rulesVersion, exempted, step, verdict, modRow, ledger, warning, userLock, chatBan,
  modJournal, restoring, target, snapshot, audits, epoch, raced, presses, modFaults,
  banPolicy, local, banJournal, due, present, banBanned, op, at, snap, unseen, messages,
  banFaults,
  token, made, claimed, recent, press, scopeTask, renewed, borrowed, scopeFaults,
  caller, reserved, busySlots, stage, phase, patrolRow, muted, exempt, handler, allowed,
  patrolDay, last, started, covered, lost, patrolFaults,
  issued, pageRow, member, barred, current, future, completed, slots, req, pageTask, answer,
  button, pageReleased, rejected, spent

V == INSTANCE VoteBan WITH banned <- voteBanned, policy <- votePolicy
U == INSTANCE VotePrompt WITH row <- promptRow, start <- promptStart, shown <- promptShown
R == INSTANCE RaidGuard
S == INSTANCE RaidSuspects WITH task <- suspectTask, released <- suspectReleased
M == INSTANCE Moderation WITH row <- modRow, journal <- modJournal
G == INSTANCE GlobalBans WITH
       policy <- banPolicy, journal <- banJournal, banned <- banBanned, faults <- banFaults
B == INSTANCE BanScope WITH
       Presses <- ScopePresses, task <- scopeTask, faults <- scopeFaults
P == INSTANCE Patrol WITH
       Panel <- ByPanel, row <- patrolRow, day <- patrolDay, faults <- patrolFaults
W == INSTANCE VerifyPage WITH
       Slots <- PageSlots, row <- pageRow, task <- pageTask, released <- pageReleased

ASSUME EnforcementAssumption ==
  /\ V!VoteAssumption
  /\ U!PromptAssumption
  /\ R!RaidAssumption
  /\ S!SuspectAssumption
  /\ M!ModerationAssumption
  /\ G!GlobalBansAssumption
  /\ B!BanScopeAssumption
  /\ P!PatrolAssumption
  /\ W!VerifyPageAssumption

voteVars == <<poll, ballots, counting, stale, ticket, voteBanned, votePolicy, enforcer, unban,
              notify, sweeper, watch, start, shown, voteFaults, voteCrashes, stray>>
promptVars == <<promptRow, promptStart, promptShown, pinned, edit, closing, notice, retry,
                promptFaults, promptCrashes>>
raidVars == <<lifecycle, guard, groupRow, notePins, cleaner, activating, past, gens, notices,
              raidFaults, raidCrashes, torn>>
suspectVars == <<record, suspect, suspectTask, used, consumed, suspectReleased, bounced,
                 suspectFaults, suspectCrashes>>
modVars == <<rulesVersion, exempted, step, verdict, modRow, ledger, warning, userLock, chatBan,
             modJournal, restoring, target, snapshot, audits, epoch, raced, presses,
             modFaults>>
banVars == <<banPolicy, local, banJournal, due, present, banBanned, op, at, snap, unseen,
             messages, banFaults>>
scopeVars == <<token, made, claimed, recent, press, scopeTask, renewed, borrowed, scopeFaults>>
patrolVars == <<caller, reserved, busySlots, stage, phase, patrolRow, muted, exempt, handler,
                allowed, patrolDay, last, started, covered, lost, patrolFaults>>
pageVars == <<issued, pageRow, member, barred, current, future, completed, slots, req,
              pageTask, answer, button, pageReleased, rejected, spent>>
everything == <<service, voteVars, promptVars, raidVars, suspectVars, modVars, banVars, scopeVars,
                patrolVars, pageVars>>

Runs(s) == service = s

Init ==
  /\ service \in {"vote", "prompt", "raid", "suspects", "moderation", "global", "scope", "patrol",
                  "page"}
  /\ V!Init /\ U!Init /\ R!Init /\ S!Init /\ M!Init /\ G!Init /\ B!Init /\ P!Init /\ W!Init
  /\ ~Runs("moderation") => \A h \in Hits : step[h] = "done"
  /\ ~Runs("suspects") => record.st = "none"
  /\ ~Runs("global") => banPolicy = FALSE /\ \A g \in Groups : present[g]

Next ==
  /\ UNCHANGED service
  /\ IF Runs("vote") THEN V!Next ELSE UNCHANGED voteVars
  /\ IF Runs("prompt") THEN U!Next ELSE UNCHANGED promptVars
  /\ IF Runs("raid") THEN R!Next ELSE UNCHANGED raidVars
  /\ IF Runs("suspects") THEN S!Next ELSE UNCHANGED suspectVars
  /\ IF Runs("moderation") THEN M!Next ELSE UNCHANGED modVars
  /\ IF Runs("global") THEN G!Next ELSE UNCHANGED banVars
  /\ IF Runs("scope") THEN B!Next ELSE UNCHANGED scopeVars
  /\ IF Runs("patrol") THEN P!Next ELSE UNCHANGED patrolVars
  /\ IF Runs("page") THEN W!Next ELSE UNCHANGED pageVars

Spec == Init /\ [][Next]_everything

-----------------------------------------------------------------------------
(* Properties: those of the modules, for the behaviours that run them; each is *)
(* stated and explained in its module.                                         *)

\* The states are of the forms the modules document.
TypeOK ==
  /\ Runs("vote") => V!TypeOK
  /\ Runs("prompt") => U!TypeOK
  /\ Runs("raid") => R!TypeOK
  /\ Runs("suspects") => S!TypeOK
  /\ Runs("moderation") => M!TypeOK
  /\ Runs("global") => G!TypeOK
  /\ Runs("scope") => B!TypeOK
  /\ Runs("patrol") => P!TypeOK
  /\ Runs("page") => W!TypeOK

\* Votes: a threshold that is reached is acted on, once a poll is closed and its tasks are
\* at rest Telegram bans the target exactly when the policy does, and a pin that outlives
\* its poll is still owned by its row (services/vote_ban.py).
VotesSettle ==
  /\ Runs("vote") => V!ThresholdSeen /\ V!OutcomeSettles
  /\ Runs("prompt") => U!PinAccounted /\ U!PinReleased

\* Lockdowns: memory and settings agree outside a transition and every pin is in the
\* durable ledger; a member who joined under a lockdown is never left muted without a
\* row, and a join taken for dealt with is dealt with (services/raid_guard.py).
LockdownsKept ==
  /\ Runs("raid") => R!PersistedAgrees /\ R!PinsInLedger
  /\ Runs("suspects") => S!NobodyLeftMuted /\ S!ConsumedGoverned

\* Warnings: the counter is what the rows say, a ban enters the ledger once, and nobody
\* stays banned against the recorded policy (handlers/group.py, services/moderation.py).
PunishmentsCounted ==
  Runs("moderation") => M!CountsAgree /\ M!AuditedOnce /\ M!NobodyKeptBanned

\* Global bans: the groups follow the last recorded policy although operations overtake
\* each other, unless one has acted for an outdated policy without reading it again; one
\* operation's failed calls are covered by journals, and the two scopes offered in one
\* message are not worked on together (handlers/admin.py).
BansFollowPolicy ==
  /\ Runs("global") => G!PolicyWins /\ G!JournalCovers
  /\ Runs("scope") => B!ScopesApart /\ B!ClaimBacked

\* Patrol: nobody it lets go of is left muted without a row, an exemption is respected and
\* a day is covered by a whole run (services/patrol.py).
PatrolSound == Runs("patrol") => P!NobodyLeftMuted /\ P!ExemptUnchallenged /\ P!DayCovered

\* Verification page: "passed" is said only of members who were released, and no entry or
\* slot of running verifications leaks (services/verify_web.py).
PageSound == Runs("page") => W!OkHonest /\ W!CacheSound

\* Verdicts: a poll is decided once, and no warning is recorded on a verdict from before
\* an /unban, an exemption or a change of the rules.
VerdictsStand == V!DecidedOnce /\ M!VerdictsCurrent

=============================================================================
