------------------------------- MODULE VoteBan -------------------------------
(***************************************************************************)
(* A vote to ban a member: bot/services/vote_ban.py and the buttons of the *)
(* poll in bot/handlers/group.py.  A target has at most one open poll per  *)
(* group; one poll is modelled, from its opening to its last task.  What   *)
(* may decide it: ballots and an administrator (the buttons' handler), the *)
(* deadline, the recovery of an abandoned enforcement and an               *)
(* administrator's /unban.  The ban is applied between two transactions,   *)
(* and its outcome is recorded only by the task that still holds two       *)
(* leases: the poll's (enforcing_started_at) and the recovery ticket's     *)
(* (the target's row of join_verifications, "unbanning").  A call of       *)
(* unknown outcome has landed by its next step or never does.  The lock on *)
(* the target that the buttons' handler holds in its process is left out:  *)
(* other processes, /voteban, the loop, /unban and the sweeper do not take *)
(* it.                                                                     *)
(***************************************************************************)
EXTENDS Naturals, FiniteSets

CONSTANTS
  Voters,         \* members who may vote, the starter among them
  Starter,
  Threshold,      \* ballots that decide the poll
  Enforcers,      \* tasks that may apply the ban: handlers, a new /voteban,
  Loop,           \* and the poll's recovery loop
  MaxVoteFaults,  \* bound on failed or ambiguous calls and writes
  MaxVoteCrashes

VoteAssumption ==
  /\ Starter \in Voters /\ Threshold \in Nat \ {0, 1} /\ Loop \in Enforcers
  /\ MaxVoteFaults \in Nat /\ MaxVoteCrashes \in Nat

VARIABLES
  poll,       \* the row's status
  ballots,    \* vote_ban_votes
  counting,   \* members whose ballot is committed and not yet counted
  stale,      \* the poll's lease is older than VOTE_BAN_ENFORCEMENT_LEASE_SECONDS
  ticket,     \* the target's recovery row
  banned,     \* Telegram: the target is banned
  policy,     \* UserWarning.is_banned
  enforcer,   \* [Enforcers -> step and leases held]
  unban,      \* the administrator's /unban
  notify,     \* the task /unban leaves behind to close the prompt is to run
  sweeper,    \* the sweeper of the recovery tickets
  watch,      \* the recovery loop of the poll: off, on, or dead (an exception ended it
              \* or came before its start)
  start,      \* start_vote_ban, after its first commit
  shown,      \* Telegram: the prompt is in the chat
  voteFaults, voteCrashes,
  stray       \* history: an enforcement was lost track of

voteVars == <<poll, ballots, counting, stale, ticket, banned, policy, enforcer, unban,
              notify, sweeper, watch, start, shown, voteFaults,
              voteCrashes, stray>>

rowVars     == <<poll, ballots, counting, stale>>
targetVars  == <<ticket, banned, policy>>
workVars    == <<enforcer, unban, notify, sweeper, watch>>

Open     == {"active", "enforcing"}
Terminal == {"passed", "failed", "expired", "cancelled"}
Resting  == [at |-> "idle", token |-> FALSE, lease |-> FALSE]
Telling  == [at |-> "told", token |-> FALSE, lease |-> FALSE]
Fixing   == {"fix", "fix.ban", "fix.kept", "fix.lift", "fix.freed"}

TypeOK ==
  /\ poll \in {"none"} \cup Open \cup Terminal
  /\ ballots \subseteq Voters /\ counting \subseteq ballots /\ stale \in BOOLEAN
  /\ ticket \in {"none", "leased", "due", "swept"}
  /\ banned \in BOOLEAN /\ policy \in BOOLEAN
  /\ enforcer \in [Enforcers ->
        [at : {"idle", "own", "retake", "ban", "record", "miss", "told"} \cup Fixing,
         token : BOOLEAN, lease : BOOLEAN]]
  /\ unban \in {"idle", "lift", "clear", "restore", "done"} /\ notify \in BOOLEAN
  /\ sweeper \in {"idle", "act", "kept", "lifted"}
  /\ watch \in {"off", "on", "dead"}
  /\ start \in {"idle", "send", "withdraw"} /\ shown \in BOOLEAN
  /\ voteFaults \in 0..MaxVoteFaults /\ voteCrashes \in 0..MaxVoteCrashes
  /\ stray \in BOOLEAN

-----------------------------------------------------------------------------
Init ==
  /\ poll = "none"
  /\ ballots = {} /\ counting = {} /\ stale = FALSE /\ ticket = "none"
  /\ banned = FALSE /\ policy = FALSE
  /\ enforcer = [e \in Enforcers |-> Resting] /\ unban = "idle" /\ notify = FALSE
  /\ sweeper = "idle" /\ watch = "off"
  /\ start = "idle" /\ shown = FALSE /\ voteFaults = 0 /\ voteCrashes = 0 /\ stray = FALSE

Fault == voteFaults < MaxVoteFaults /\ voteFaults' = voteFaults + 1
Fine  == UNCHANGED voteFaults

At(e, s) == enforcer[e].at = s
Go(e, s) == enforcer' = [enforcer EXCEPT ![e].at = s]
Rest(e)  == enforcer' = [enforcer EXCEPT ![e] = Resting]

\* lease_join_verification_for_unban: whoever held the ticket has lost it.
Outrun == [e \in Enforcers |-> [enforcer[e] EXCEPT !.lease = FALSE]]
\* A write of the poll's status or lease: whoever held the poll has lost it.
Superseded == [e \in Enforcers |-> [at |-> enforcer[e].at, token |-> FALSE, lease |-> FALSE]]

-----------------------------------------------------------------------------
(* The poll and its ballots *)

\* start_vote_ban: no poll against a member who is banned, and none beside an
\* open one (that one is expired or recovered first, by Expire and Recover).
\* Who may start one against whom, and the quotas, are left out.
StartPoll ==
  /\ poll = "none" /\ ~policy /\ ~banned
  /\ poll' = "active" /\ ballots' = {Starter} /\ start' = "send"
  /\ UNCHANGED <<counting, stale, targetVars, workVars, shown, voteFaults, voteCrashes,
                 stray>>

\* A request that failed here may have posted the prompt.
SendPrompt ==
  /\ start = "send"
  /\ \/ Fine /\ shown' = TRUE /\ start' = "idle"
     \/ Fault /\ shown' \in BOOLEAN /\ start' = "withdraw"
  /\ UNCHANGED <<rowVars, targetVars, workVars, voteCrashes, stray>>

\* _cancel_after_prompt_failure writes the row back whatever its status is by now;
\* an enforcement that is under way is then nobody's.
Withdraw ==
  /\ start = "withdraw" /\ start' = "idle"
  /\ \/ /\ Fine /\ poll' = "cancelled"
        /\ stray' = (stray \/ poll = "enforcing")
     \/ Fault /\ UNCHANGED <<poll, stray>>
  /\ UNCHANGED <<ballots, counting, stale, targetVars, workVars, shown, voteCrashes>>

\* A press of a button is answered while the poll is active (on_vote_ban_action).
Pressed == shown /\ poll = "active"

\* A vote is inserted on condition that the poll is open, once per member.
CastBallot(v) ==
  /\ Pressed /\ v \notin ballots
  /\ ballots' = ballots \cup {v} /\ counting' = counting \cup {v}
  /\ UNCHANGED <<poll, stale, targetVars, workVars, start, shown, voteFaults, voteCrashes,
                 stray>>

\* claim_session_status(active -> enforcing), or the renewal of the poll's lease, and
\* the ticket in one transaction.
ClaimEnforcing(e, s) ==
  /\ poll' = "enforcing"
  /\ stale' = FALSE /\ ticket' = "leased"
  /\ enforcer' = [Superseded EXCEPT ![e] = [at |-> s, token |-> TRUE, lease |-> TRUE]]

\* Mutant: the claim does not look at the status it replaces.
DecideAnyway(e, v) ==
  /\ v \in counting /\ counting' = counting \ {v} /\ At(e, "idle")
  /\ IF Cardinality(ballots) >= Threshold THEN ClaimEnforcing(e, "own")
     ELSE UNCHANGED <<poll, stale, ticket, enforcer>>
  /\ UNCHANGED <<ballots, banned, policy, unban, notify, sweeper, watch, start, shown,
                 voteFaults, voteCrashes, stray>>

\* Mutant: the ballots are counted before this one is committed.
DecideEarly(e, v) ==
  /\ v \in counting /\ counting' = counting \ {v} /\ At(e, "idle")
  /\ IF poll = "active" /\ Cardinality(ballots \ {v}) >= Threshold
     THEN ClaimEnforcing(e, "own") ELSE UNCHANGED <<poll, stale, ticket, enforcer>>
  /\ UNCHANGED <<ballots, banned, policy, unban, notify, sweeper, watch, start, shown,
                 voteFaults, voteCrashes, stray>>

\* The ballots are counted when this one is committed, not before; the poll is
\* claimed if it is still active.
Decide(e, v) ==
  /\ v \in counting /\ counting' = counting \ {v} /\ e # Loop /\ At(e, "idle")
  /\ IF poll = "active" /\ Cardinality(ballots) >= Threshold
     THEN ClaimEnforcing(e, "own") ELSE UNCHANGED <<poll, stale, ticket, enforcer>>
  /\ UNCHANGED <<ballots, banned, policy, unban, notify, sweeper, watch, start, shown,
                 voteFaults, voteCrashes, stray>>

\* The ticket could not be taken, or a write failed: the claim is rolled back.
Refuse(v) ==
  /\ v \in counting /\ counting' = counting \ {v} /\ Fault
  /\ UNCHANGED <<poll, ballots, stale, targetVars, workVars, start, shown, voteCrashes,
                 stray>>

AdminBan(e) ==
  /\ e # Loop /\ At(e, "idle") /\ Pressed /\ ClaimEnforcing(e, "own")
  /\ UNCHANGED <<ballots, counting, banned, policy, unban, notify, sweeper, watch, start,
                 shown, voteFaults, voteCrashes, stray>>

Close(status) == poll' = status /\ stale' = FALSE

AdminCancel ==
  /\ Pressed /\ Close("cancelled")
  /\ UNCHANGED <<ballots, counting, targetVars, workVars, start, shown, voteFaults,
                 voteCrashes, stray>>

\* The deadline passes: the timer, a late press of a button or a new poll for the
\* same target closes the poll.
Expire ==
  /\ poll = "active" /\ Close("expired")
  /\ UNCHANGED <<ballots, counting, targetVars, workVars, start, shown, voteFaults,
                 voteCrashes, stray>>

-----------------------------------------------------------------------------
(* Enforcement: claim, ban, record *)

\* The poll and the ticket are still those of the claim.
StillHeld(e) == poll = "enforcing" /\ enforcer[e].lease

\* Mutant: the loop is started for an enforcement that goes on only.
CheckThenWatch(e) ==
  /\ At(e, "own") /\ Fine
  /\ IF StillHeld(e) THEN watch' = "on" /\ Go(e, "ban") ELSE UNCHANGED watch /\ Rest(e)
  /\ UNCHANGED <<rowVars, targetVars, unban, notify, sweeper, start, shown, voteCrashes,
                 stray>>

\* _finalize_vote_enforcement: whoever claimed the poll reads the leases again before
\* Telegram is called, and starts the loop.
CheckOwnership(e) ==
  /\ At(e, "own")
  /\ \/ /\ Fine /\ watch' = (IF poll = "enforcing" THEN "on" ELSE watch)
        /\ IF StillHeld(e) THEN Go(e, "ban") ELSE Rest(e)
     \/ Fault /\ Rest(e) /\ watch' = "dead"
  /\ UNCHANGED <<rowVars, targetVars, unban, notify, sweeper, start, shown, voteCrashes,
                 stray>>

\* recover_stale_vote_enforcement: so does whoever took it over.
CheckTakeover(e) ==
  /\ At(e, "retake")
  /\ \/ Fine /\ UNCHANGED watch /\ (IF StillHeld(e) THEN Go(e, "ban") ELSE Rest(e))
     \/ Fault /\ Rest(e) /\ watch' = (IF e = Loop THEN "dead" ELSE watch)
  /\ UNCHANGED <<rowVars, targetVars, unban, notify, sweeper, start, shown, voteCrashes,
                 stray>>

\* apply_vote_ban.  A miss is also a target whose status Telegram does not tell,
\* or who is an administrator by now.
ApplyBan(e) ==
  /\ At(e, "ban")
  /\ \/ Fine /\ banned' = TRUE /\ Go(e, "record")
     \/ Fault /\ banned' \in {banned, TRUE} /\ Go(e, "miss")
  /\ UNCHANGED <<rowVars, ticket, policy, unban, notify, sweeper, watch, start, shown,
                 voteCrashes, stray>>

Owns(e) == enforcer[e].lease /\ ticket # "none" /\ enforcer[e].token /\ poll = "enforcing"
Adrift(e) == ~Owns(e) /\ enforcer[e].at \in {"record", "miss"} \cup Fixing

\* Whoever finds the poll decided is yet to tell the loop, which finds out by itself.
Leaves(f, e) == enforcer' = [f EXCEPT ![e] = IF e = Loop THEN Resting ELSE Telling]

\* A database error while the outcome is recorded: the leases stay for recovery.
RecordLost(e) == /\ Fault /\ Rest(e) /\ stray' = (stray \/ ~Owns(e))
                 /\ UNCHANGED <<poll, stale, ticket, policy>>

\* record_vote_ban_outcome: ticket, status, warning and audit in one transaction,
\* or nothing.
RecordBan(e) ==
  /\ At(e, "record")
  /\ \/ /\ Owns(e) /\ Fine
        /\ Close("passed") /\ policy' = TRUE /\ ticket' = "none"
        /\ Leaves(Outrun, e) /\ UNCHANGED stray
     \/ /\ ~Owns(e) /\ Fine /\ Go(e, "fix")
        /\ UNCHANGED <<poll, stale, ticket, policy, stray>>
     \/ RecordLost(e)
  /\ UNCHANGED <<ballots, counting, banned, unban, notify, sweeper, watch, start, shown,
                 voteCrashes>>

\* The ban was not confirmed: the ticket stays for the sweeper.
RecordFailure(e) ==
  /\ At(e, "miss")
  /\ \/ /\ Owns(e) /\ Fine /\ Close("failed") /\ Leaves(enforcer, e)
        /\ UNCHANGED <<ticket, policy, stray>>
     \/ /\ ~Owns(e) /\ Fine /\ Go(e, "fix")
        /\ UNCHANGED <<poll, stale, ticket, policy, stray>>
     \/ RecordLost(e)
  /\ UNCHANGED <<ballots, counting, banned, unban, notify, sweeper, watch, start, shown,
                 voteCrashes>>

\* A loop at work on a lost lease is cut short, unless it reconciles already (that goes
\* on behind a shield).
CutShort == enforcer[Loop].at \in {"retake", "ban", "record", "miss"}

\* A ticket is there whose holder is yet to look at what Telegram enforces.
Heeded == ticket \in {"leased", "due"} /\ unban # "done"

\* cancel_vote_enforcement_recovery.  The ban of a loop that is cut short may land, and
\* is then nobody's.
CancelLoop(f) ==
  /\ watch' = (IF watch = "on" THEN "off" ELSE watch)
  /\ enforcer' = (IF CutShort THEN [f EXCEPT ![Loop] = Resting] ELSE f)
  /\ banned' \in {banned, banned \/ At(Loop, "ban")}
  /\ stray' = (stray \/ (CutShort /\ ~At(Loop, "retake") /\ ~Heeded
                         /\ banned' # policy))

\* A handler of the buttons that finds the poll passed or failed cancels the loop, be it
\* the one that recorded the outcome, one that lost it or one that renders the prompt;
\* a new /voteban does not, nor does who fails to read the row again.
Tell(e) ==
  /\ At(e, "told")
  /\ \/ CancelLoop([enforcer EXCEPT ![e] = Resting])
     \/ Rest(e) /\ UNCHANGED <<watch, banned, stray>>
  /\ UNCHANGED <<rowVars, ticket, policy, unban, notify, sweeper, start, shown, voteFaults,
                 voteCrashes>>

\* reconcile_vote_ban_after_lost_generation: policy, call, policy again, until
\* they agree (five rounds of it, more than the policy changes here).
Preserve == policy \/ poll = "enforcing"
Over(e)  == IF poll \in {"passed", "failed"} THEN Leaves(enforcer, e) ELSE Rest(e)

Reconcile(e) ==
  /\ \/ At(e, "fix") /\ Go(e, IF Preserve THEN "fix.ban" ELSE "fix.lift")
     \/ At(e, "fix.kept") /\ (IF Preserve THEN Over(e) ELSE Go(e, "fix.lift"))
     \/ At(e, "fix.freed") /\ (IF Preserve THEN Go(e, "fix.ban") ELSE Over(e))
  /\ UNCHANGED <<rowVars, targetVars, unban, notify, sweeper, watch, start, shown, voteFaults,
                 voteCrashes, stray>>

\* Nobody looks at a reconciliation that failed.
ReconcileCall(e) ==
  /\ enforcer[e].at \in {"fix.ban", "fix.lift"}
  /\ LET wanted == At(e, "fix.ban") IN
     \/ /\ Fine /\ banned' = wanted /\ Go(e, IF wanted THEN "fix.kept" ELSE "fix.freed")
        /\ UNCHANGED stray
     \/ Fault /\ banned' \in {banned, wanted} /\ Over(e) /\ stray' = TRUE
  /\ UNCHANGED <<rowVars, ticket, policy, unban, notify, sweeper, watch, start, shown,
                 voteCrashes>>

\* A task whose calls outlast its lease counts as a fault.
Outlasted(held) == IF held THEN Fault ELSE Fine

LeaseAges ==
  /\ poll = "enforcing" /\ ~stale /\ stale' = TRUE
  /\ Outlasted(\E e \in Enforcers : enforcer[e].token)
  /\ UNCHANGED <<poll, ballots, counting, targetVars, workVars, start, shown, voteCrashes,
                 stray>>

\* recover_stale_vote_enforcement, by a press of a button, a new /voteban
\* against the target, or the loop: both leases are taken anew.
Recover(e) ==
  /\ At(e, "idle") /\ poll = "enforcing" /\ stale
  /\ ClaimEnforcing(e, "retake")
  /\ UNCHANGED <<ballots, counting, banned, policy, unban, notify, sweeper, watch, start,
                 shown, voteFaults, voteCrashes, stray>>

RecoverByHand(e) == e # Loop /\ Recover(e)
RecoverByLoop    == watch = "on" /\ Recover(Loop)

\* The loop wakes up to a closed poll, or an exception leaves its "while True".
LoopEnds ==
  /\ watch = "on" /\ At(Loop, "idle")
  /\ \/ poll # "enforcing" /\ Fine /\ watch' = "off"
     \/ poll = "enforcing" /\ Fault /\ watch' = "dead"
  /\ UNCHANGED <<rowVars, targetVars, enforcer, unban, notify, sweeper, start, shown,
                 voteCrashes, stray>>

-----------------------------------------------------------------------------
(* /unban, and the sweeper of the recovery tickets *)

\* Mutant: the open poll is left alone.
UnbanStartKeepsPoll ==
  /\ unban = "idle" /\ poll # "none" /\ unban' = "lift" /\ ticket' = "leased"
  /\ enforcer' = Outrun /\ UNCHANGED <<poll, notify>>
  /\ UNCHANGED <<ballots, counting, stale, banned, policy, sweeper, watch, start, shown,
                 voteFaults, voteCrashes, stray>>

\* cancel_vote_bans_for_manual_unban in the ticket's transaction; the prompt is
\* closed by a task of its own once that is committed.
UnbanStart ==
  /\ unban = "idle" /\ poll # "none" /\ unban' = "lift" /\ ticket' = "leased"
  /\ IF poll \in Open
     THEN /\ Close("cancelled") /\ notify' = TRUE /\ enforcer' = Superseded
     ELSE UNCHANGED <<poll, stale, notify>> /\ enforcer' = Outrun
  /\ UNCHANGED <<ballots, counting, banned, policy, sweeper, watch, start, shown, voteFaults,
                 voteCrashes, stray>>

\* schedule_manual_unban_vote_finalization cancels the poll's loop, whatever it is
\* at, and finalizes the prompt.
UnbanNotifies ==
  /\ notify /\ notify' = FALSE
  /\ \/ Fine /\ CancelLoop(enforcer)
     \/ Fault /\ UNCHANGED <<watch, enforcer, banned, stray>>
  /\ UNCHANGED <<rowVars, ticket, policy, unban, sweeper, start, shown, voteCrashes>>

UnbanLift ==
  /\ unban = "lift"
  /\ \/ Fine /\ banned' = FALSE /\ unban' = "clear"
     \/ Fault /\ banned' \in {banned, FALSE} /\ unban' = "idle"
  /\ UNCHANGED <<rowVars, ticket, policy, enforcer, notify, sweeper, watch, start, shown,
                 voteCrashes, stray>>

\* When the commit fails the member is banned again, if Telegram lets it.  The warning
\* is the one that was read at the start: the poll, which writes it here, is closed.
UnbanClear ==
  /\ unban = "clear"
  /\ \/ Fine /\ policy' = FALSE /\ unban' = "restore" /\ UNCHANGED banned
     \/ Fault /\ UNCHANGED policy /\ unban' = "idle" /\ banned' \in {banned, TRUE}
  /\ UNCHANGED <<rowVars, ticket, enforcer, notify, sweeper, watch, start, shown, voteCrashes,
                 stray>>

\* Permissions can not be given to a member who is banned again: the ticket stays, as
\* it does when that fails.
UnbanRestore ==
  /\ unban = "restore"
  /\ \/ Fine /\ unban' = (IF banned THEN "idle" ELSE "done")
     \/ Fault /\ unban' = "idle"
  /\ UNCHANGED <<rowVars, targetVars, enforcer, notify, sweeper, watch, start, shown,
                 voteCrashes, stray>>

\* complete_leased_join_verification; nobody takes the ticket of a closed poll.
UnbanDone ==
  /\ unban = "done" /\ unban' = "idle"
  /\ \/ Fine /\ ticket' = "none" /\ enforcer' = Outrun
     \/ Fault /\ UNCHANGED <<ticket, enforcer>>
  /\ UNCHANGED <<rowVars, banned, policy, notify, sweeper, watch, start, shown, voteCrashes,
                 stray>>

\* The ticket's lease outlives the bounded calls of /unban, which renews none.
TicketLapses ==
  /\ ticket = "leased" /\ unban = "idle" /\ ticket' = "due"
  /\ Outlasted(\E e \in Enforcers : enforcer[e].lease)
  /\ UNCHANGED <<rowVars, banned, policy, workVars, start, shown, voteCrashes, stray>>

\* _recover_unbanning: the sweeper takes the ticket,
SweepClaim ==
  /\ ticket = "due" /\ sweeper = "idle" /\ ticket' = "swept" /\ sweeper' = "act"
  /\ enforcer' = Outrun
  /\ UNCHANGED <<rowVars, banned, policy, unban, notify, watch, start, shown, voteFaults,
                 voteCrashes, stray>>

Deferred == sweeper' = "idle" /\ ticket' = (IF ticket = "swept" THEN "due" ELSE ticket)

\* brings Telegram in line with the recorded policy, although the ticket may have
\* been taken from it (a failure is deferred to a later pass),
SweepAct ==
  /\ sweeper = "act"
  /\ \/ Fine /\ sweeper' = (IF policy THEN "kept" ELSE "lifted") /\ banned' = policy
        /\ UNCHANGED ticket
     \/ Fault /\ banned' \in {banned, policy} /\ Deferred
  /\ stray' = (stray \/ ticket # "swept")
  /\ UNCHANGED <<rowVars, policy, enforcer, unban, notify, watch, start, shown, voteCrashes>>

\* reads the policy again, not what Telegram enforces, and drops the ticket if it is
\* still its own.
SweepCheck ==
  /\ sweeper \in {"kept", "lifted"}
  /\ \/ /\ policy = (sweeper = "kept") /\ Fine /\ sweeper' = "idle"
        /\ ticket' = (IF ticket = "swept" THEN "none" ELSE ticket)
     \/ policy # (sweeper = "kept") /\ Fine /\ sweeper' = "act" /\ UNCHANGED ticket
     \/ Fault /\ Deferred
  /\ UNCHANGED <<rowVars, banned, policy, enforcer, unban, notify, watch, start, shown,
                 voteCrashes, stray>>

-----------------------------------------------------------------------------
\* A crash takes every task; restore_vote_ban_tasks starts the loop, finalizes the
\* closed poll and pins the open one again.  A ban that has landed for a lost
\* generation has left no trace.
Restart ==
  /\ voteCrashes < MaxVoteCrashes /\ voteCrashes' = voteCrashes + 1
  /\ stray' = (stray \/ \E e \in Enforcers : Adrift(e))
  /\ counting' = {} /\ enforcer' = [e \in Enforcers |-> Resting]
  /\ unban' = "idle" /\ notify' = FALSE
  /\ sweeper' = "idle" /\ ticket' = (IF ticket = "swept" THEN "due" ELSE ticket)
  /\ watch' = (IF poll = "enforcing" THEN "on" ELSE "off")
  /\ start' = "idle"
  /\ UNCHANGED <<poll, ballots, stale, banned, policy, shown, voteFaults>>

Enforce(e) == \/ CheckOwnership(e) \/ CheckTakeover(e) \/ ApplyBan(e) \/ RecordBan(e)
              \/ RecordFailure(e) \/ Reconcile(e) \/ ReconcileCall(e) \/ Tell(e)
Vote       == \E v \in Voters : \/ CastBallot(v) \/ Refuse(v)
                                 \/ \E e \in Enforcers : Decide(e, v)
Posting    == SendPrompt \/ Withdraw
Unban      == \/ UnbanStart \/ UnbanNotifies \/ UnbanLift \/ UnbanClear \/ UnbanRestore
              \/ UnbanDone
Sweep      == SweepClaim \/ SweepAct \/ SweepCheck

Next ==
  \/ StartPoll \/ Posting \/ AdminCancel \/ Expire \/ LeaseAges \/ LoopEnds
  \/ Vote \/ \E e \in Enforcers : AdminBan(e) \/ RecoverByHand(e) \/ Enforce(e)
  \/ RecoverByLoop \/ Unban \/ TicketLapses \/ Sweep \/ Restart

\* What goes on by itself: the enforcements' own steps, the loop and the clock.
\* Buttons are pressed by people, who may not.
Fairness ==
  /\ WF_voteVars(LeaseAges) /\ WF_voteVars(RecoverByLoop)
  /\ \A e \in Enforcers : WF_voteVars(Enforce(e))

Spec == Init /\ [][Next]_voteVars /\ Fairness

-----------------------------------------------------------------------------
(* Properties *)

AtRest == /\ unban = "idle" /\ ~notify /\ sweeper = "idle"
          /\ \A e \in Enforcers : At(e, "idle")

\* The last action on the target decides: when the poll is closed, no task is
\* at work and no ticket is left, Telegram bans the target if and only if the
\* recorded policy does, unless an enforcement was lost track of: a reconciliation
\* that failed, died or was cut short, or a sweeper that went on without its ticket
\* (two leases; the sweeper, /unban and the recovery overtake each other).
OutcomeSettles ==
  (AtRest /\ poll \notin Open /\ ticket = "none" /\ ~stray) => banned = policy

\* A ballot that reaches the threshold is acted on: while the poll is active and no
\* ballot is being counted, the threshold is not reached, whichever two ballots
\* come together, unless a claim failed or the process died
\* ("publish this ballot before counting", group.py:3209).
ThresholdSeen ==
  (poll = "active" /\ counting = {} /\ voteFaults = 0 /\ voteCrashes = 0)
    => Cardinality(ballots) < Threshold

\* A poll is decided once: by ballots, administrator, clock, /unban or recovery,
\* whichever comes first, and no slower one rewrites the outcome.
DecidedOnce ==
  [][(poll \in Terminal /\ start # "withdraw") => poll' = poll]_voteVars

\* The same without exception: "a slow worker ... cannot overwrite a newer
\* result" (vote_ban.py:1614).  The task that sends the prompt can.
NeverOverwritten == [][(poll \in Terminal) => poll' = poll]_voteVars

\* An enforcement ends, although its task dies, its ban fails, its leases are
\* lost or the process restarts, as long as no exception ends its recovery loop
\* (_monitor_vote_enforcement, restore_vote_ban_tasks).
EnforcementEnds ==
  poll = "enforcing" ~> (poll # "enforcing" \/ watch = "dead")

\* Code comment "renew it after the next lease rather than abandoning it"
\* (vote_ban.py:2297): no enforcement is left lying.
EnforcementNotAbandoned == poll = "enforcing" ~> poll # "enforcing"

\* The result the group reads, "timed out, the votes were not reached".
ExpiredBelowThreshold == poll = "expired" => Cardinality(ballots) < Threshold
=============================================================================
