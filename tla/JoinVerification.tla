-------------------------- MODULE JoinVerification --------------------------
(***************************************************************************)
(* The life of one member's verification challenge in one group: table     *)
(* join_verifications and the workers of bot/services/join_verification.py,*)
(* bot/handlers/membership.py, bot/handlers/admin.py and the Mini App      *)
(* handlers of bot/services/verify_web.py.  Rows of different members and  *)
(* groups never meet (the key is (group_id, user_id)), so one is modelled. *)
(*                                                                         *)
(* Every worker alternates between short database transactions and         *)
(* Telegram calls.  Between two of them anything may happen: the row a     *)
(* worker acts for may be cancelled, finished or replaced by another one,  *)
(* and a call that is already on its way changes the member all the same.  *)
(* The code's only defence is the compare-and-set on (id, status, lease or *)
(* deadline).  What a worker remembers of the row is therefore two facts:  *)
(* "same", the row is still the one it saw, and "lease", nobody has        *)
(* written a new lease or deadline into it since.  Of the time stamp       *)
(* itself only whether it has passed ("due") matters.                      *)
(***************************************************************************)
EXTENDS Naturals

CONSTANTS
  Workers,       \* tasks of the bot process that may act on the member
  Role,          \* [Workers -> Roles]
  MaxFaults,     \* bound on failed or ambiguous Telegram calls and outages
  MaxCrashes,    \* bound on process crashes
  MaxRounds,     \* rounds of the reconciliation loop (5 in the code)
  Overtaking,    \* may a join update be handled before an earlier leave update?
  Deauthorizes   \* may the group lose (and regain) its authorization?

Roles == {"join", "message", "pass", "sweep", "admin"}

ASSUME ConstantsAssumption ==
  /\ Workers # {}
  /\ Role \in [Workers -> Roles]
  /\ MaxFaults \in Nat /\ MaxCrashes \in Nat
  /\ MaxRounds \in Nat \ {0}
  /\ Overtaking \in BOOLEAN /\ Deauthorizes \in BOOLEAN

VARIABLES
  row,        \* the member's row, or NoRow
  policy,     \* UserWarning.is_banned: the durable group ban
  tg,         \* what Telegram enforces on the member
  present,    \* is the member in the chat?
  arrived,    \* a join update waits to be handled (durable inbox)
  departed,   \* a leave update waits to be handled
  authorized, \* is the group authorized?
  marker,     \* _RECENT_MANUAL_UNBAN_GENERATIONS holds the member
  worker,     \* the workers
  faults, crashes,
  passed,     \* history: the current challenge was solved in time
  lifted      \* history: nothing asked for a ban since the last /unban

vars == <<row, policy, tg, present, arrived, departed, authorized, marker,
          worker, faults, crashes, passed, lifted>>

NoRow == [status |-> "none", kind |-> "join", due |-> FALSE, punish |-> FALSE]

Status == {"preparing", "pending", "enforcing", "releasing", "unbanning"}
Row == [status : Status, kind : {"join", "moderation"}, due : BOOLEAN, punish : BOOLEAN]

\* A worker's next step; "." separates the procedure from the step.
Steps == {"idle",
  "confirm", "mute", "muted", "prompt", "activate", "drop",
  "abort", "abort.restore", "abort.done",
  "again.mute", "again.check", "again.prompt", "again.commit", "again.cleanup",
  "dup.mute", "dup.after",
  "back.mute", "back.read", "back.mark", "back.done",
  "fix.read", "fix.own", "fix.restore", "fix.drop", "fix.again", "fix.ban", "fix.mute",
  "rec.check", "rec.ban", "rec.banned", "rec.lift", "rec.lifted", "rec.mute",
  "rec.muted", "rec.restore", "rec.restored", "rec.failed",
  "sweep.renew", "sweep.policy", "sweep.check", "restore", "complete", "defer",
  "punish.ban", "punish.record",
  "kick.ban", "kick.policy", "kick.lift", "kick.lifted", "kick.reban", "kick.done",
  "pass.claim",
  "ban.call", "ban.record",
  "unban.call", "unban.policy", "unban.restore"}

\* Why the current procedure runs: the status the worker's lease is in, or
\* what to do when a compensation does not succeed.
Purposes == {"none", "preparing", "releasing", "unbanning", "enforcing",
             "deauthorized", "failedKick", "stop", "fix", "lite",
             "blocked", "timeout", "owner"}

Worker == [at : Steps, for : Purposes, same : BOOLEAN, lease : BOOLEAN,
           tries : Nat, snap : BOOLEAN]

TypeOK ==
  /\ row = NoRow \/ row \in Row
  /\ policy \in BOOLEAN
  /\ tg \in {"free", "muted", "banned"}
  /\ present \in BOOLEAN /\ arrived \in BOOLEAN /\ departed \in BOOLEAN
  /\ authorized \in BOOLEAN /\ marker \in BOOLEAN
  /\ worker \in [Workers -> Worker]
  /\ faults \in 0..MaxFaults /\ crashes \in 0..MaxCrashes
  /\ passed \in BOOLEAN /\ lifted \in BOOLEAN

-----------------------------------------------------------------------------
(* Rows and workers *)

\* prepare_join_verification: INSERT ... ON CONFLICT DO NOTHING.
Challenge(k, p) == [status |-> "preparing", kind |-> k, due |-> FALSE, punish |-> p]

\* A write that sets the status and a new lease or deadline.
As(r, s) == [r EXCEPT !.status = s, !.due = FALSE]

\* lease_join_verification_for_unban: insert if absent, then take over.
Unbanning(r) == As(IF r = NoRow THEN Challenge("moderation", FALSE) ELSE r, "unbanning")

Idle == [at |-> "idle", for |-> "none", same |-> FALSE, lease |-> FALSE,
         tries |-> 0, snap |-> FALSE]

\* A procedure that starts with the row as it is now, or without one.
Task(s, f) == [Idle EXCEPT !.at = s, !.for = f, !.same = TRUE, !.lease = TRUE]
Chore(s, f) == [Idle EXCEPT !.at = s, !.for = f]

\* reconcile_stale_verification_restriction forgets the lease that was lost.
At(x, s) ==
  CASE s = "idle"     -> Idle
    [] s = "fix.read" -> Chore("fix.read", IF x.for = "lite" THEN "lite" ELSE "fix")
    [] OTHER          -> [x EXCEPT !.at = s]

Holding(x, s) == [x EXCEPT !.at = s, !.same = TRUE, !.lease = TRUE]
Outrun(x)     == [x EXCEPT !.lease = FALSE]
\* Mutant: ownership by (group, user) instead of the row's id survives its end.
OrphanedKeepsSame(x) == [x EXCEPT !.lease = FALSE]

Orphaned(x)   == [x EXCEPT !.lease = FALSE, !.same = FALSE]

Set(w, x)  == worker' = [worker EXCEPT ![w] = x]
Go(w, s)   == Set(w, At(worker[w], s))
Begin(w, role) == Role[w] = role /\ worker[w].at = "idle"
Is(w, s)   == worker[w].at = s

\* The three writes: a new row, a new lease or deadline, the end of the row.
Insert(w, k, p, x) == row = NoRow /\ row' = Challenge(k, p) /\ passed' = FALSE /\ Set(w, x)
Lease(w, s, x) ==
  /\ row' = As(row, s)
  /\ worker' = [v \in Workers |-> IF v = w THEN x ELSE Outrun(worker[v])]

\* Mutant: the row is marked done and kept.
DeleteSoft(w, x) ==
  /\ row' = [row EXCEPT !.status = "none", !.kind = "moderation"]
  /\ worker' = [v \in Workers |-> IF v = w THEN x ELSE Orphaned(worker[v])]

Delete(w, x) ==
  /\ row' = NoRow
  /\ worker' = [v \in Workers |-> IF v = w THEN x ELSE Orphaned(worker[v])]

\* The compare-and-set every worker's write is guarded by.
Owns(w, s) == row.status = s /\ worker[w].lease

\* verification_restriction_required
Restricts == row.status \in {"preparing", "pending", "enforcing"}

\* The status of the lease a worker holds.
LeaseStatus(x) ==
  IF x.for \in {"deauthorized", "failedKick", "timeout"} THEN "enforcing" ELSE x.for

dbOnly   == <<tg, present, arrived, departed, authorized, marker, faults, crashes>>
callOnly == <<row, policy, arrived, authorized, marker, crashes, passed, lifted>>
chatOnly == <<row, policy, authorized, marker, worker, faults, crashes, passed, lifted>>

-----------------------------------------------------------------------------
(* Telegram calls: each helper retries, probes the member's real status and *)
(* reports success only when it is confirmed.  A failure may have been      *)
(* applied all the same.                                                    *)

Call(w, to, good, bad) ==
  /\ \/ tg' = to /\ faults' = faults /\ Go(w, good)
     \/ tg' \in {tg, to} /\ faults < MaxFaults /\ faults' = faults + 1 /\ Go(w, bad)
  /\ present' = (present /\ tg' # "banned")
  /\ departed' = (departed \/ (present /\ tg' = "banned"))
  /\ UNCHANGED callOnly

Refused(w, bad) ==
  Go(w, bad) /\ UNCHANGED <<tg, present, departed, faults>> /\ UNCHANGED callOnly

\* restrict_new_member, restore_member_permissions: no effect on a banned user
Mute(w, good, bad) ==
  IF tg = "banned" THEN Refused(w, bad) ELSE Call(w, "muted", good, bad)
Restore(w, good, bad) ==
  IF tg = "banned" THEN Refused(w, bad) ELSE Call(w, "free", good, bad)
\* ban_member_result; _ensure_kick_unbanned_result (only_if_banned)
Ban(w, good, bad)  == Call(w, "banned", good, bad)
Lift(w, good, bad) == Call(w, IF tg = "banned" THEN "free" ELSE tg, good, bad)

-----------------------------------------------------------------------------
(* Issuing a join challenge: _start_join_verification                       *)

\* One join task per member runs at a time; updates that arrive meanwhile make
\* it run again.
Taken(w) == /\ Begin(w, "join") /\ arrived /\ arrived' = FALSE
            /\ departed => Overtaking

\* The join update is taken up and no record stands in the way.
StartJoin(w) ==
  /\ Taken(w)
  /\ present /\ authorized /\ ~policy /\ ~marker
  /\ Insert(w, "join", FALSE, Task("confirm", "fix"))
  /\ UNCHANGED <<policy, tg, present, departed, authorized, marker, faults, crashes, lifted>>

\* ... it is a duplicate of a join whose challenge is pending ...
StartRefresh(w) ==
  /\ Taken(w)
  /\ present /\ authorized /\ ~policy /\ ~marker
  /\ row.status = "pending" /\ row.kind = "join"
  /\ Set(w, Task("again.mute", "fix"))
  /\ UNCHANGED <<row, policy, tg, present, departed, authorized, marker, faults, crashes,
                 passed, lifted>>

\* ... the member is under a moderation challenge, in time or expired ...
StartRejoin(w) ==
  /\ Taken(w)
  /\ present /\ authorized /\ ~policy /\ ~marker
  /\ row.kind = "moderation"
  /\ \/ /\ row.status = "pending" /\ ~row.due
        /\ Set(w, Task("back.mute", "lite"))
        /\ UNCHANGED row
     \/ /\ row.status \in {"pending", "enforcing"} /\ row.due
        /\ Lease(w, "enforcing", Task("back.mark", "timeout"))
  /\ UNCHANGED <<policy, tg, present, departed, authorized, marker, faults, crashes,
                 passed, lifted>>

\* ... the member is banned ...
StartBlocked(w) ==
  /\ Taken(w)
  /\ present /\ authorized /\ policy
  /\ Set(w, Chore("rec.check", "blocked"))
  /\ UNCHANGED <<row, policy, tg, present, departed, authorized, marker, faults, crashes,
                 passed, lifted>>

\* ... or there is nothing to do for it.
DiscardJoin(w) ==
  /\ Taken(w)
  /\ \/ ~present \/ ~authorized
     \/ /\ ~policy
        /\ \/ marker \/ row.status \in {"preparing", "releasing", "unbanning"}
           \/ row.status = "enforcing" /\ (row.kind = "join" \/ ~row.due)
  /\ UNCHANGED <<row, policy, tg, present, departed, authorized, marker, worker,
                 faults, crashes, passed, lifted>>

\* Last check before the restriction: a join renews its lease, a moderation
\* challenge only reads its generation.
Confirm(w) ==
  /\ Is(w, "confirm")
  /\ IF Role[w] = "message"
     THEN Go(w, IF Owns(w, "preparing") THEN "mute" ELSE "idle") /\ UNCHANGED row
     ELSE \/ ~present /\ Go(w, "drop") /\ UNCHANGED row
          \/ present /\ ~Owns(w, "preparing") /\ Go(w, "idle") /\ UNCHANGED row
          \/ present /\ Owns(w, "preparing")
               /\ Lease(w, "preparing", Holding(worker[w], "mute"))
  /\ UNCHANGED <<policy, passed, lifted>> /\ UNCHANGED dbOnly

\* A join whose restriction failed restores the member; a moderation challenge
\* takes a failed restriction for one that was not applied and only drops its row.
MuteMember(w) ==
  /\ Is(w, "mute")
  /\ Mute(w, "muted", IF Role[w] = "message" THEN "drop" ELSE "abort")

\* delete_prepared_join_verification; a lost row is somebody else's
Drop(w) ==
  /\ Is(w, "drop")
  /\ IF Owns(w, "preparing") THEN Delete(w, Idle) ELSE Go(w, "idle") /\ UNCHANGED row
  /\ UNCHANGED <<policy, passed, lifted>> /\ UNCHANGED dbOnly

\* Mutant: a moderation challenge that lost its row leaves the restriction.
KeepUnrepaired(w) ==
  /\ Is(w, "muted")
  /\ \/ ~Owns(w, "preparing") /\ Go(w, "idle") /\ UNCHANGED row
     \/ Owns(w, "preparing") /\ Role[w] = "message" /\ Go(w, "prompt") /\ UNCHANGED row
     \/ /\ Owns(w, "preparing") /\ Role[w] = "join"
        /\ Lease(w, "preparing", Holding(worker[w], IF present THEN "prompt" ELSE "abort"))
  /\ UNCHANGED <<policy, passed, lifted>> /\ UNCHANGED dbOnly

\* After the restriction and the retraction of raced-in messages: is the
\* preparation still ours?
Keep(w) ==
  /\ Is(w, "muted")
  /\ \/ /\ ~Owns(w, "preparing")
        /\ Go(w, IF Role[w] = "message" THEN "abort" ELSE "fix.read") /\ UNCHANGED row
     \/ /\ Owns(w, "preparing") /\ Role[w] = "message" /\ Go(w, "prompt") /\ UNCHANGED row
     \/ /\ Owns(w, "preparing") /\ Role[w] = "join"
        /\ Lease(w, "preparing", Holding(worker[w], IF present THEN "prompt" ELSE "abort"))
  /\ UNCHANGED <<policy, passed, lifted>> /\ UNCHANGED dbOnly

SendPrompt(w) ==
  /\ Is(w, "prompt")
  /\ Call(w, tg, "activate", "abort")

\* activate_prepared_join_verification: only an unexpired, owned preparation
Activate(w) ==
  /\ Is(w, "activate")
  /\ IF Owns(w, "preparing") /\ ~row.due
     THEN Lease(w, "pending", Idle)
     ELSE Go(w, "abort") /\ UNCHANGED row
  /\ UNCHANGED <<policy, passed, lifted>> /\ UNCHANGED dbOnly

-----------------------------------------------------------------------------
(* Compensation: abort_prepared_join_verification and, when it lost the row *)
(* after a restriction, reconcile_stale_verification_restriction            *)

Fallback(x) == IF x.for = "stop" THEN "idle" ELSE "fix.read"

\* Never restore first: losing the row means another worker decides.
Abort(w) ==
  /\ Is(w, "abort")
  /\ IF Owns(w, "preparing")
     THEN Lease(w, "releasing", Holding(worker[w], "abort.restore"))
     ELSE Go(w, Fallback(worker[w])) /\ UNCHANGED row
  /\ UNCHANGED <<policy, passed, lifted>> /\ UNCHANGED dbOnly

AbortRestore(w) ==
  /\ Is(w, "abort.restore")
  /\ Restore(w, "abort.done", Fallback(worker[w]))

AbortDone(w) ==
  /\ Is(w, "abort.done")
  /\ IF Owns(w, "releasing") THEN Delete(w, Idle)
     ELSE UNCHANGED row /\ Go(w, Fallback(worker[w]))
  /\ UNCHANGED <<policy, passed, lifted>> /\ UNCHANGED dbOnly

\* current_intent: a ban or a newer challenge is left standing; with no row
\* at all the worker first makes itself the owner of one.
FixRead(w) ==
  /\ Is(w, "fix.read")
  /\ LET x == worker[w] IN
     CASE policy    -> Go(w, "fix.ban")
       [] ~policy /\ Restricts -> Go(w, "idle")
       [] ~policy /\ row.status \in {"releasing", "unbanning"} -> Go(w, "fix.restore")
       [] ~policy /\ row = NoRow ->
            IF x.for = "lite" THEN Go(w, "fix.restore")
            ELSE Go(w, IF x.tries < 2 THEN "fix.own" ELSE "idle")
  /\ UNCHANGED <<row, policy, passed, lifted>> /\ UNCHANGED dbOnly

FixOwn(w) ==
  /\ Is(w, "fix.own")
  /\ \/ Insert(w, "moderation", FALSE, Holding(worker[w], "fix.restore"))
     \/ /\ row # NoRow
        /\ Set(w, [worker[w] EXCEPT !.at = "fix.read", !.tries = worker[w].tries + 1])
        /\ UNCHANGED <<row, passed>>
  /\ UNCHANGED <<policy, lifted>> /\ UNCHANGED dbOnly

FixRestore(w) ==
  /\ Is(w, "fix.restore")
  /\ Restore(w, IF worker[w].for = "lite" THEN "idle" ELSE "fix.drop", "idle")

FixDrop(w) ==
  /\ Is(w, "fix.drop")
  /\ IF Owns(w, "preparing") THEN Delete(w, Chore("fix.again", "fix"))
     ELSE Go(w, "fix.again") /\ UNCHANGED row
  /\ UNCHANGED <<policy, passed, lifted>> /\ UNCHANGED dbOnly

\* A ban or a challenge created during the restoration wins.
FixAgain(w) ==
  /\ Is(w, "fix.again")
  /\ Go(w, IF policy THEN "fix.ban" ELSE IF Restricts THEN "fix.mute" ELSE "idle")
  /\ UNCHANGED <<row, policy, passed, lifted>> /\ UNCHANGED dbOnly

FixBan(w)  == Is(w, "fix.ban") /\ Ban(w, "idle", "idle")
FixMute(w) == Is(w, "fix.mute") /\ Mute(w, "idle", "idle")

-----------------------------------------------------------------------------
(* A duplicate join: a new prompt for the pending challenge *)

RefreshMute(w) ==
  /\ Is(w, "again.mute")
  /\ IF present THEN Mute(w, "again.check", "idle") ELSE Refused(w, "idle")

RefreshCheck(w) ==
  /\ Is(w, "again.check")
  /\ Go(w, IF Owns(w, "pending") THEN "again.prompt" ELSE "fix.read")
  /\ UNCHANGED <<row, policy, passed, lifted>> /\ UNCHANGED dbOnly

RefreshPrompt(w) == Is(w, "again.prompt") /\ Call(w, tg, "again.commit", "again.cleanup")

\* refresh_pending_join_verification: the old challenge stands until this commits.
RefreshCommit(w) ==
  /\ Is(w, "again.commit")
  /\ IF Owns(w, "pending") THEN Lease(w, "pending", Idle)
     ELSE UNCHANGED row /\ Go(w, "again.cleanup")
  /\ UNCHANGED <<policy, passed, lifted>> /\ UNCHANGED dbOnly

\* The old challenge is gone: own the empty key before restoring the member.
RefreshCleanup(w) ==
  /\ Is(w, "again.cleanup")
  /\ \/ Insert(w, "join", FALSE, Task("abort", "stop"))
     \/ row # NoRow /\ Go(w, "fix.read") /\ UNCHANGED <<row, passed>>
  /\ UNCHANGED <<policy, lifted>> /\ UNCHANGED dbOnly

-----------------------------------------------------------------------------
(* A message calls for a challenge: begin_moderation_challenge.  The lock per *)
(* member is held throughout: one worker has the role.                        *)

StartMessage(w) ==
  /\ Begin(w, "message") /\ present /\ authorized /\ ~policy /\ ~marker
  /\ Insert(w, "moderation", TRUE, Task("confirm", "fix"))
  /\ lifted' = FALSE
  /\ UNCHANGED policy /\ UNCHANGED dbOnly

\* Another message of the same member: the challenge stands, the mute is repeated.
MessageAgain(w) ==
  /\ Begin(w, "message") /\ present /\ authorized /\ ~policy /\ ~marker
  /\ row.kind = "moderation" /\ row.status \in {"pending", "enforcing"}
  /\ Set(w, Task("dup.mute", "fix"))
  /\ UNCHANGED <<row, policy, passed, lifted>> /\ UNCHANGED dbOnly

DupMute(w) == Is(w, "dup.mute") /\ Mute(w, "dup.after", "idle")

DupAfter(w) ==
  /\ Is(w, "dup.after")
  /\ Go(w, IF worker[w].lease THEN "idle" ELSE "fix.read")
  /\ UNCHANGED <<row, policy, passed, lifted>> /\ UNCHANGED dbOnly

-----------------------------------------------------------------------------
(* A rejoin under a moderation challenge: _enforce_pending_moderation_challenge *)

BackMute(w) == Is(w, "back.mute") /\ Mute(w, "back.read", "idle")

BackRead(w) ==
  /\ Is(w, "back.read")
  /\ \/ Insert(w, "moderation", TRUE, Task("abort", "stop"))
     \/ /\ row # NoRow
        /\ Go(w, IF worker[w].same /\ row.status = "pending" THEN "idle" ELSE "fix.read")
        /\ UNCHANGED <<row, passed>>
  /\ UNCHANGED <<policy, lifted>> /\ UNCHANGED dbOnly

\* Mutant: the policy is written and Telegram is left to somebody else.
BackMarkOnly(w) ==
  /\ Is(w, "back.mark")
  /\ policy' = TRUE
  /\ IF Owns(w, "enforcing") THEN Delete(w, Idle) ELSE Go(w, "idle") /\ UNCHANGED row
  /\ UNCHANGED <<passed, lifted>> /\ UNCHANGED dbOnly

\* The challenge expired: mark_group_banned commits before Telegram is called,
\* without looking at the lease.
BackMark(w) ==
  /\ Is(w, "back.mark")
  /\ policy' = TRUE
  /\ Go(w, "rec.check")
  /\ UNCHANGED <<row, passed, lifted>> /\ UNCHANGED dbOnly

\* _complete_moderation_enforcement_or_reconcile
BackDone(w) ==
  /\ Is(w, "back.done")
  /\ IF Owns(w, "enforcing") THEN Delete(w, Idle)
     ELSE UNCHANGED row /\ Set(w, Chore("rec.check", "owner"))
  /\ UNCHANGED <<policy, passed, lifted>> /\ UNCHANGED dbOnly

-----------------------------------------------------------------------------
(* reconcile_moderation_ban_after_lost_lease: read the policy, change         *)
(* Telegram, read again, at most MaxRounds times                              *)

RecCheck(w) ==
  /\ Is(w, "rec.check")
  /\ LET n == worker[w].tries + 1 IN
     Set(w, [worker[w] EXCEPT !.tries = n,
                              !.at = IF n > MaxRounds THEN "rec.failed"
                                     ELSE IF policy THEN "rec.ban" ELSE "rec.lift"])
  /\ UNCHANGED <<row, policy, passed, lifted>> /\ UNCHANGED dbOnly

RecBan(w)     == Is(w, "rec.ban")     /\ Ban(w, "rec.banned", "rec.failed")
RecLift(w)    == Is(w, "rec.lift")    /\ Lift(w, "rec.lifted", "rec.failed")
RecMute(w)    == Is(w, "rec.mute")    /\ Mute(w, "rec.muted", "rec.failed")
RecRestore(w) == Is(w, "rec.restore") /\ Restore(w, "rec.restored", "rec.failed")

\* What the caller does once the member is as the policy wants him.
AfterBan(x)     == CASE x.for = "unbanning" -> "complete" [] x.for = "timeout" -> "back.done"
                     [] OTHER -> "idle"
AfterMute(x)    == IF x.for = "unbanning" THEN "complete" ELSE "idle"
AfterRestore(x) == IF x.for \in {"unbanning", "timeout"} THEN "complete" ELSE "idle"

RecReread(w) ==
  /\ LET x == worker[w] IN
     \/ Is(w, "rec.banned") /\ Go(w, IF policy THEN AfterBan(x) ELSE "rec.check")
     \/ Is(w, "rec.lifted")
          /\ Go(w, IF policy THEN "rec.check" ELSE IF Restricts THEN "rec.mute" ELSE "rec.restore")
     \/ Is(w, "rec.muted") /\ Go(w, IF ~policy /\ Restricts THEN AfterMute(x) ELSE "rec.check")
     \/ Is(w, "rec.restored")
          /\ Go(w, IF ~policy /\ ~Restricts THEN AfterRestore(x) ELSE "rec.check")
  /\ UNCHANGED <<row, policy, passed, lifted>> /\ UNCHANGED dbOnly

\* A lease is kept for the sweeper; a join update is retried by the inbox; the
\* ban that lost its row makes sure some terminal row owns the member.
RecFailed(w) ==
  /\ Is(w, "rec.failed")
  /\ LET x == worker[w] IN
     /\ Go(w, IF x.for \in {"unbanning", "timeout"} THEN "defer" ELSE "idle")
     /\ arrived' = (\/ arrived \/ x.for = "blocked"
                    \/ x.for = "owner" /\ row.status \in {"preparing", "pending"})
     /\ IF x.for = "owner" /\ row = NoRow THEN row' = Unbanning(row) /\ passed' = FALSE
        ELSE UNCHANGED <<row, passed>>
  /\ UNCHANGED <<policy, lifted, tg, present, departed, authorized, marker, faults, crashes>>

-----------------------------------------------------------------------------
(* JoinVerificationSweeper: one sweep at a time *)

\* Mutant: an interrupted release is enforced like an expired challenge.
TargetIgnoresRelease ==
  CASE row.status = "preparing" -> "preparing"
    [] row.status = "unbanning" -> "unbanning"
    [] OTHER -> "enforcing"

\* The target status of a claimed row, and the procedure that follows.
Target ==
  CASE row.status = "preparing" -> "preparing"
    [] row.status = "unbanning" \/ (row.kind = "moderation" /\ ~row.punish
                                    /\ row.status # "preparing") -> "unbanning"
    [] row.status = "releasing" \/ (row.status = "pending" /\ ~authorized) -> "releasing"
    [] OTHER -> "enforcing"

\* Mutant: only challenges that were presented are swept.
SweepClaimPresented(w) ==
  /\ Begin(w, "sweep") /\ row # NoRow /\ row.due /\ row.status # "preparing"
  /\ Lease(w, Target, Task("sweep.renew", Target))
  /\ UNCHANGED <<policy, passed, lifted>> /\ UNCHANGED dbOnly

SweepClaim(w) ==
  /\ Begin(w, "sweep") /\ row # NoRow /\ row.due
  /\ Lease(w, Target,
           Task("sweep.renew", IF row.status = "enforcing" /\ ~authorized THEN "deauthorized"
                               ELSE Target))
  /\ UNCHANGED <<policy, passed, lifted>> /\ UNCHANGED dbOnly

\* The provider of the challenge is unavailable: nobody is punished for it.
SweepExtends(w) ==
  /\ Begin(w, "sweep") /\ row.status = "pending" /\ faults < MaxFaults
  /\ Lease(w, "pending", Idle)
  /\ faults' = faults + 1
  /\ UNCHANGED <<policy, passed, lifted, tg, present, arrived, departed, authorized,
                 marker, crashes>>

\* The claimed rows wait for one of four slots: each heartbeats when it has one.
SweepRenew(w) ==
  /\ Is(w, "sweep.renew")
  /\ LET f == worker[w].for IN
     IF Owns(w, LeaseStatus(worker[w]))
     THEN Lease(w, row.status, Holding(worker[w], CASE f = "unbanning" -> "rec.check"
                                                    [] f = "enforcing" -> "sweep.check"
                                                    [] OTHER -> "sweep.policy"))
     ELSE Go(w, "idle") /\ UNCHANGED row
  /\ UNCHANGED <<policy, passed, lifted>> /\ UNCHANGED dbOnly

\* A banned member is not restored; his row is of no more use.
SweepPolicy(w) ==
  /\ Is(w, "sweep.policy")
  /\ Go(w, IF policy THEN "complete"
           ELSE IF worker[w].for = "deauthorized" THEN "kick.policy" ELSE "restore")
  /\ UNCHANGED <<row, policy, passed, lifted>> /\ UNCHANGED dbOnly

SweepCheck(w) ==
  /\ Is(w, "sweep.check")
  /\ Go(w, IF ~Owns(w, "enforcing") THEN "idle"
           ELSE IF row.kind = "moderation" THEN "punish.ban" ELSE "kick.ban")
  /\ UNCHANGED <<row, policy, passed, lifted>> /\ UNCHANGED dbOnly

\* The release of a deauthorized group also ends when the member is gone.
RestoreMember(w) ==
  /\ Is(w, "restore")
  /\ Restore(w, "complete",
             IF worker[w].for = "deauthorized" /\ ~present THEN "complete" ELSE "defer")

\* complete_leased_join_verification, delete_prepared_join_verification
Complete(w) ==
  /\ Is(w, "complete")
  /\ IF Owns(w, LeaseStatus(worker[w])) THEN Delete(w, Idle)
     ELSE Go(w, "idle") /\ UNCHANGED row
  /\ UNCHANGED <<policy, passed, lifted>> /\ UNCHANGED dbOnly

\* _defer_terminal_record, _defer_prepared_record: a later lease, the same intent
Defer(w) ==
  /\ Is(w, "defer")
  /\ IF Owns(w, LeaseStatus(worker[w]))
     THEN Lease(w, row.status, Idle)
     ELSE Go(w, "idle") /\ UNCHANGED row
  /\ UNCHANGED <<policy, passed, lifted>> /\ UNCHANGED dbOnly

\* An expired moderation challenge: ban, then record the ban and delete the row
\* in one transaction.
PunishBan(w) == Is(w, "punish.ban") /\ Ban(w, "punish.record", "defer")

\* Mutant: the ban is recorded whoever owns the row by now.
PunishRecordUnguarded(w) ==
  /\ Is(w, "punish.record")
  /\ policy' = TRUE
  /\ IF Owns(w, "enforcing") THEN Delete(w, Idle) ELSE Go(w, "idle") /\ UNCHANGED row
  /\ UNCHANGED <<passed, lifted>> /\ UNCHANGED dbOnly

PunishRecord(w) ==
  /\ Is(w, "punish.record")
  /\ IF Owns(w, "enforcing")
     THEN Delete(w, Idle) /\ policy' = TRUE
     ELSE UNCHANGED <<row, policy>> /\ Set(w, Chore("rec.check", "stop"))
  /\ UNCHANGED <<passed, lifted>> /\ UNCHANGED dbOnly

\* An expired join challenge: kick_member bans and lifts the ban again, unless
\* somebody wants the member banned meanwhile.  After an ambiguous ban the lift
\* is tried all the same.
KickBan(w) ==
  /\ Is(w, "kick.ban")
  /\ \/ Ban(w, "kick.policy", "defer")
     \/ /\ faults < MaxFaults /\ faults' = faults + 1
        /\ tg' \in {tg, "banned"}
        /\ present' = (present /\ tg' # "banned")
        /\ departed' = (departed \/ (present /\ tg' = "banned"))
        /\ Set(w, [worker[w] EXCEPT !.at = "kick.policy", !.for = "failedKick"])
        /\ UNCHANGED callOnly

KickPolicy(w) ==
  /\ Is(w, "kick.policy") \/ Is(w, "kick.lifted")
  /\ Go(w, IF Is(w, "kick.policy") THEN IF policy THEN "kick.done" ELSE "kick.lift"
           ELSE IF policy THEN "kick.reban" ELSE "kick.done")
  /\ UNCHANGED <<row, policy, passed, lifted>> /\ UNCHANGED dbOnly

\* Mutant: an ambiguous kick counts as done although its ban may stand.
KickLiftOptional(w) == Is(w, "kick.lift") /\ Lift(w, "kick.lifted", "kick.done")

KickLift(w)  == Is(w, "kick.lift")  /\ Lift(w, "kick.lifted", "defer")
KickReban(w) == Is(w, "kick.reban") /\ Ban(w, "kick.done", "defer")

KickDone(w) ==
  /\ Is(w, "kick.done")
  /\ LET f == worker[w].for IN
     \/ /\ f = "enforcing"
        /\ IF Owns(w, "enforcing") THEN Delete(w, Idle)
           ELSE Go(w, "fix.read") /\ UNCHANGED row
     \/ f = "deauthorized" /\ Go(w, IF policy THEN "complete" ELSE "restore") /\ UNCHANGED row
     \/ f = "failedKick" /\ Go(w, "defer") /\ UNCHANGED row
     \/ f = "stop" /\ Go(w, "idle") /\ UNCHANGED row
  /\ UNCHANGED <<policy, passed, lifted>> /\ UNCHANGED dbOnly

\* run_bounded gives an operation 45 seconds.  The shielded reconciliation and
\* the lifting of a kick go on by themselves, their result unused.
GivesUp(w) ==
  /\ Role[w] = "sweep" /\ faults < MaxFaults /\ faults' = faults + 1
  /\ LET x == worker[w] IN
     \/ /\ x.at \in {"sweep.policy", "sweep.check", "complete", "defer", "punish.ban", "restore"}
           \/ (x.at = "kick.done" /\ x.for = "enforcing")
        /\ Set(w, Idle)
     \/ x.at = "punish.record" /\ Set(w, Chore("rec.check", "stop"))
     \/ /\ x.for \in {"unbanning", "enforcing", "failedKick"}
        /\ x.at \in {"rec.check", "rec.ban", "rec.banned", "rec.lift", "rec.lifted", "rec.mute",
                     "rec.muted", "rec.restore", "rec.restored",
                     "kick.policy", "kick.lift", "kick.lifted", "kick.reban"}
        /\ Set(w, [Chore(x.at, "stop") EXCEPT !.tries = x.tries])
  /\ UNCHANGED <<row, policy, tg, present, arrived, departed, authorized, marker, crashes,
                 passed, lifted>>

-----------------------------------------------------------------------------
(* The member solves the challenge: the handler of the verification page *)

PassRead(w) ==
  /\ Begin(w, "pass")
  /\ row.status = "pending" /\ ~row.due /\ ~policy
  /\ Set(w, Task("pass.claim", "none"))
  /\ UNCHANGED <<row, policy, passed, lifted>> /\ UNCHANGED dbOnly

\* Mutant: what was read before the provider answered still counts.
PassClaimUnchecked(w) ==
  /\ Is(w, "pass.claim")
  /\ \/ worker[w].same /\ Lease(w, "releasing", Task("restore", "releasing")) /\ passed' = TRUE
     \/ ~worker[w].same /\ Go(w, "idle") /\ UNCHANGED <<row, passed>>
  /\ UNCHANGED <<policy, lifted>> /\ UNCHANGED dbOnly

\* The provider has answered: the row is read again; a deadline that was moved
\* forward meanwhile does not hurt, another row does.
PassClaim(w) ==
  /\ Is(w, "pass.claim")
  /\ \/ /\ worker[w].same /\ row.status = "pending" /\ ~row.due /\ ~policy
        /\ Lease(w, "releasing", Task("restore", "releasing"))
        /\ passed' = TRUE
     \/ /\ ~worker[w].same \/ row.status # "pending" \/ row.due \/ policy
        /\ Go(w, "idle") /\ UNCHANGED <<row, passed>>
  /\ UNCHANGED <<policy, lifted>> /\ UNCHANGED dbOnly

-----------------------------------------------------------------------------
(* /ban and /unban: serialized by _MANUAL_BAN_LOCKS *)

TakeOver(w, x) ==
  /\ row' = Unbanning(row)
  /\ worker' = [v \in Workers |-> IF v = w THEN x ELSE Outrun(worker[v])]
  /\ passed' = (passed /\ row # NoRow)

\* The journal comes first: a crash after the ban is undone, not forgotten.
BanStart(w) ==
  /\ Begin(w, "admin") /\ authorized
  /\ TakeOver(w, Task("ban.call", "unbanning"))
  /\ lifted' = FALSE
  /\ UNCHANGED policy /\ UNCHANGED dbOnly

BanCall(w) == Is(w, "ban.call") /\ Ban(w, "ban.record", "idle")

BanRecord(w) ==
  /\ Is(w, "ban.record")
  /\ IF Owns(w, "unbanning")
     THEN Delete(w, Idle) /\ policy' = TRUE
     ELSE UNCHANGED <<row, policy>> /\ Set(w, Chore("rec.check", "stop"))
  /\ UNCHANGED <<passed, lifted>> /\ UNCHANGED dbOnly

UnbanStart(w) ==
  /\ Begin(w, "admin") /\ authorized
  /\ TakeOver(w, [Task("unban.call", "unbanning") EXCEPT !.snap = policy])
  /\ marker' = TRUE /\ lifted' = TRUE
  /\ UNCHANGED <<policy, tg, present, arrived, departed, authorized, faults, crashes>>

UnbanCall(w) == Is(w, "unban.call") /\ Lift(w, "unban.policy", "idle")

\* The warning row is deleted only if it is still the one that was read.
UnbanPolicy(w) ==
  /\ Is(w, "unban.policy")
  /\ \/ policy = worker[w].snap /\ policy' = FALSE /\ Go(w, "unban.restore")
     \/ /\ policy # worker[w].snap
        /\ Set(w, IF policy THEN Chore("fix.ban", "fix") ELSE Idle)
        /\ UNCHANGED policy
  /\ UNCHANGED <<row, passed, lifted>> /\ UNCHANGED dbOnly

UnbanRestore(w) == Is(w, "unban.restore") /\ Restore(w, "complete", "idle")

-----------------------------------------------------------------------------
(* The chat, the clock and the process *)

JoinArrives ==
  /\ ~present /\ tg # "banned" /\ present' = TRUE /\ arrived' = TRUE
  /\ UNCHANGED <<tg, departed>> /\ UNCHANGED chatOnly

Leaves ==
  /\ present /\ present' = FALSE /\ departed' = TRUE
  /\ UNCHANGED <<tg, arrived>> /\ UNCHANGED chatOnly

\* on_member_leave drops a join challenge that is pending, by its key.
LeaveHandled ==
  /\ departed /\ departed' = FALSE
  /\ IF row.kind = "join" /\ row.status = "pending"
     THEN row' = NoRow /\ worker' = [w \in Workers |-> Orphaned(worker[w])]
     ELSE UNCHANGED <<row, worker>>
  /\ UNCHANGED <<policy, tg, present, arrived, authorized, marker, faults, crashes,
                 passed, lifted>>

\* Steps that may outlast the lease they run under, or that only know of it.
Slow(x) == \/ x.at \in {"muted", "prompt", "activate", "sweep.renew", "dup.mute", "dup.after",
                        "back.mute", "back.read", "again.mute", "again.check"}
           \/ x.for = "timeout"

\* A deadline passes, or a lease of a worker that is gone or slow.  Telegram
\* calls are bounded well below the 90 seconds of a lease.
Lapse ==
  /\ row # NoRow /\ ~row.due
  /\ row.status # "pending" => \A w \in Workers : worker[w].lease => Slow(worker[w])
  /\ row' = [row EXCEPT !.due = TRUE]
  /\ UNCHANGED <<policy, passed, lifted, worker>> /\ UNCHANGED dbOnly

MarkerExpires ==
  /\ marker /\ marker' = FALSE
  /\ UNCHANGED <<row, policy, tg, present, arrived, departed, authorized, worker, faults,
                 crashes, passed, lifted>>

Authorization ==
  /\ Deauthorizes /\ faults < MaxFaults /\ faults' = faults + 1 /\ authorized' = ~authorized
  /\ UNCHANGED <<row, policy, tg, present, arrived, departed, marker, worker, crashes,
                 passed, lifted>>

\* The durable inbox replays the join update that was being handled.
Crash ==
  /\ crashes < MaxCrashes /\ crashes' = crashes + 1
  /\ worker' = [w \in Workers |-> Idle] /\ marker' = FALSE
  /\ arrived' = (arrived \/ \E w \in Workers : Role[w] = "join" /\ worker[w].at # "idle")
  /\ UNCHANGED <<row, policy, tg, present, departed, authorized, faults, passed, lifted>>

-----------------------------------------------------------------------------
Init ==
  /\ row = NoRow /\ policy = FALSE /\ tg = "free"
  /\ present \in BOOLEAN /\ arrived = FALSE /\ departed = FALSE
  /\ authorized = TRUE /\ marker = FALSE
  /\ worker = [w \in Workers |-> Idle]
  /\ faults = 0 /\ crashes = 0
  /\ passed = FALSE /\ lifted = FALSE

TakeJoin(w) == \/ StartJoin(w) \/ StartRefresh(w) \/ StartRejoin(w) \/ StartBlocked(w)
               \/ DiscardJoin(w)

Issue(w) == \/ Confirm(w) \/ MuteMember(w) \/ Drop(w) \/ Keep(w) \/ SendPrompt(w) \/ Activate(w)

Compensate(w) == \/ Abort(w) \/ AbortRestore(w) \/ AbortDone(w)
                 \/ FixRead(w) \/ FixOwn(w) \/ FixRestore(w) \/ FixDrop(w) \/ FixAgain(w)
                 \/ FixBan(w) \/ FixMute(w)

Repeat(w) == \/ RefreshMute(w) \/ RefreshCheck(w) \/ RefreshPrompt(w) \/ RefreshCommit(w)
             \/ RefreshCleanup(w) \/ DupMute(w) \/ DupAfter(w)
             \/ BackMute(w) \/ BackRead(w) \/ BackMark(w) \/ BackDone(w)

Reconcile(w) == \/ RecCheck(w) \/ RecBan(w) \/ RecLift(w) \/ RecMute(w) \/ RecRestore(w)
                \/ RecReread(w) \/ RecFailed(w)

Enforce(w) == \/ SweepRenew(w) \/ SweepPolicy(w) \/ SweepCheck(w)
              \/ RestoreMember(w) \/ Complete(w) \/ Defer(w)
              \/ PunishBan(w) \/ PunishRecord(w)
              \/ KickBan(w) \/ KickPolicy(w) \/ KickLift(w) \/ KickReban(w) \/ KickDone(w)

Decide(w) == \/ PassClaim(w) \/ BanCall(w) \/ BanRecord(w)
             \/ UnbanCall(w) \/ UnbanPolicy(w) \/ UnbanRestore(w)

\* A worker that has begun goes on.
Continue(w) == \/ Issue(w) \/ Compensate(w) \/ Repeat(w) \/ Reconcile(w) \/ Enforce(w) \/ Decide(w)

\* Somebody wants something of the member.
Asked(w) == \/ StartMessage(w) \/ MessageAgain(w) \/ PassRead(w) \/ BanStart(w) \/ UnbanStart(w)

World == \/ JoinArrives \/ Leaves \/ LeaveHandled \/ Lapse \/ MarkerExpires \/ Authorization \/ Crash

Next ==
  \/ \E w \in Workers : \/ TakeJoin(w) \/ Continue(w) \/ Asked(w)
                        \/ SweepClaim(w) \/ SweepExtends(w) \/ GivesUp(w)
  \/ World

Spec == Init /\ [][Next]_vars

\* The tasks of the process run, updates are delivered, the sweeper is called
\* every few seconds, and deadlines pass.
Fairness ==
  /\ \A w \in Workers : WF_vars(TakeJoin(w)) /\ WF_vars(Continue(w)) /\ WF_vars(SweepClaim(w))
  /\ WF_vars(LeaveHandled) /\ WF_vars(Lapse) /\ WF_vars(MarkerExpires)

FairSpec == Spec /\ Fairness

-----------------------------------------------------------------------------
(* Properties *)

Quiet == \A w \in Workers : worker[w].at = "idle"

\* Purposes of a worker that kicks or bans for an expired challenge.
Enforcing == {"enforcing", "timeout", "failedKick"}

\* Whoever solves the challenge in time is never kicked or banned for it, crash
\* or not: the row only goes on to the release (or to an administrator's
\* journal), and no worker holds it for enforcement.  verify_web.py: "never as a
\* timeout kick/ban".
PassIsFinal ==
  passed /\ row # NoRow =>
    /\ row.status \in {"releasing", "unbanning"}
    /\ \A w \in Workers : worker[w].for \in Enforcing => ~worker[w].same

(* What makes these facts inductive: a worker that was about to enforce a row *)
(* never counts a later one as its own.                                       *)

OwnershipIsCurrent ==
  \A w \in Workers : LET x == worker[w] IN
    /\ x.lease => x.same
    /\ x.same => row # NoRow
    /\ row.status \in {"preparing", "pending"} /\ x.for \in Enforcing => ~x.same

PurposeFits ==
  \A w \in Workers : LET x == worker[w] IN
    /\ x.at \in {"sweep.check", "kick.ban"} => x.for = "enforcing"
    /\ x.at \in {"fix.read", "fix.own"} => x.for \in {"fix", "lite"}

\* The inductive invariant of the proofs: a row on its way to the challenge or
\* to its answer is owned by no worker that once set out to enforce.
InductiveInv == TypeOK /\ OwnershipIsCurrent /\ PurposeFits /\ PassIsFinal

\* A member that can see the chat and may not write is somebody's business: a
\* row, a running worker or an update still to be handled.
NoOrphanMute == tg = "muted" /\ present => row # NoRow \/ ~Quiet \/ arrived \/ departed

\* The ban of a kick is temporary: while nobody wants the member banned, a row
\* or a worker remains to lift it.
NoSilentBan == tg = "banned" /\ ~policy => row # NoRow \/ ~Quiet

\* A recorded ban is in force once everything is quiet.
BanInForce == policy /\ row = NoRow /\ Quiet => tg = "banned"

\* After /unban only a new ban or a new punishing challenge can ban again.
BanNotResurrected == [][policy' /\ ~policy => ~lifted]_vars

\* Every row is resolved sooner or later, whatever failed or crashed on the way:
\* nobody stays under a challenge that no worker will end.
RowsResolve == row # NoRow ~> row = NoRow

\* The workers, crashes and lost answers together keep the promise of one
\* challenge after the other.
Contract == INSTANCE ChallengeContract
              WITH stage <- row.status, solved <- passed, banned <- policy
KeepsContract == Contract!Spec
=============================================================================
