------------------------------- MODULE Patrol -------------------------------
(***************************************************************************)
(* The daily patrol of members' profiles (services/patrol.py): a run is    *)
(* started by the clock or from the panel, screens the members, and        *)
(* challenges those it finds: a row is prepared, the member is muted, one  *)
(* message warns them all, the rows become challenges.  Beside it: an      *)
(* administrator's exemption, other challenges, passes, the sweeper of     *)
(* lapsed rows, the end of the group's authorization, a crash.             *)
(*                                                                         *)
(* One group, one chunk of members.  What a challenge turns into later is  *)
(* in JoinVerification.                                                    *)
(***************************************************************************)
EXTENDS Naturals, FiniteSets

CONSTANTS
  Members,
  Clock, Panel,     \* run_once and start_manual_patrol
  Slots,            \* _PATROL_RUN_CONCURRENCY
  MaxDays,          \* bound: scheduled instants
  MaxPatrolFaults   \* bound: failed calls and statements, deadlines, crashes

PatrolAssumption == Clock # Panel /\ Slots \in Nat \ {0} /\ MaxDays \in Nat /\ MaxPatrolFaults \in Nat

Callers == {Clock, Panel}

VARIABLES
  caller,   \* caller -> "off", "asked" (the panel's task is made), "slot" (waits for one), "run"
  reserved, \* _pending_group_ids has the group
  busySlots,\* run slots other groups hold
  stage,    \* of the run: what it does next
  phase,    \* member -> where the run is with it
  row,      \* member -> its verification row
  muted,    \* member -> muted on Telegram
  exempt,   \* member -> exempt from moderation
  handler,  \* member -> where the exemption's handler is
  allowed,  \* the group is authorized
  day,      \* scheduled instants so far
  last,     \* PatrolRun.last_run_at, as the instants before it
  started,  \* started_at of the run, likewise
  covered,  \* history: the instants before the start of a run that was completed
  lost,     \* history: members whose mute the run gave up on without a row of its own
  faults

vars == <<caller, reserved, busySlots, stage, phase, row, muted, exempt, handler, allowed,
          day, last, started, covered, lost, faults>>

admission == <<caller, reserved, busySlots>>
schedule  == <<day, last, started, covered>>
admin     == <<exempt, handler>>
telegram  == <<row, muted>>

\* "mine": preparing under the run's lease.  "live": the run's challenge, pending.  "other":
\* another challenge.  "release": the run gives permissions back.  "unban": the exemption's
\* recovery.  "repair": the row reconcile_stale_verification_restriction makes.  "swept" and
\* "restored": somebody else gives them back, and has.
Rows   == {"none", "mine", "live", "other", "release", "unban", "repair", "swept", "restored"}
Phases == {"out", "found", "ready", "calling", "muted", "undo", "abort", "restore", "complete",
           "fix", "fixcall", "fixend", "fixagain"}
Stages == {"off", "scan", "prepare", "mute", "renew", "warn", "activate", "finish", "leave"}

TypeOK ==
  /\ caller \in [Callers -> {"off", "asked", "slot", "run"}] /\ reserved \in BOOLEAN
  /\ busySlots \in 0..Slots /\ stage \in Stages
  /\ phase \in [Members -> Phases] /\ row \in [Members -> Rows]
  /\ muted \in [Members -> BOOLEAN] /\ exempt \in [Members -> BOOLEAN]
  /\ handler \in [Members -> {"off", "restore", "complete"}]
  /\ allowed \in BOOLEAN /\ lost \subseteq Members
  /\ day \in 0..MaxDays /\ last \in 0..MaxDays /\ started \in 0..MaxDays /\ covered \in 0..MaxDays
  /\ faults \in 0..MaxPatrolFaults

Init ==
  /\ caller = [c \in Callers |-> "off"] /\ reserved = FALSE /\ busySlots = 0
  /\ stage = "off" /\ phase = [m \in Members |-> "out"]
  /\ row = [m \in Members |-> "none"] /\ muted = [m \in Members |-> FALSE]
  /\ exempt = [m \in Members |-> FALSE] /\ handler = [m \in Members |-> "off"]
  /\ allowed = TRUE /\ day = 0 /\ last = 0 /\ started = 0 /\ covered = 0
  /\ lost = {} /\ faults = 0

Fine  == UNCHANGED faults
Fails == faults < MaxPatrolFaults /\ faults' = faults + 1
In(m, p) == phase[m] = p
To(m, p) == phase' = [phase EXCEPT ![m] = p]
All(S, p) == phase' = [m \in Members |-> IF m \in S THEN p ELSE phase[m]]
Put(m, r) == row' = [row EXCEPT ![m] = r]
Mute(m, b) == muted' = [muted EXCEPT ![m] = b]
Found(p) == {m \in Members : In(m, p)}
\* The member the run works on: its calls are made one after the other.
Idle == \A m \in Members : phase[m] \in {"out", "found", "ready", "muted"}
Resting == Idle /\ Found("found") = {} /\ Found("ready") = {}
\* Rows that call for a mute.
Governed(m) == row[m] \in {"mine", "live", "other"}

-----------------------------------------------------------------------------
(* Runs: start_manual_patrol, run_once, run_group_patrol *)

Running == reserved \/ caller[Panel] # "off"
StartManual ==
  /\ ~Running /\ caller' = [caller EXCEPT ![Panel] = "asked"]
  /\ UNCHANGED <<reserved, busySlots, stage, phase, telegram, admin, allowed, schedule, lost, faults>>

\* patrol_due: an instant has come after the last completed run began
Due == last < day
\* The panel's task comes before the clock's; nothing is awaited before the reservation.
Wants(c) == IF c = Panel THEN caller[c] = "asked" ELSE caller[c] = "off" /\ Due /\ caller[Panel] = "off"
Reserve(c) ==
  /\ Wants(c) /\ ~reserved /\ allowed
  /\ reserved' = TRUE /\ caller' = [caller EXCEPT ![c] = "slot"]
  /\ UNCHANGED <<busySlots, stage, phase, telegram, admin, allowed, schedule, lost, faults>>

Acquire(c) ==
  /\ caller[c] = "slot" /\ busySlots < Slots /\ stage = "off"
  /\ caller' = [caller EXCEPT ![c] = "run"]
  /\ stage' = IF allowed THEN "scan" ELSE "leave"
  /\ started' = day
  /\ UNCHANGED <<reserved, busySlots, phase, telegram, admin, allowed, day, last, covered, lost, faults>>

\* _PATROL_RUN_ADMISSION_TIMEOUT_SECONDS
NotAdmitted(c) ==
  /\ caller[c] = "slot" /\ busySlots = Slots
  /\ caller' = [caller EXCEPT ![c] = "off"] /\ reserved' = FALSE
  /\ UNCHANGED <<busySlots, stage, phase, telegram, admin, allowed, schedule, lost, faults>>

OtherGroups ==
  /\ \/ busySlots + (IF stage = "off" THEN 0 ELSE 1) < Slots /\ busySlots' = busySlots + 1
     \/ busySlots > 0 /\ busySlots' = busySlots - 1
  /\ UNCHANGED <<caller, reserved, stage, phase, telegram, admin, allowed, schedule, lost, faults>>

Over == caller' = [c \in Callers |-> IF caller[c] = "run" THEN "off" ELSE caller[c]] /\ reserved' = FALSE

\* A bug for the mutation runs: the run is recorded with the time it ends.
FinishNow ==
  /\ stage = "finish" /\ Resting /\ Found("muted") = {} /\ Over
  /\ stage' = "off" /\ last' = day /\ covered' = started
  /\ UNCHANGED <<busySlots, phase, telegram, admin, allowed, day, started, lost, faults>>
\* _finish_run: recorded with the time it began
Finish ==
  /\ stage = "finish" /\ Resting /\ Found("muted") = {} /\ Over
  /\ stage' = "off" /\ last' = started /\ covered' = started
  /\ UNCHANGED <<busySlots, phase, telegram, admin, allowed, day, started, lost, faults>>
\* A run that failed, ran out of time or lost its group is not recorded.
LeaveRun ==
  /\ stage = "leave" /\ Resting /\ Found("muted") = {} /\ Over /\ stage' = "off"
  /\ UNCHANGED <<busySlots, phase, telegram, admin, allowed, schedule, lost, faults>>

-----------------------------------------------------------------------------
(* _scan_batch and _enforce_violators *)

\* Members that are exempt or have a row are passed over; any other may be found.
Scan ==
  /\ stage = "scan"
  /\ IF ~allowed THEN stage' = "leave" /\ UNCHANGED <<phase, faults>>
     ELSE \/ /\ Fine
             /\ \E S \in SUBSET {m \in Members : ~exempt[m] /\ row[m] = "none"} :
                  All(S, "found") /\ stage' = IF S = {} THEN "finish" ELSE "prepare"
          \/ Fails /\ stage' = "leave" /\ UNCHANGED phase
  /\ UNCHANGED <<admission, telegram, admin, allowed, schedule, lost>>

\* A bug for the mutation runs: the policy the scan has read is not read again.
PrepareUnread(m) ==
  /\ stage = "prepare" /\ In(m, "found")
  /\ IF row[m] = "none" THEN Put(m, "mine") /\ To(m, "ready") ELSE To(m, "out") /\ UNCHANGED row
  /\ UNCHANGED <<admission, stage, muted, admin, allowed, schedule, lost, faults>>
\* policy_allows_candidate and prepare_join_verification, under the group's write intent
Prepare(m) ==
  /\ stage = "prepare" /\ In(m, "found")
  /\ IF allowed /\ ~exempt[m] /\ row[m] = "none"
       THEN Put(m, "mine") /\ To(m, "ready")
       ELSE To(m, "out") /\ UNCHANGED row
  /\ UNCHANGED <<admission, stage, muted, admin, allowed, schedule, lost, faults>>
\* A statement fails: the chunk is given up, its rows are the sweeper's.
PrepareFails ==
  /\ stage = "prepare" /\ Found("found") # {} /\ Fails
  /\ All(Members, "out") /\ stage' = "finish"
  /\ UNCHANGED <<admission, telegram, admin, allowed, schedule, lost>>

Prepared ==
  /\ stage = "prepare" /\ Found("found") = {}
  /\ stage' = IF Found("ready") = {} THEN "finish" ELSE "mute"
  /\ UNCHANGED <<admission, phase, telegram, admin, allowed, schedule, lost, faults>>

\* Before every mute: without the group everything is undone; a member whom the policy
\* no longer covers, or whose row is gone, is passed over (renew_if_still_enforceable).
Renew(m) ==
  /\ stage = "mute" /\ Idle /\ In(m, "ready")
  /\ IF ~allowed
       THEN /\ phase' = [n \in Members |-> CASE In(n, "ready") -> "undo" [] In(n, "muted") -> "abort"
                                             [] OTHER -> phase[n]]
            /\ stage' = "finish"
       ELSE To(m, IF ~exempt[m] /\ row[m] = "mine" THEN "calling" ELSE "undo") /\ UNCHANGED stage
  /\ UNCHANGED <<admission, telegram, admin, allowed, schedule, lost, faults>>

MuteCall(m) ==
  /\ In(m, "calling")
  /\ \/ Fine /\ Mute(m, TRUE) /\ To(m, "muted")
     \/ Fails /\ To(m, "abort") /\ \E b \in {muted[m], TRUE} : Mute(m, b)
  /\ UNCHANGED <<admission, stage, row, admin, allowed, schedule, lost>>

Muted ==
  /\ stage = "mute" /\ Idle /\ Found("ready") = {}
  /\ stage' = IF Found("muted") = {} THEN "finish" ELSE "renew"
  /\ UNCHANGED <<admission, phase, telegram, admin, allowed, schedule, lost, faults>>

\* A bug for the mutation runs: a member whose row is gone is left to whoever took it.
RenewChunkOnly ==
  /\ stage = "renew" /\ stage' = "warn"
  /\ All({m \in Found("muted") : row[m] # "mine"}, "out")
  /\ UNCHANGED <<admission, telegram, admin, allowed, schedule, lost, faults>>
\* renew_chunk
RenewChunk ==
  /\ stage = "renew" /\ stage' = "warn"
  /\ All({m \in Found("muted") : row[m] # "mine"}, "fix")
  /\ UNCHANGED <<admission, telegram, admin, allowed, schedule, lost, faults>>

Warn ==
  /\ stage = "warn" /\ Idle
  /\ \/ Fine /\ allowed /\ stage' = (IF Found("muted") = {} THEN "finish" ELSE "activate")
        /\ UNCHANGED phase
     \/ Fine /\ ~allowed /\ stage' = "finish" /\ All(Found("muted"), "abort")
     \/ Fails /\ allowed /\ stage' = "finish" /\ All(Found("muted"), "abort")
  /\ UNCHANGED <<admission, telegram, admin, allowed, schedule, lost>>

\* activate_chunk: a lease that has lapsed is not activated; a statement may fail.
Activate ==
  /\ stage = "activate" /\ stage' = "finish"
  /\ \E S \in SUBSET {m \in Found("muted") : allowed /\ row[m] = "mine"} :
       /\ row' = [m \in Members |-> IF m \in S THEN "live" ELSE row[m]]
       /\ phase' = [m \in Members |-> IF m \in S THEN "out" ELSE IF In(m, "muted") THEN "abort" ELSE phase[m]]
  /\ UNCHANGED <<admission, muted, admin, allowed, schedule, lost, faults>>

\* _PATROL_RUN_DEADLINE_SECONDS or the shutdown: every attempted member is given back.
Attempted == {m \in Members : phase[m] \in {"ready", "calling", "muted"}}
Cancel ==
  /\ stage \in {"mute", "warn"} /\ Fails /\ stage' = "leave" /\ All(Attempted, "abort")
  /\ \E S \in SUBSET Found("calling") : muted' = [m \in Members |-> muted[m] \/ m \in S]
  /\ UNCHANGED <<admission, row, admin, allowed, schedule, lost>>

-----------------------------------------------------------------------------
(* abort_one, reconcile_stale_verification_restriction *)

First(m) == \A n \in Members \ {m} : phase[n] \notin {"restore", "complete", "fixcall", "fixend", "fixagain"}

\* restore_permissions=False: the row goes, nothing was done on Telegram
Undo(m) ==
  /\ In(m, "undo") /\ To(m, "out") /\ IF row[m] = "mine" THEN Put(m, "none") ELSE UNCHANGED row
  /\ UNCHANGED <<admission, stage, muted, admin, allowed, schedule, lost, faults>>

Abort(m) ==
  /\ In(m, "abort") /\ First(m)
  /\ IF row[m] = "mine" THEN Put(m, "release") /\ To(m, "restore") ELSE To(m, "fix") /\ UNCHANGED row
  /\ UNCHANGED <<admission, stage, muted, admin, allowed, schedule, lost, faults>>

RestoreCall(m) ==
  /\ In(m, "restore")
  /\ \/ Fine /\ Mute(m, FALSE) /\ To(m, "complete")
     \/ Fails /\ To(m, "fix") /\ UNCHANGED muted
  /\ UNCHANGED <<admission, stage, row, admin, allowed, schedule, lost>>

Complete(m) ==
  /\ In(m, "complete")
  /\ IF row[m] = "release" THEN Put(m, "none") /\ To(m, "out") ELSE To(m, "fix") /\ UNCHANGED row
  /\ UNCHANGED <<admission, stage, muted, admin, allowed, schedule, lost, faults>>

\* The current row decides; without one, a row of its own is made before the call.
Fix(m) ==
  /\ In(m, "fix") /\ First(m)
  /\ \/ Fine /\ UNCHANGED lost
        /\ To(m, IF Governed(m) \/ row[m] = "repair" THEN "out" ELSE "fixcall")
        /\ IF row[m] = "none" THEN Put(m, "repair") ELSE UNCHANGED row
     \/ Fails /\ To(m, "out") /\ UNCHANGED row /\ lost' = lost \cup {m}
  /\ UNCHANGED <<admission, stage, muted, admin, allowed, schedule>>

FixCall(m) ==
  /\ In(m, "fixcall")
  /\ \/ Fine /\ Mute(m, FALSE) /\ To(m, "fixend") /\ UNCHANGED lost
     \/ Fails /\ To(m, "out") /\ UNCHANGED muted /\ lost' = lost \cup {m}
  /\ UNCHANGED <<admission, stage, row, admin, allowed, schedule>>

FixEnd(m) ==
  /\ In(m, "fixend") /\ To(m, "fixagain") /\ IF row[m] = "repair" THEN Put(m, "none") ELSE UNCHANGED row
  /\ UNCHANGED <<admission, stage, muted, admin, allowed, schedule, lost, faults>>

\* A challenge that came while the mute was lifted is put in force again (one step here).
FixAgain(m) ==
  /\ In(m, "fixagain") /\ To(m, "out") /\ Mute(m, muted[m] \/ Governed(m))
  /\ UNCHANGED <<admission, stage, row, admin, allowed, schedule, lost, faults>>

-----------------------------------------------------------------------------
(* The others *)

\* The exemption and its recovery row are one commit; then the mute is lifted.
Exempt(m) ==
  /\ ~exempt[m] /\ exempt' = [exempt EXCEPT ![m] = TRUE] /\ Put(m, "unban")
  /\ handler' = [handler EXCEPT ![m] = "restore"]
  /\ UNCHANGED <<admission, stage, phase, muted, allowed, schedule, lost, faults>>
ExemptRestore(m) ==
  /\ handler[m] = "restore"
  /\ \/ Fine /\ Mute(m, FALSE) /\ handler' = [handler EXCEPT ![m] = "complete"]
     \/ Fails /\ handler' = [handler EXCEPT ![m] = "off"] /\ UNCHANGED muted
  /\ UNCHANGED <<admission, stage, phase, row, exempt, allowed, schedule, lost>>
ExemptComplete(m) ==
  /\ handler[m] = "complete" /\ handler' = [handler EXCEPT ![m] = "off"]
  /\ IF row[m] = "unban" THEN Put(m, "none") ELSE UNCHANGED row
  /\ UNCHANGED <<admission, stage, phase, muted, exempt, allowed, schedule, lost, faults>>

\* Another challenge, and a passed one.
Challenged(m) ==
  /\ row[m] = "none" /\ ~exempt[m] /\ allowed /\ Put(m, "other") /\ Mute(m, TRUE)
  /\ UNCHANGED <<admission, stage, phase, admin, allowed, schedule, lost, faults>>
Passed(m) ==
  /\ row[m] \in {"live", "other"} /\ Put(m, "swept")
  /\ UNCHANGED <<admission, stage, phase, muted, admin, allowed, schedule, lost, faults>>

\* A lease nobody renews lapses: the sweeper gives the permissions back.
Lapsed(m) ==
  \/ row[m] \in {"mine", "repair"}
  \/ row[m] = "release" /\ phase[m] \notin {"restore", "complete"}
  \/ row[m] = "unban" /\ handler[m] = "off"
SweepTake(m) ==
  /\ allowed /\ Lapsed(m) /\ Put(m, "swept")
  /\ UNCHANGED <<admission, stage, phase, muted, admin, allowed, schedule, lost, faults>>
SweepRestore(m) ==
  /\ row[m] = "swept" /\ Mute(m, FALSE) /\ Put(m, "restored")
  /\ UNCHANGED <<admission, stage, phase, admin, allowed, schedule, lost, faults>>
SweepDrop(m) ==
  /\ row[m] = "restored" /\ Put(m, "none")
  /\ UNCHANGED <<admission, stage, phase, muted, admin, allowed, schedule, lost, faults>>

Instant ==
  /\ day < MaxDays /\ day' = day + 1
  /\ UNCHANGED <<admission, stage, phase, telegram, admin, allowed, last, started, covered, lost, faults>>
Deauthorize ==
  /\ allowed /\ Fails /\ allowed' = FALSE
  /\ UNCHANGED <<admission, stage, phase, telegram, admin, schedule, lost>>

Touched == {m \in Members : phase[m] \notin {"out", "found", "undo", "ready"}}
Crash ==
  /\ Fails /\ caller' = [c \in Callers |-> "off"] /\ reserved' = FALSE /\ busySlots' = 0
  /\ stage' = "off" /\ All(Members, "out") /\ handler' = [m \in Members |-> "off"]
  /\ lost' = lost \cup {m \in Touched : row[m] # "mine"}
  /\ \E S \in SUBSET Found("calling") : muted' = [m \in Members |-> muted[m] \/ m \in S]
  /\ UNCHANGED <<row, exempt, allowed, schedule>>

Run ==
  \/ StartManual \/ OtherGroups \/ Finish \/ LeaveRun
  \/ \E c \in Callers : Reserve(c) \/ Acquire(c) \/ NotAdmitted(c)
  \/ Scan \/ PrepareFails \/ Prepared \/ Muted \/ RenewChunk \/ Warn \/ Activate \/ Cancel

Member(m) ==
  \/ Prepare(m) \/ Renew(m) \/ MuteCall(m) \/ Undo(m) \/ Abort(m) \/ RestoreCall(m) \/ Complete(m)
  \/ Fix(m) \/ FixCall(m) \/ FixEnd(m) \/ FixAgain(m)
  \/ Exempt(m) \/ ExemptRestore(m) \/ ExemptComplete(m) \/ Challenged(m) \/ Passed(m)
  \/ SweepTake(m) \/ SweepRestore(m) \/ SweepDrop(m)

Next == Run \/ (\E m \in Members : Member(m)) \/ Instant \/ Deauthorize \/ Crash

Spec == Init /\ [][Next]_vars

-----------------------------------------------------------------------------
\* Once the run has let go of a member, nobody is muted without a row that says why or
\* that gives the permissions back, whatever took the row meanwhile: the exemption, a
\* pass, the sweeper.  Only a run that dies, or fails to look, between its mute and its
\* second look leaves one (_enforce_violators, reconcile_stale_verification_restriction).
NobodyLeftMuted ==
  \A m \in Members : muted[m] /\ In(m, "out") => row[m] # "none" \/ m \in lost

\* An exemption that was recorded is not followed by a challenge the patrol decided on
\* before it (policy_allows_candidate under the write intent).
ExemptUnchallenged == \A m \in Members : exempt[m] => row[m] \notin {"mine", "live"}

\* The day's patrol counts as done only by a completed run that began after its instant.
DayCovered == last <= covered
=============================================================================
