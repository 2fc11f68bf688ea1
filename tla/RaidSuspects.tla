---------------------------- MODULE RaidSuspects ----------------------------
(***************************************************************************)
(* One member of a group under lockdown, and the tasks of                  *)
(* bot/services/raid_guard.py that may act on him at once: the issuing of  *)
(* a challenge to those who joined before the raid was detected, the kick  *)
(* of each later join, and the bulk removal behind the prompt's button.    *)
(* They meet in the member's one row of join_verifications and its lease.  *)
(* What JoinVerification models in detail is one step here: the sweeper,   *)
(* a release (pass, /unban, approval) and a reconciliation.                *)
(***************************************************************************)
EXTENDS Naturals

CONSTANTS
  Issuer,            \* _activate_lockdown's task for this member
  Arrivals,          \* tasks of the joins during the lockdown
  Remover,           \* remove_raid_challenged_users
  Nobody,
  MaxSuspectFaults,  \* bound on calls that fail or whose outcome is unknown
  MaxSuspectCrashes

SuspectAssumption ==
  /\ Issuer # Remover /\ {Issuer, Remover} \cap Arrivals = {}
  /\ Nobody \notin Arrivals \cup {Issuer, Remover}
  /\ {MaxSuspectFaults, MaxSuspectCrashes} \subseteq Nat

VARIABLES
  record,     \* the row: status, kind, holder of its lease, lease lapsed
  suspect,    \* Telegram: present in the group, muted
  task,       \* [Tasks -> step]
  used,       \* the tasks that have run
  consumed,   \* history: the join was reported as dealt with, or left to another's row
  released,   \* history: he has been released since he joined
  bounced,    \* history: he came back while a task was at work on him, or a crash
              \* took a task that was about to repair
  suspectFaults, suspectCrashes

suspectVars == <<record, suspect, task, used, consumed, released, bounced, suspectFaults,
                 suspectCrashes>>

Tasks == Arrivals \cup {Issuer, Remover}
NoRecord == [st |-> "none", raid |-> FALSE, holder |-> Nobody, lapsed |-> FALSE]

TypeOK ==
  /\ record \in [st : {"none", "preparing", "pending", "enforcing"}, raid : BOOLEAN,
                 holder : Tasks \cup {Nobody}, lapsed : BOOLEAN]
  /\ suspect \in [present : BOOLEAN, muted : BOOLEAN]
  /\ task \in [Tasks -> {"off", "look", "mute", "call", "muted", "prompt", "activate", "abort", "drop",
                         "claim", "probe", "renew", "kick", "complete", "repair",
                         "ordinary"}]
  /\ used \subseteq Tasks
  /\ consumed \in {"no", "done", "trusted"} /\ released \in BOOLEAN /\ bounced \in BOOLEAN
  /\ suspectFaults \in 0..MaxSuspectFaults /\ suspectCrashes \in 0..MaxSuspectCrashes

-----------------------------------------------------------------------------
Init ==
  /\ record \in {NoRecord, [NoRecord EXCEPT !.st = "pending"]}
  /\ suspect = [present |-> TRUE, muted |-> record.st = "pending"]
  /\ task = [t \in Tasks |-> "off"] /\ used = {}
  /\ consumed = "no" /\ released = FALSE /\ bounced = FALSE
  /\ suspectFaults = 0 /\ suspectCrashes = 0

Fine  == UNCHANGED suspectFaults
Fault == suspectFaults < MaxSuspectFaults /\ suspectFaults' = suspectFaults + 1

At(t, s) == task[t] = s
Go(t, s) == task' = [task EXCEPT ![t] = s]
Quiet    == \A t \in Tasks : At(t, "off")
Holds(t) == record.holder = t

Start(t, s) == t \notin used /\ used' = used \cup {t} /\ Go(t, s)
Lease(st, t) == record' = [st |-> st, raid |-> TRUE, holder |-> t, lapsed |-> FALSE]
\* complete_leased_join_verification, or the deletion of a prepared row.
Drop(t) == IF Holds(t) THEN record' = NoRecord ELSE UNCHANGED record
Mute(m) == suspect' = [suspect EXCEPT !.muted = m]

-----------------------------------------------------------------------------
(* _challenge_suspects: prepare, mute, prompt, activate *)

\* _filter_suspects and the preparation: a member some row governs is left alone.
Prepare ==
  /\ Start(Issuer, "look")
  /\ IF record.st = "none" THEN Lease("preparing", Issuer) ELSE UNCHANGED record
  /\ UNCHANGED <<suspect, consumed, released, bounced, suspectFaults, suspectCrashes>>

\* Presence is read first; a row of a member who has left is dropped afterwards,
\* one whose presence is unknown is left to the sweeper.
Look ==
  /\ At(Issuer, "look")
  /\ \/ Fine /\ Go(Issuer, IF ~Holds(Issuer) THEN "off"
                           ELSE IF suspect.present THEN "mute" ELSE "drop")
     \/ Fault /\ Go(Issuer, "off")
  /\ UNCHANGED <<record, suspect, used, consumed, released, bounced, suspectCrashes>>

DropAbsent ==
  /\ At(Issuer, "drop") /\ Drop(Issuer) /\ Go(Issuer, "off")
  /\ UNCHANGED <<suspect, used, consumed, released, bounced, suspectFaults, suspectCrashes>>

\* The lease is renewed before the mute, and again after it.
RenewToMute ==
  /\ At(Issuer, "mute")
  /\ IF Holds(Issuer) THEN Go(Issuer, "call") /\ record' = [record EXCEPT !.lapsed = FALSE]
     ELSE Go(Issuer, "off") /\ UNCHANGED record
  /\ UNCHANGED <<suspect, used, consumed, released, bounced, suspectFaults, suspectCrashes>>

MuteOne ==
  /\ At(Issuer, "call")
  /\ \/ Fine /\ Go(Issuer, "muted") /\ Mute(TRUE)
     \/ Fault /\ Go(Issuer, "abort") /\ suspect' \in {suspect, [suspect EXCEPT !.muted = TRUE]}
  /\ UNCHANGED <<record, used, consumed, released, bounced, suspectCrashes>>

\* Mutant: a lost generation is somebody else's business.
RenewMutedOnly ==
  /\ At(Issuer, "muted") /\ Go(Issuer, IF Holds(Issuer) THEN "prompt" ELSE "off")
  /\ UNCHANGED <<record, suspect, used, consumed, released, bounced, suspectFaults,
                 suspectCrashes>>

\* A mute that lands for a lost generation is looked at again.
RenewMuted ==
  /\ At(Issuer, "muted")
  /\ IF Holds(Issuer) THEN Go(Issuer, "prompt") /\ record' = [record EXCEPT !.lapsed = FALSE]
     ELSE Go(Issuer, "repair") /\ UNCHANGED record
  /\ UNCHANGED <<suspect, used, consumed, released, bounced, suspectFaults, suspectCrashes>>

Prompt ==
  /\ At(Issuer, "prompt")
  /\ (Fine /\ Go(Issuer, "activate")) \/ (Fault /\ Go(Issuer, "abort"))
  /\ UNCHANGED <<record, suspect, used, consumed, released, bounced, suspectCrashes>>

Activate ==
  /\ At(Issuer, "activate")
  /\ IF Holds(Issuer)
     THEN record' = [record EXCEPT !.st = "pending", !.holder = Nobody] /\ Go(Issuer, "off")
     ELSE UNCHANGED record /\ Go(Issuer, "repair")
  /\ UNCHANGED <<suspect, used, consumed, released, bounced, suspectFaults, suspectCrashes>>

\* abort_one: the restriction is lifted and the row dropped, or the row stays.
Abort ==
  /\ At(Issuer, "abort")
  /\ \/ Holds(Issuer) /\ Fine /\ Drop(Issuer) /\ Mute(FALSE) /\ Go(Issuer, "off")
     \/ Holds(Issuer) /\ Fault /\ UNCHANGED <<record, suspect>> /\ Go(Issuer, "off")
     \/ ~Holds(Issuer) /\ Fine /\ UNCHANGED <<record, suspect>> /\ Go(Issuer, "repair")
  /\ UNCHANGED <<used, consumed, released, bounced, suspectCrashes>>

\* reconcile_stale_verification_restriction: a mute no row calls for is lifted.
Repair(t) ==
  /\ At(t, "repair") /\ Go(t, "off")
  /\ IF record.st = "none" THEN Mute(FALSE) ELSE UNCHANGED suspect
  /\ UNCHANGED <<record, used, consumed, released, bounced, suspectFaults, suspectCrashes>>

-----------------------------------------------------------------------------
(* _kick_lockdown_join_durably and remove_raid_challenged_users *)

Join(t) ==
  /\ t \in Arrivals /\ ~suspect.present /\ Start(t, "claim")
  /\ suspect' = [suspect EXCEPT !.present = TRUE]
  /\ consumed' = "no" /\ released' = FALSE /\ bounced' = ~Quiet
  /\ UNCHANGED <<record, suspectFaults, suspectCrashes>>

Leave ==
  /\ suspect.present /\ suspect' = [suspect EXCEPT !.present = FALSE]
  /\ UNCHANGED <<record, task, used, consumed, released, bounced, suspectFaults,
                 suspectCrashes>>

Claimable == record.raid /\ (record.st = "pending" \/ (record.st = "enforcing" /\ record.lapsed))
\* A join that is not consumed goes on to the ordinary verification.
PassOn(t)  == Go(t, IF t \in Arrivals THEN "ordinary" ELSE "off")
Consume(t) == IF t \in Arrivals THEN consumed' = "done" ELSE UNCHANGED consumed

\* Another kind of row goes on to its own pipeline; a raid row somebody is at
\* work on consumes the join.
ClaimKick(t) ==
  /\ At(t, "claim")
  /\ \/ /\ record.st = "none" \/ Claimable
        /\ Lease("enforcing", t) /\ Go(t, "probe") /\ UNCHANGED consumed
     \/ /\ record.st # "none" /\ ~record.raid
        /\ PassOn(t) /\ UNCHANGED <<record, consumed>>
     \/ /\ record.st # "none" /\ record.raid /\ ~Claimable
        /\ Go(t, "off") /\ consumed' = "trusted" /\ UNCHANGED record
  /\ UNCHANGED <<suspect, used, released, bounced, suspectFaults, suspectCrashes>>

\* An administrator's press of the button, one removal of a prompt at a time.
Pressed == Start(Remover, "renew")

\* Pending rows of the prompt, and enforcements left lying.
ClaimRemoval ==
  /\ Pressed /\ Claimable /\ Lease("enforcing", Remover)
  /\ UNCHANGED <<suspect, consumed, released, bounced, suspectFaults, suspectCrashes>>

Renewed(t, next) ==
  IF Holds(t) THEN Go(t, next) /\ record' = [record EXCEPT !.lapsed = FALSE] /\ UNCHANGED consumed
  ELSE Go(t, "off") /\ UNCHANGED record /\ Consume(t)

\* The kick looks at presence and then renews; the removal the other way round.
Renew(t) ==
  /\ At(t, "renew") /\ Renewed(t, IF t = Remover THEN "probe" ELSE "kick")
  /\ UNCHANGED <<suspect, used, released, bounced, suspectFaults, suspectCrashes>>

Probe(t) ==
  /\ At(t, "probe")
  /\ \/ Fine /\ Go(t, IF ~suspect.present THEN "drop" ELSE IF t = Remover THEN "kick" ELSE "renew")
     \/ Fault /\ PassOn(t)
  /\ UNCHANGED <<record, suspect, used, consumed, released, bounced, suspectCrashes>>

DropGone(t) ==
  /\ t # Issuer /\ At(t, "drop") /\ Drop(t) /\ Consume(t) /\ Go(t, "off")
  /\ UNCHANGED <<suspect, used, released, bounced, suspectFaults, suspectCrashes>>

\* Mutant: a kick that raises is taken for one that worked.
KickAssumed(t) ==
  /\ At(t, "kick") /\ Go(t, "complete")
  /\ \/ Fine /\ suspect' = [present |-> FALSE, muted |-> FALSE]
     \/ Fault /\ UNCHANGED suspect
  /\ UNCHANGED <<record, used, consumed, released, bounced, suspectCrashes>>

\* kick_member ends presence and restriction; a failed one may still land.
Kick(t) ==
  LET out == [present |-> FALSE, muted |-> FALSE]
  IN /\ At(t, "kick")
     /\ \/ Fine /\ suspect' = out /\ Go(t, "complete")
        \/ Fault /\ suspect' \in {suspect, out} /\ PassOn(t)
     /\ UNCHANGED <<record, used, consumed, released, bounced, suspectCrashes>>

CompleteKick(t) ==
  /\ At(t, "complete") /\ Drop(t) /\ Consume(t)
  /\ Go(t, IF ~Holds(t) /\ t # Remover THEN "repair" ELSE "off")
  /\ UNCHANGED <<suspect, used, released, bounced, suspectFaults, suspectCrashes>>

-----------------------------------------------------------------------------
(* The rest of the system *)

\* The ordinary pipeline challenges a member whom no row governs.
Ordinary(t) ==
  /\ At(t, "ordinary") /\ Go(t, "off")
  /\ IF record.st = "none" /\ suspect.present
     THEN record' = [NoRecord EXCEPT !.st = "pending"] /\ Mute(TRUE)
     ELSE UNCHANGED <<record, suspect>>
  /\ UNCHANGED <<used, consumed, released, bounced, suspectFaults, suspectCrashes>>

\* A pass, an approval or /unban: the row ends and the member may write.
Free ==
  /\ record.st # "none" /\ record' = NoRecord /\ Mute(FALSE) /\ released' = TRUE
  /\ UNCHANGED <<task, used, consumed, bounced, suspectFaults, suspectCrashes>>

LeaseLapses ==
  /\ record.st \in {"preparing", "enforcing"} /\ ~record.lapsed
  /\ record' = [record EXCEPT !.lapsed = TRUE]
  /\ IF record.holder # Nobody /\ task[record.holder] # "off" THEN Fault ELSE Fine
  /\ UNCHANGED <<suspect, task, used, consumed, released, bounced, suspectCrashes>>

\* The sweeper releases after a preparation and kicks for the rest; it looks at
\* the row again after its calls, so one step stands for it.
Sweep ==
  /\ record.lapsed \/ record.st = "pending"
  /\ record' = NoRecord
  /\ suspect' = [present |-> suspect.present /\ record.st = "preparing", muted |-> FALSE]
  /\ released' = (released \/ record.st = "preparing")
  /\ UNCHANGED <<task, used, consumed, bounced, suspectFaults, suspectCrashes>>

\* A crash takes every task; the update of a join is delivered again.
Crash ==
  /\ suspectCrashes < MaxSuspectCrashes /\ suspectCrashes' = suspectCrashes + 1
  /\ bounced' = (bounced \/ \E t \in Tasks : task[t] \in {"muted", "abort", "repair"} /\ ~Holds(t))
  /\ task' = [t \in Tasks |-> IF t \in Arrivals /\ task[t] # "off" THEN "claim" ELSE "off"]
  /\ UNCHANGED <<record, suspect, used, consumed, released, suspectFaults>>

Next ==
  \/ Prepare \/ Look \/ DropAbsent \/ RenewToMute \/ MuteOne \/ RenewMuted \/ Prompt \/ Activate \/ Abort
  \/ (\E t \in Tasks : \/ Repair(t) \/ Join(t) \/ ClaimKick(t) \/ Renew(t) \/ Probe(t)
                       \/ DropGone(t) \/ Kick(t) \/ CompleteKick(t) \/ Ordinary(t))
  \/ ClaimRemoval \/ Leave \/ Free \/ LeaseLapses \/ Sweep \/ Crash

Spec == Init /\ [][Next]_suspectVars

-----------------------------------------------------------------------------
(* Properties *)

\* Nobody is left muted for good: when no task is at work a muted member has a
\* row that will release or remove him (mute after prepare, reconcile after a
\* lost lease), unless he left and came back under a task's eyes.
NobodyLeftMuted ==
  Quiet /\ suspect.present /\ suspect.muted => record.st # "none" \/ bounced

\* A join its own task has dealt with is dealt with: the member is out, a row
\* governs him, or he was released since, unless he left and came back under a
\* task's eyes (the kick and its completion are conditional on the lease).
ConsumedGoverned ==
  Quiet /\ consumed = "done" /\ suspect.present /\ record.st = "none" => released \/ bounced

\* "A consumed join was either kicked (active lockdown) or challenged"
\* (raid_guard.py:2310).  The row of another task, on which a join has relied,
\* is dropped by that task when its mute fails or it saw the member absent.
ConsumedMeansChecked ==
  Quiet /\ consumed # "no" /\ suspect.present /\ record.st = "none" => released
=============================================================================
