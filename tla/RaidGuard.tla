------------------------------ MODULE RaidGuard ------------------------------
(***************************************************************************)
(* The lockdown of one group: class RaidGuardService of                    *)
(* bot/services/raid_guard.py.  A lockdown is automatic (detected, lives   *)
(* in memory only) or manual (an administrator's, persisted in the group's *)
(* settings and restored at startup).  Its status message is pinned, and   *)
(* every pin is entered in a ledger beside the persisted state before      *)
(* Telegram is called.  Enabling, disabling, expiry and activation hold    *)
(* the group's lifecycle lock; arming an automatic lockdown does not.      *)
(* Pins and unpins hold a lock of their own.  What a lockdown does to the  *)
(* members who join is in RaidSuspects.                                    *)
(***************************************************************************)
EXTENDS Naturals, FiniteSets

CONSTANTS
  MaxGens,        \* bound on lockdowns with a deadline
  MaxNotices,     \* bound on status messages sent
  MaxRaidFaults,  \* bound on calls and writes that fail or lose their answer
  MaxRaidCrashes

RaidAssumption ==
  {MaxGens, MaxNotices, MaxRaidFaults, MaxRaidCrashes} \subseteq Nat

VARIABLES
  lifecycle,   \* the holder of the lifecycle lock: step, source, pin wanted, message
  guard,       \* memory: armed lockdown, copy of the persisted state, status message, pins
  groupRow,    \* Group.settings: manual lockdown and ledger of pins
  notePins,    \* Telegram: the pinned status messages
  cleaner,     \* the pin cleanup task
  activating,  \* a detected raid waits for the lifecycle lock
  past,        \* deadlines that have passed
  gens, notices, raidFaults, raidCrashes,
  torn         \* history: a write of the manual state lost its answer

raidVars == <<lifecycle, guard, groupRow, notePins, cleaner, activating, past, gens, notices,
              raidFaults, raidCrashes, torn>>

Open == 0    \* a lockdown without a deadline
NoMsg == 0
Untils == Open .. MaxGens
Messages == NoMsg .. MaxNotices
NoState == [until |-> Open, msg |-> NoMsg, pin |-> FALSE, on |-> FALSE]
Manual(u, m, p) == [until |-> u, msg |-> m, pin |-> p, on |-> TRUE]
States == [until : Untils, msg : Messages, pin : BOOLEAN, on : BOOLEAN]
Free == [at |-> "free", by |-> "manual", pin |-> FALSE, msg |-> NoMsg, next |-> "free"]
Unarmed == [source |-> "none", until |-> Open, copy |-> NoState, status |-> NoMsg,
            intent |-> FALSE, owned |-> {}]

Steps == {"free", "publish", "send", "remember", "ledger", "pin", "unpin", "release",
          "unlock", "wait", "restore"}

TypeOK ==
  /\ lifecycle \in [at : Steps, by : {"manual", "automatic"}, pin : BOOLEAN, msg : Messages,
                    next : {"free", "send", "remember"}]
  /\ guard \in [source : {"none", "automatic", "manual"}, until : Untils, copy : States,
                status : Messages, intent : BOOLEAN, owned : SUBSET Messages]
  /\ groupRow \in [manual : States, ledger : SUBSET Messages]
  /\ notePins \subseteq Messages
  /\ cleaner \in [at : {"off", "later", "now", "unpin", "release"}, todo : SUBSET Messages,
                  msg : Messages]
  /\ activating \in BOOLEAN /\ torn \in BOOLEAN /\ past \subseteq 1..MaxGens
  /\ gens \in 0..MaxGens /\ notices \in 0..MaxNotices
  /\ raidFaults \in 0..MaxRaidFaults /\ raidCrashes \in 0..MaxRaidCrashes

-----------------------------------------------------------------------------
Idle == [at |-> "off", todo |-> {}, msg |-> NoMsg]

Init ==
  /\ lifecycle = Free /\ guard = Unarmed /\ groupRow = [manual |-> NoState, ledger |-> {}]
  /\ notePins = {} /\ cleaner = Idle /\ activating = FALSE /\ past = {}
  /\ gens = 0 /\ notices = 0 /\ raidFaults = 0 /\ raidCrashes = 0 /\ torn = FALSE

Fine  == UNCHANGED raidFaults
Fault == raidFaults < MaxRaidFaults /\ raidFaults' = raidFaults + 1

Step(s) == lifecycle.at = s
Go(s)   == lifecycle' = IF s = "free" THEN Free ELSE [lifecycle EXCEPT !.at = s]

Armed    == guard.source # "none"
Overdue  == Armed /\ guard.until \in past
\* lockdown_active: an overdue lockdown counts as over.
LockdownActive == Armed /\ ~Overdue

\* _update_persisted_manual_state, a compare-and-set on the stored value: a
\* write that raises may have been committed.
Persist(new) == groupRow' = [groupRow EXCEPT !.manual = new]
PersistLost(new) ==
  /\ Fault
  /\ \/ UNCHANGED <<groupRow, torn>>
     \/ Persist(new) /\ torn' = TRUE

\* _pin_cleanup_candidates: every pin but the active lockdown's own.
Candidates(g) ==
  g.owned \ (IF g.source # "none" /\ g.intent THEN {g.status} ELSE {})
\* _schedule_pin_cleanup, delayed or (a running pass is cancelled) at once.
Scheduled(g)   == IF cleaner.at = "off" /\ Candidates(g) # {}
                  THEN [Idle EXCEPT !.at = "later"] ELSE cleaner
Rescheduled(g) == IF Candidates(g) # {} THEN [Idle EXCEPT !.at = "now"] ELSE cleaner

-----------------------------------------------------------------------------
(* Arming *)

\* enable_manual_lockdown: saved first, then armed; a failed save arms nothing.
Enable(timed, pin) ==
  LET msg == IF guard.status # NoMsg THEN guard.status ELSE guard.copy.msg
      new == Manual(IF timed THEN gens + 1 ELSE Open, msg, pin)
  IN /\ Step("free")
     /\ IF timed THEN gens < MaxGens /\ gens' = gens + 1 ELSE UNCHANGED gens
     /\ \/ /\ Fine /\ Persist(new) /\ UNCHANGED torn
           /\ guard' = [guard EXCEPT !.source = "manual", !.until = new.until, !.copy = new,
                                     !.status = msg]
           /\ lifecycle' = [Free EXCEPT !.at = "publish", !.pin = pin]
        \/ PersistLost(new) /\ UNCHANGED <<guard, lifecycle>>
     /\ UNCHANGED <<notePins, cleaner, activating, past, notices, raidCrashes>>

\* Mutant: a manual lockdown that is overdue does not hold a raid back.
DetectAnyway ==
  /\ ~LockdownActive /\ gens < MaxGens /\ gens' = gens + 1 /\ activating' = TRUE
  /\ guard' = [guard EXCEPT !.source = "automatic", !.until = gens + 1, !.copy = NoState]
  /\ UNCHANGED <<lifecycle, groupRow, notePins, cleaner, past, notices, raidFaults,
                 raidCrashes, torn>>

\* handle_join: enough members have joined.  Armed at once, without the lock;
\* not while the expiry of a manual lockdown is still to be stored.
Detect ==
  /\ ~LockdownActive /\ guard.source # "manual"
  /\ gens < MaxGens /\ gens' = gens + 1 /\ activating' = TRUE
  /\ guard' = [guard EXCEPT !.source = "automatic", !.until = gens + 1, !.copy = NoState]
  /\ UNCHANGED <<lifecycle, groupRow, notePins, cleaner, past, notices, raidFaults,
                 raidCrashes, torn>>

\* _activate_lockdown, unless the lockdown has been ended or replaced meanwhile.
Activate(pin) ==
  /\ activating /\ Step("free") /\ activating' = FALSE
  /\ lifecycle' = IF guard.source = "automatic"
                  THEN [Free EXCEPT !.at = "publish", !.by = "automatic", !.pin = pin]
                  ELSE Free
  /\ UNCHANGED <<guard, groupRow, notePins, cleaner, past, gens, notices, raidFaults,
                 raidCrashes, torn>>

-----------------------------------------------------------------------------
(* _publish_lockdown_status, _remember_manual_status_message_locked *)

CleanerPins == cleaner.at \in {"unpin", "release"}
HolderPins  == lifecycle.at \in {"pin", "release"}

\* After the message: a manual lockdown stores its id before it pins it.
Following == IF lifecycle.by = "manual" THEN "remember"
             ELSE IF lifecycle.pin THEN "ledger" ELSE "free"

\* A tracked message is edited; one that can not be is given up and replaced.
PublishEdit ==
  /\ Step("publish") /\ guard.status # NoMsg /\ ~CleanerPins
  /\ \/ /\ Fine /\ guard' = [guard EXCEPT !.intent = lifecycle.pin]
        /\ IF guard.intent /\ ~lifecycle.pin
           THEN lifecycle' = [lifecycle EXCEPT !.at = "unpin", !.msg = guard.status,
                                               !.next = Following]
           ELSE Go(Following)
        /\ cleaner' = IF lifecycle.pin THEN cleaner ELSE Scheduled(guard')
     \/ /\ Fault /\ guard' = [guard EXCEPT !.status = NoMsg]
        /\ IF guard.intent
           THEN lifecycle' = [lifecycle EXCEPT !.at = "unpin", !.msg = guard.status,
                                               !.next = "send"]
           ELSE Go("send")
        /\ cleaner' = IF guard.intent THEN Scheduled(guard') ELSE cleaner
  /\ UNCHANGED <<groupRow, notePins, activating, past, gens, notices, raidCrashes, torn>>

PublishSend ==
  /\ Step("send") \/ (Step("publish") /\ guard.status = NoMsg)
  /\ \/ /\ Fine /\ notices < MaxNotices /\ notices' = notices + 1
        /\ guard' = [guard EXCEPT !.status = notices', !.intent = lifecycle.pin]
        /\ Go(Following)
     \/ /\ IF notices < MaxNotices THEN Fault ELSE Fine
        /\ Go("free") /\ UNCHANGED <<guard, notices>>
  /\ UNCHANGED <<groupRow, notePins, cleaner, activating, past, gens, raidCrashes, torn>>

Remember ==
  LET new == [guard.copy EXCEPT !.msg = guard.status]
      next == IF lifecycle.pin THEN "ledger" ELSE "free"
  IN /\ Step("remember")
     /\ \/ /\ guard.copy = new /\ Fine /\ Go(next) /\ UNCHANGED <<guard, groupRow, torn>>
        \/ /\ guard.copy # new /\ groupRow.manual = guard.copy
           /\ \/ /\ Fine /\ Persist(new) /\ guard' = [guard EXCEPT !.copy = new] /\ Go(next)
                 /\ UNCHANGED torn
              \/ PersistLost(new) /\ Go("free") /\ UNCHANGED guard
        \/ /\ guard.copy # new /\ groupRow.manual # guard.copy
           /\ Fine /\ Go("free") /\ UNCHANGED <<guard, groupRow, torn>>
     /\ UNCHANGED <<notePins, cleaner, activating, past, gens, notices, raidCrashes>>

-----------------------------------------------------------------------------
(* The ledger of pins *)

\* _update_persisted_pin_ownership; memory follows only a write that is known.
Ledger(new) ==
  \/ Fine /\ groupRow' = [groupRow EXCEPT !.ledger = new]
     /\ guard' = [guard EXCEPT !.owned = new]
  \/ Fault /\ groupRow' \in {groupRow, [groupRow EXCEPT !.ledger = new]} /\ UNCHANGED guard

\* _pin_status_message_locked: the ledger, then the pin.
EnterPin ==
  /\ Step("ledger") /\ ~CleanerPins
  /\ Ledger(groupRow.ledger \cup {guard.status})
  /\ Go(IF raidFaults' = raidFaults THEN "pin" ELSE "free")
  /\ UNCHANGED <<notePins, cleaner, activating, past, gens, notices, raidCrashes, torn>>

Pin ==
  /\ Step("pin") /\ Go("free")
  /\ \/ Fine /\ notePins' = notePins \cup {guard.status}
     \/ Fault /\ notePins' \in {notePins, notePins \cup {guard.status}}
  /\ UNCHANGED <<guard, groupRow, cleaner, activating, past, gens, notices, raidCrashes, torn>>

\* _unpin_status_message_locked by the holder of the lifecycle lock.
Unpin ==
  /\ Step("unpin") /\ ~CleanerPins
  /\ \/ Fine /\ notePins' = notePins \ {lifecycle.msg} /\ Go("release")
     \/ Fault /\ notePins' \in {notePins, notePins \ {lifecycle.msg}} /\ Go(lifecycle.next)
  /\ UNCHANGED <<guard, groupRow, cleaner, activating, past, gens, notices, raidCrashes, torn>>

Release ==
  /\ Step("release") /\ Ledger(groupRow.ledger \ {lifecycle.msg}) /\ Go(lifecycle.next)
  /\ cleaner' = Scheduled(guard')
  /\ UNCHANGED <<notePins, activating, past, gens, notices, raidCrashes, torn>>

\* The cleanup task: its candidates are read when it gets the pin lock.
CleanStart ==
  /\ cleaner.at \in {"later", "now"} /\ ~HolderPins
  /\ cleaner' = IF Candidates(guard) = {} THEN Idle
                ELSE [Idle EXCEPT !.at = "unpin", !.todo = Candidates(guard)]
  /\ UNCHANGED <<lifecycle, guard, groupRow, notePins, activating, past, gens, notices,
                 raidFaults, raidCrashes, torn>>

CleanNext(g, rest) ==
  IF rest # {} THEN [Idle EXCEPT !.at = "unpin", !.todo = rest]
  ELSE [Idle EXCEPT !.at = IF Candidates(g) = {} THEN "off" ELSE "later"]

\* Mutant: the ledger's entry goes with the attempt to unpin.
CleanUnpinForgetful(m) ==
  /\ cleaner.at = "unpin" /\ m \in cleaner.todo /\ Fault
  /\ cleaner' = [cleaner EXCEPT !.at = "release", !.msg = m]
  /\ UNCHANGED <<lifecycle, guard, groupRow, notePins, activating, past, gens, notices,
                 raidCrashes, torn>>

CleanUnpin(m) ==
  /\ cleaner.at = "unpin" /\ m \in cleaner.todo
  /\ \/ Fine /\ notePins' = notePins \ {m} /\ cleaner' = [cleaner EXCEPT !.at = "release", !.msg = m]
     \/ /\ Fault /\ notePins' \in {notePins, notePins \ {m}}
        /\ cleaner' = CleanNext(guard, cleaner.todo \ {m})
  /\ UNCHANGED <<lifecycle, guard, groupRow, activating, past, gens, notices, raidCrashes, torn>>

CleanRelease ==
  /\ cleaner.at = "release" /\ Ledger(groupRow.ledger \ {cleaner.msg})
  /\ cleaner' = CleanNext(guard', cleaner.todo \ {cleaner.msg})
  /\ UNCHANGED <<lifecycle, notePins, activating, past, gens, notices, raidCrashes, torn>>

-----------------------------------------------------------------------------
(* The end of a lockdown *)

\* _clear_lockdown
Cleared == [guard EXCEPT !.source = "none", !.until = Open, !.copy = NoState]

ToUnlock == lifecycle' = [Free EXCEPT !.at = "unlock"]

\* Mutant: the lockdown is over in memory although it is still stored.
EndLockdownAnyway ==
  /\ guard.source # "none" /\ guard' = Cleared /\ ToUnlock /\ UNCHANGED torn
  /\ \/ Fine /\ Persist(NoState)
     \/ Fault /\ UNCHANGED groupRow

\* A manual lockdown ends in the settings first.  A failed deletion changes
\* nothing and is tried again; a value that has changed leaves the notice to
\* whoever changed it.
EndLockdown ==
  \/ /\ guard.source = "automatic" /\ Fine /\ guard' = Cleared /\ ToUnlock
     /\ UNCHANGED <<groupRow, torn>>
  \/ /\ guard.source = "manual" /\ groupRow.manual = guard.copy
     /\ \/ Fine /\ Persist(NoState) /\ guard' = Cleared /\ ToUnlock /\ UNCHANGED torn
        \/ PersistLost(NoState) /\ UNCHANGED <<guard, lifecycle>>
  \/ /\ guard.source = "manual" /\ groupRow.manual # guard.copy
     /\ Fine /\ guard' = Cleared /\ UNCHANGED <<lifecycle, groupRow, torn>>

\* disable_manual_lockdown: a command, a button or the Mini App.
Disable ==
  /\ Step("free") /\ EndLockdown
  /\ UNCHANGED <<notePins, cleaner, activating, past, gens, notices, raidCrashes>>

\* _expire_lockdown: the timer, its retry, or a join that finds it overdue.
Expire ==
  /\ Step("free") /\ Overdue /\ EndLockdown
  /\ UNCHANGED <<notePins, cleaner, activating, past, gens, notices, raidCrashes>>

\* The time of a lockdown exceeds that of the bounded calls of an expiry.
DeadlinePasses(u) ==
  /\ u \in 1..gens \ past /\ past' = past \cup {u}
  /\ UNCHANGED <<lifecycle, guard, groupRow, notePins, cleaner, activating, gens, notices,
                 raidFaults, raidCrashes, torn>>

\* Mutant: nobody is asked to release the pin.
UnlockQuietly ==
  /\ Step("unlock") /\ Go("free")
  /\ guard' = [guard EXCEPT !.status = NoMsg, !.intent = FALSE]
  /\ UNCHANGED <<groupRow, notePins, cleaner, activating, past, gens, notices, raidFaults,
                 raidCrashes, torn>>

\* _send_unlock_notice: the message is let go of, and its pin handed to the
\* cleanup, whether or not it could be edited.
Unlock ==
  LET done == [guard EXCEPT !.status = NoMsg, !.intent = FALSE]
      orphan == guard.status # NoMsg /\ guard.intent /\ guard.status \notin guard.owned
      kept == [done EXCEPT !.owned = @ \cup {guard.status}]
  IN /\ Step("unlock")
     /\ \/ ~orphan /\ Fine /\ guard' = done /\ UNCHANGED groupRow
        \/ /\ orphan /\ Fine /\ guard' = kept
           /\ groupRow' = [groupRow EXCEPT !.ledger = @ \cup {guard.status}]
        \/ orphan /\ Fault /\ guard' = kept /\ UNCHANGED groupRow
     /\ cleaner' = Rescheduled(guard') /\ Go("wait")
     /\ UNCHANGED <<notePins, activating, past, gens, notices, raidCrashes, torn>>

AwaitCleanup ==
  /\ Step("wait") /\ cleaner.at \in {"off", "later"} /\ Go("free")
  /\ UNCHANGED <<guard, groupRow, notePins, cleaner, activating, past, gens, notices,
                 raidFaults, raidCrashes, torn>>

-----------------------------------------------------------------------------
(* Shutdown, crash and start *)

\* shutdown retires the pins nobody keeps as far as it gets; a crash, none.
Stop(retired) ==
  /\ raidCrashes < MaxRaidCrashes /\ raidCrashes' = raidCrashes + 1
  /\ retired \subseteq (guard.owned \ (IF guard.source = "manual" /\ guard.intent
                                       THEN {guard.status} ELSE {}))
  /\ notePins' = notePins \ retired
  /\ groupRow' = [groupRow EXCEPT !.ledger = @ \ retired]
  /\ guard' = Unarmed /\ cleaner' = Idle /\ activating' = FALSE
  /\ lifecycle' = [Free EXCEPT !.at = "restore"] /\ torn' = FALSE
  /\ UNCHANGED <<past, gens, notices, raidFaults>>

\* restore_manual_lockdowns, before the first update is handled.  An overdue
\* lockdown is armed to be expired.
Restore ==
  LET kept == groupRow.manual
  IN /\ Step("restore")
     /\ guard' = [Unarmed EXCEPT !.owned = groupRow.ledger, !.copy = kept, !.until = kept.until,
                     !.source = IF kept.on THEN "manual" ELSE "none",
                     !.status = kept.msg, !.intent = kept.pin]
     /\ Go(IF kept.on /\ kept.until \notin past /\ kept.pin /\ kept.msg # NoMsg
           THEN "ledger" ELSE "wait")
     /\ cleaner' = Rescheduled(guard')
     /\ UNCHANGED <<groupRow, notePins, activating, past, gens, notices, raidFaults,
                    raidCrashes, torn>>

-----------------------------------------------------------------------------
Publish == PublishEdit \/ PublishSend \/ Remember \/ EnterPin \/ Pin \/ Unpin \/ Release
Clean   == CleanStart \/ (\E m \in Messages : CleanUnpin(m)) \/ CleanRelease
Ending  == Unlock \/ AwaitCleanup

Next ==
  \/ \E timed, pin \in BOOLEAN : Enable(timed, pin)
  \/ Detect \/ (\E pin \in BOOLEAN : Activate(pin))
  \/ Publish \/ Clean \/ Disable \/ Expire \/ Ending
  \/ (\E u \in 1..MaxGens : DeadlinePasses(u))
  \/ (\E retired \in SUBSET Messages : Stop(retired)) \/ Restore

\* The tasks go on and the timers fire; nobody need enable or end a lockdown.
Fairness ==
  /\ WF_raidVars(Publish) /\ WF_raidVars(Clean) /\ WF_raidVars(Ending)
  /\ WF_raidVars(Restore) /\ SF_raidVars(Expire)

Spec == Init /\ [][Next]_raidVars /\ Fairness

-----------------------------------------------------------------------------
(* Properties *)

\* What is enforced is what survives a restart: outside a transition a manual
\* lockdown is in memory if and only if it is stored, with the same state
\* (persist before arm, delete before clear, no automatic over a manual one).
PersistedAgrees ==
  Step("free") /\ ~torn =>
    /\ groupRow.manual.on = (guard.source = "manual")
    /\ guard.source = "manual" => guard.copy = groupRow.manual

\* The same at the end of a lockdown, when the answer of a write has been lost:
\* "A competing expiry/disable already won the persisted transition"
\* (raid_guard.py:2143).  There need not be one, and the stored lockdown stays.
EndedMeansEnded ==
  [][guard.source = "manual" /\ guard'.source = "none" /\ raidCrashes' = raidCrashes
       => ~groupRow'.manual.on]_raidVars

\* Every pin that a crash could leave behind is in the durable ledger ("Never
\* issue an outcome-ambiguous pin that cannot be recovered", raid_guard.py:1520).
PinsInLedger == notePins \subseteq groupRow.ledger

\* A lockdown whose time is over ends for good, in memory and in the settings,
\* although deletions fail and the process restarts.
LockdownEnds ==
  \A u \in 1..MaxGens :
    (groupRow.manual.on /\ groupRow.manual.until = u /\ u \in past)
      ~> (groupRow.manual.until # u \/ torn)

\* The pin of a lockdown that is over does not stay.
PinsRetired ==
  \A m \in 1..MaxNotices :
    (m \in notePins /\ ~Armed) ~> (m \notin notePins \/ Armed \/ torn)
=============================================================================
