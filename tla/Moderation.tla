----------------------------- MODULE Moderation -----------------------------
(***************************************************************************)
(* Moderation of one member of one group (bot/handlers/group.py,           *)
(* bot/services/moderation.py): messages judged by the model while no      *)
(* transaction is open, the claim of a verdict against newer policy, the   *)
(* counted warning and the ban it may lead to, the replay of an update     *)
(* whose ban is unconfirmed, the buttons of a notice (ban, undo, exempt)   *)
(* and an /unban that takes no lock.                                       *)
(***************************************************************************)
EXTENDS Naturals, FiniteSets

CONSTANTS
  Hits,             \* messages of the member
  Button, Command,  \* an administrator's button, an administrator's /unban
  Unlocked, NoJournal,
  WarnThreshold, MaxRuleEdits, MaxPresses, MaxModFaults

ModerationAssumption ==
  /\ {MaxRuleEdits, MaxPresses, MaxModFaults} \subseteq Nat
  /\ WarnThreshold \in Nat \ {0} /\ IsFiniteSet(Hits)
  /\ Button # Command /\ {Button, Command, Unlocked, NoJournal} \cap Hits = {}
  /\ {Button, Command} \cap {Unlocked, NoJournal} = {}

VARIABLES
  rulesVersion,     \* fingerprint of the enabled rules
  exempted,         \* ModerationExemption row
  step,             \* where each actor is
  verdict,          \* verdict in the hands of a message's handler; history: older than an /unban
  row,              \* Violation rows, by source message
  ledger,           \* message -> the id of its row, 0 before it has one
  warning,          \* UserWarning
  userLock,         \* lock of the member
  chatBan,          \* banned on Telegram
  journal,          \* the "unbanning" row that makes a sweeper reconcile, by lessee
  restoring,        \* manual-unban generation of this process
  target,           \* the row the button acts on
  snapshot,         \* UserWarning as /unban read it
  audits,           \* history: "succeeded" entries per row
  epoch,            \* history: periods of warnings begun
  raced,            \* history: somebody banned between the call and the end of an /unban
  presses, modFaults

moderationVars == <<rulesVersion, exempted, step, verdict, row, ledger, warning, userLock,
                    chatBan, journal, restoring, target, snapshot, audits, epoch, raced, presses, modFaults>>

Enforcing == Hits \cup {Button}
Actors    == Enforcing \cup {Command}
NoRow     == [base |-> "none", enforced |-> "null", direct |-> FALSE, reverted |-> FALSE,
              notice |-> FALSE, epoch |-> 0]
NoVerdict == [hit |-> "none", rules |-> 0, stale |-> FALSE]
Counted   == {"ban_warning", "ban_applied"}
Steps     == {"new", "judged", "enforce", "placed", "again", "placed2", "notify", "retry",
              "lift", "release", "called", "done"}

TypeOK ==
  /\ rulesVersion \in 0..MaxRuleEdits /\ exempted \in BOOLEAN
  /\ step \in [Actors -> Steps]
  /\ verdict \in [Hits -> [hit : {"none", "warn", "ban"}, rules : 0..MaxRuleEdits,
                           stale : BOOLEAN]]
  /\ row \in [Hits -> [base : {"none", "warn"} \cup Counted, enforced : {"null", "false", "true"},
                       direct : BOOLEAN, reverted : BOOLEAN, notice : BOOLEAN,
                       epoch : 0..MaxPresses]]
  /\ ledger \in [Hits -> 0..Cardinality(Hits)]
  /\ warning \in [count : 0..Cardinality(Hits), banned : BOOLEAN]
  /\ userLock \in Enforcing \cup {Unlocked} /\ chatBan \in BOOLEAN
  /\ journal \in Actors \cup {NoJournal} /\ restoring \in BOOLEAN
  /\ target \in Hits \cup {Unlocked}
  /\ snapshot \in [count : 0..Cardinality(Hits), banned : BOOLEAN]
  /\ audits \in [Hits -> Nat] /\ epoch \in 0..MaxPresses /\ raced \in BOOLEAN
  /\ presses \in 0..MaxPresses /\ modFaults \in 0..MaxModFaults

Init ==
  /\ rulesVersion = 0 /\ exempted = FALSE
  /\ \E S \in SUBSET Hits : step = [a \in Actors |-> IF a \in S THEN "new" ELSE "done"]
  /\ verdict = [m \in Hits |-> NoVerdict] /\ row = [m \in Hits |-> NoRow]
  /\ ledger = [m \in Hits |-> 0]
  /\ warning = [count |-> 0, banned |-> FALSE]
  /\ userLock = Unlocked /\ chatBan = FALSE /\ journal = NoJournal /\ restoring = FALSE
  /\ target = Unlocked /\ snapshot = warning /\ audits = [m \in Hits |-> 0] /\ epoch = 0 /\ raced = FALSE
  /\ presses = 0 /\ modFaults = 0

At(a, s)  == step[a] = s
Goto(a, s) == step' = [step EXCEPT ![a] = s]
Fine  == UNCHANGED modFaults
Fault == modFaults < MaxModFaults /\ modFaults' = modFaults + 1

-----------------------------------------------------------------------------
(* A message *)

\* make_verdict
Stamped(hit) == [hit |-> hit, rules |-> rulesVersion, stale |-> FALSE]

\* The verdict carries the rules it was made under; a clean one ends here.  A
\* message that comes back is found clean or under the same kind of rule.
Judge(m, hit) ==
  /\ At(m, "new") /\ (row[m].base = "warn" => hit # "ban")
  /\ IF exempted \/ hit = "clean" THEN Goto(m, "done") /\ UNCHANGED verdict
     ELSE /\ Goto(m, "judged")
          /\ verdict' = [verdict EXCEPT ![m] = Stamped(hit)]
  /\ UNCHANGED <<rulesVersion, exempted, row, ledger, warning, userLock, chatBan, journal,
                 restoring, target, snapshot, audits, epoch, raced, presses, modFaults>>

CurrentNoMarker(m) == ~exempted /\ verdict[m].rules = rulesVersion

\* Under the write intent of the group's settings.
Current(m) == ~restoring /\ ~exempted /\ verdict[m].rules = rulesVersion

Recorded(m) == ledger[m] # 0
\* record_violation: ids are given in order
NextId == 1 + Cardinality({m \in Hits : Recorded(m)})

CountsUnenforced(m) == row[m].base = "none" \/ row[m].enforced = "false"

\* One warning more, unless the message has its own already.
Counts(m) == row[m].base \notin Counted

Claim(m) ==
  LET count == IF Counts(m) THEN warning.count + 1 ELSE warning.count
      bans  == IF Counts(m) THEN count >= WarnThreshold \/ warning.banned
               ELSE row[m].base = "ban_applied"
      base  == IF verdict[m].hit = "warn" THEN (IF Recorded(m) THEN row[m].base ELSE "warn")
               ELSE IF bans THEN "ban_applied" ELSE "ban_warning"
      works == verdict[m].hit = "ban" /\ bans /\ row[m].enforced # "true"
  IN
  /\ At(m, "judged") /\ userLock = Unlocked
  /\ verdict' = [verdict EXCEPT ![m] = NoVerdict]
  /\ IF ~Current(m) THEN Goto(m, "done") /\ UNCHANGED <<row, ledger, warning, userLock, journal>>
     ELSE /\ row' = [row EXCEPT ![m] = IF verdict[m].hit = "ban" /\ Counts(m)
                                      THEN [@ EXCEPT !.base = base, !.epoch = epoch,
                                                     !.direct = FALSE, !.reverted = FALSE]
                                      ELSE [@ EXCEPT !.base = base]]
          /\ ledger' = IF Recorded(m) THEN ledger ELSE [ledger EXCEPT ![m] = NextId]
          /\ warning' = IF verdict[m].hit = "ban" /\ Counts(m)
                        THEN [count |-> count, banned |-> bans] ELSE warning
          /\ journal' = IF works THEN m ELSE journal
          /\ Goto(m, IF works THEN "enforce" ELSE "notify")
          /\ userLock' = IF works \/ verdict[m].hit = "warn" THEN m ELSE Unlocked
  /\ UNCHANGED <<rulesVersion, exempted, chatBan, restoring, target, snapshot, audits, epoch, raced, presses,
                 modFaults>>

-----------------------------------------------------------------------------
(* Enforcement of a ban, by a message or by the button *)

Subject(a) == IF a = Button THEN target ELSE a
Finished(a) == IF a = Button THEN "done" ELSE "notify"
Freed(a) == IF userLock = a THEN Unlocked ELSE userLock

Keep == UNCHANGED <<rulesVersion, exempted, verdict, ledger, restoring, target, snapshot, epoch, raced, presses>>

\* Telegram is made to match the policy read last; a newer policy that lets the
\* member go ends the attempt with nothing recorded.
Place(a) ==
  /\ \/ At(a, "enforce") /\ Goto(a, IF warning.banned THEN "placed" ELSE Finished(a))
     \/ At(a, "again") /\ Goto(a, IF warning.banned THEN "placed2" ELSE Finished(a))
  /\ chatBan' = warning.banned /\ userLock' = IF warning.banned THEN userLock ELSE Freed(a)
  /\ UNCHANGED <<row, warning, journal, audits, modFaults>> /\ Keep

\* The call fails, with effect or without: NULL becomes FALSE; a retryable
\* failure makes the update come back.
PlaceFails(a, after, retryable) ==
  LET m == Subject(a) IN
  /\ At(a, "enforce") \/ At(a, "again")
  /\ Fault /\ chatBan' = after /\ after \in {chatBan, warning.banned}
  /\ row' = [row EXCEPT ![m].enforced = IF @ = "null" THEN "false" ELSE @]
  /\ Goto(a, IF retryable THEN "retry" ELSE Finished(a)) /\ userLock' = Freed(a)
  /\ UNCHANGED <<warning, journal, audits>> /\ Keep

\* A lessee that lost its journal enforces once more.
Lost(a) ==
  /\ At(a, "placed") /\ journal # a
  /\ Goto(a, "again")
  /\ UNCHANGED <<row, warning, userLock, chatBan, journal, audits, modFaults>> /\ Keep

\* The result, the audit entry and the end of the journal are one commit.
Persist(a) ==
  LET m == Subject(a) IN
  /\ (At(a, "placed") /\ journal = a) \/ At(a, "placed2")
  /\ Goto(a, Finished(a)) /\ userLock' = Freed(a)
  /\ row' = [row EXCEPT ![m].enforced = "true"]
  /\ audits' = [audits EXCEPT ![m] = IF row[m].enforced = "true" THEN @ ELSE @ + 1]
  /\ journal' = IF At(a, "placed") THEN NoJournal ELSE journal
  /\ UNCHANGED <<warning, chatBan, modFaults>> /\ Keep

PersistFails(a) ==
  /\ (At(a, "placed") /\ journal = a) \/ At(a, "placed2")
  /\ Fault /\ Goto(a, "retry") /\ userLock' = Freed(a)
  /\ UNCHANGED <<row, warning, chatBan, journal, audits>> /\ Keep

\* The notice is sent and marked; then a retry puts the update back.
Notice(m) ==
  /\ m \in Hits /\ (At(m, "notify") \/ At(m, "retry")) /\ userLock \in {Unlocked, m}
  /\ row' = [row EXCEPT ![m].notice = TRUE]
  /\ Goto(m, IF At(m, "retry") THEN "new" ELSE "done") /\ userLock' = Freed(m)
  /\ UNCHANGED <<warning, chatBan, journal, audits, modFaults>> /\ Keep

-----------------------------------------------------------------------------
(* The buttons of a notice; the lock is held until the outcome *)

Pressed(m) ==
  /\ userLock = Unlocked /\ row[m].notice
  /\ \/ At(Button, "done") /\ presses < MaxPresses /\ presses' = presses + 1
     \/ At(Button, "retry") /\ target = m /\ row[m].direct /\ UNCHANGED presses

KeepPress == UNCHANGED <<rulesVersion, verdict, ledger, snapshot, audits, epoch, raced, modFaults>>

\* Marker, flag and journal are committed before Telegram; a repetition finds
\* the marker and tries Telegram again.
Direct(m) ==
  /\ Pressed(m) /\ ~(row[m].direct /\ row[m].enforced = "true")
  /\ row' = [row EXCEPT ![m].direct = TRUE]
  /\ warning' = IF row[m].direct THEN warning ELSE [warning EXCEPT !.banned = TRUE]
  /\ journal' = Button /\ target' = m /\ userLock' = Button /\ Goto(Button, "enforce")
  /\ UNCHANGED <<exempted, chatBan, restoring>> /\ KeepPress

\* activate_manual_unban_recovery
ActivateRecovery == restoring' = TRUE

\* The counted rows that stand, and the n newest of them.
Live      == {m \in Hits : row[m].base \in Counted /\ ~row[m].reverted}
Newer(m)  == {n \in Live : ledger[n] > ledger[m]}
Newest(n) == {m \in Live : Cardinality(Newer(m)) < n}

\* active_counted_ids: as many as the warning counts
Active == Newest(warning.count)
InPeriod(m) == warning.count > 0 /\ Cardinality(Active) = warning.count /\ m \in Active

\* A direct ban on a row of the period keeps the member banned; m itself is
\* still unmarked when the rows are read.
DirectlyBanned ==
  \E n \in Hits : /\ row[n].direct /\ ~row[n].reverted
                  /\ \E m \in Active : ledger[n] >= ledger[m]

Undo(m) ==
  LET count    == warning.count - 1
      restores == /\ row[m].base = "ban_applied" /\ warning.banned /\ count < WarnThreshold
                  /\ ~DirectlyBanned
  IN
  /\ Pressed(m) /\ At(Button, "done") /\ ~row[m].reverted
  /\ row' = [row EXCEPT ![m].reverted = TRUE] /\ target' = m
  /\ IF row[m].base \in Counted /\ InPeriod(m)
     THEN /\ warning' = [count |-> count, banned |-> warning.banned /\ ~restores]
          /\ IF restores
             THEN /\ journal' = Button /\ ActivateRecovery /\ userLock' = Button
                  /\ Goto(Button, "lift")
             ELSE Goto(Button, "done") /\ UNCHANGED <<journal, restoring, userLock>>
     ELSE Goto(Button, "done") /\ UNCHANGED <<warning, journal, restoring, userLock>>
  /\ UNCHANGED <<exempted, chatBan>> /\ KeepPress

LiftCompletes(done) ==
  /\ At(Button, "lift") /\ Goto(Button, "done") /\ userLock' = Unlocked
  /\ \/ done /\ Fine /\ chatBan' = (warning.banned /\ chatBan)
     \/ ~done /\ Fault /\ UNCHANGED chatBan
  /\ journal' = IF journal = Button THEN NoJournal ELSE journal
  /\ UNCHANGED <<row, warning, audits>> /\ Keep

\* unban_member asks the policy first; the journal is left to the sweeper.
Lift(done) ==
  /\ At(Button, "lift") /\ Goto(Button, "done") /\ userLock' = Unlocked
  /\ \/ done /\ Fine /\ chatBan' = (warning.banned /\ chatBan)
     \/ ~done /\ Fault /\ UNCHANGED chatBan
  /\ UNCHANGED <<row, warning, journal, audits>> /\ Keep

Exempt(m) ==
  /\ Pressed(m) /\ At(Button, "done") /\ exempted' = TRUE
  /\ journal' = Button /\ ActivateRecovery /\ target' = m /\ userLock' = Button
  /\ Goto(Button, "release")
  /\ UNCHANGED <<row, warning, chatBan>> /\ KeepPress

\* The old restriction is retired unless a ban is in force; a lost journal is
\* reconciled by the same rule.
Release(done) ==
  /\ At(Button, "release") /\ Goto(Button, "done") /\ userLock' = Unlocked
  /\ \/ done /\ Fine /\ chatBan' = warning.banned
             /\ journal' = IF journal = Button THEN NoJournal ELSE journal
     \/ ~done /\ Fault /\ UNCHANGED <<chatBan, journal>>
  /\ UNCHANGED <<row, warning, audits>> /\ Keep

-----------------------------------------------------------------------------
(* /unban: journal and marker first, then Telegram, then the row it had read *)

KeepCommand == UNCHANGED <<rulesVersion, exempted, row, ledger, userLock, target, audits>>

UnbanStart ==
  /\ At(Command, "done") /\ presses < MaxPresses /\ presses' = presses + 1
  /\ Goto(Command, "called")
  /\ snapshot' = warning /\ journal' = Command /\ ActivateRecovery
  /\ verdict' = [m \in Hits |-> [verdict[m] EXCEPT !.stale = At(m, "judged")]]
  /\ UNCHANGED <<warning, chatBan, epoch, raced, modFaults>> /\ KeepCommand

UnbanCall(done) ==
  /\ At(Command, "called")
  /\ \/ done /\ Fine /\ chatBan' = FALSE /\ Goto(Command, "lift")
     \/ ~done /\ Fault /\ UNCHANGED chatBan /\ Goto(Command, "done")
  /\ UNCHANGED <<verdict, warning, snapshot, journal, restoring, epoch, raced, presses>> /\ KeepCommand

\* A row that changed meanwhile is kept, with its ban.  Else the permissions are
\* restored, which Telegram refuses for a banned member, and the journal ends;
\* or the sweeper finishes.
UnbanEnd(restored) ==
  /\ At(Command, "lift") /\ Goto(Command, "done")
  /\ \/ /\ warning = snapshot
        /\ warning' = [count |-> 0, banned |-> FALSE] /\ epoch' = epoch + 1
        /\ raced' = (raced \/ chatBan)
        /\ (restored /\ ~chatBan /\ Fine) \/ (~restored /\ chatBan /\ Fine)
           \/ (~restored /\ ~chatBan /\ Fault)
        /\ journal' = IF restored /\ journal = Command THEN NoJournal ELSE journal
        /\ UNCHANGED chatBan
     \/ /\ warning # snapshot /\ ~restored
        /\ \/ Fine /\ chatBan' = (chatBan \/ warning.banned)
           \/ warning.banned /\ Fault /\ UNCHANGED chatBan
        /\ UNCHANGED <<warning, epoch, raced, journal>>
  /\ UNCHANGED <<verdict, snapshot, restoring, presses>> /\ KeepCommand

-----------------------------------------------------------------------------
(* Surroundings *)

\* The sweeper makes Telegram match the policy and ends the journal.  The lease
\* outlasts the bounded calls of its lessee.
Running(a) == step[a] \in {"enforce", "placed", "again", "placed2", "lift", "release", "called"}
Sweep ==
  /\ journal # NoJournal /\ ~Running(journal) /\ chatBan' = warning.banned /\ journal' = NoJournal
  /\ UNCHANGED <<step, row, warning, userLock, audits, modFaults>> /\ Keep /\ UNCHANGED presses

\* The marker outlasts the verdicts that were under way.
MarkerExpires ==
  /\ restoring /\ \A m \in Hits : ~At(m, "judged")
  /\ restoring' = FALSE
  /\ UNCHANGED <<rulesVersion, exempted, step, verdict, row, ledger, warning, userLock, chatBan,
                 journal, target, snapshot, audits, epoch, raced, presses, modFaults>>

EditRules ==
  /\ rulesVersion < MaxRuleEdits /\ rulesVersion' = rulesVersion + 1
  /\ UNCHANGED <<exempted, step, verdict, row, ledger, warning, userLock, chatBan, journal,
                 restoring, target, snapshot, audits, epoch, raced, presses, modFaults>>

\* Unfinished updates come back; a button and a command do not act again by
\* themselves beyond what their updates repeat.
CrashModeration ==
  /\ Fault
  /\ step' = [a \in Actors |-> IF At(a, "done") \/ At(a, "new") THEN step[a]
                               ELSE IF a \in Hits THEN "new" ELSE "done"]
  /\ verdict' = [m \in Hits |-> NoVerdict]
  /\ userLock' = Unlocked /\ restoring' = FALSE
  /\ UNCHANGED <<rulesVersion, exempted, row, ledger, warning, chatBan, journal, target, snapshot,
                 audits, epoch, raced, presses>>

Handle(m) ==
  \/ \E hit \in {"clean", "warn", "ban"} : Judge(m, hit)
  \/ Claim(m) \/ (Notice(m) /\ UNCHANGED presses)

Enforce(a) ==
  /\ UNCHANGED presses
  /\ \/ Place(a) \/ Lost(a) \/ Persist(a) \/ PersistFails(a)
     \/ \E after, retryable \in BOOLEAN : PlaceFails(a, after, retryable)

Press ==
  \/ \E m \in Hits : Direct(m) \/ Undo(m) \/ Exempt(m)
  \/ \E done \in BOOLEAN : (Lift(done) \/ Release(done)) /\ UNCHANGED presses

Unban == UnbanStart \/ (\E ok \in BOOLEAN : UnbanCall(ok) \/ UnbanEnd(ok))

Next ==
  \/ \E m \in Hits : Handle(m)
  \/ \E a \in Enforcing : Enforce(a)
  \/ Press \/ Unban \/ Sweep \/ MarkerExpires \/ EditRules \/ CrashModeration

\* The inbox runs its updates, the tasks their operations, the sweeper returns.
Fairness ==
  /\ \A m \in Hits : WF_moderationVars(Handle(m))
  /\ \A a \in Enforcing : WF_moderationVars(Enforce(a))
  /\ WF_moderationVars(Press /\ presses' = presses) /\ WF_moderationVars(Sweep)
  /\ WF_moderationVars(Unban /\ presses' = presses)

Spec == Init /\ [][Next]_moderationVars /\ Fairness

-----------------------------------------------------------------------------
(* Properties *)

\* The counter is what the rows of the present period say: every message is
\* counted once however often its update came back, an undo takes back its own
\* warning and no other, and rows from before an /unban count no more.
CountsAgree == warning.count = Cardinality({m \in Live : row[m].epoch = epoch})

\* Nobody stays banned on Telegram against the recorded policy: a journal is there for the
\* sweeper.  (The opposite, a ban of the policy that is missing on Telegram, is made good
\* by the next message of the member.)
NobodyKeptBanned == chatBan /\ ~warning.banned /\ ~raced => journal # NoJournal

\* A ban is entered once in the ledger of bans, and exactly when it is recorded
\* as enforced.
AuditedOnce == \A m \in Hits : audits[m] = IF row[m].enforced = "true" THEN 1 ELSE 0

\* Nothing is recorded on a verdict from before an /unban, an exemption or a
\* change of the rules.
VerdictsCurrent ==
  [][\A m \in Hits : row'[m].base # row[m].base =>
        ~verdict[m].stale /\ ~exempted /\ verdict[m].rules = rulesVersion]_moderationVars

\* Every message is dealt with, no journal is left and nobody is left banned
\* against the policy.
MemberSettles ==
  <>[](/\ \A m \in Hits : At(m, "done")
       /\ journal = NoJournal /\ (chatBan => warning.banned \/ raced))

\* handlers/admin.py:1751, 1766: any policy change during the network call of an
\* /unban is seen by its comparison; Telegram and the registry are not split.
LiftIsDue ==
  \/ journal # NoJournal \/ At(Command, "lift")
  \/ \E a \in Enforcing : step[a] \in {"enforce", "placed", "again", "lift", "release"}
UnbanLeavesNoSplit == chatBan /\ ~warning.banned => LiftIsDue

\* handlers/group.py:2095: a direct ban on a row of the active period is not
\* lifted by undoing another one.
DirectBanStays ==
  [][\A m, n \in Hits :
        m # n /\ row[n].direct /\ ~row[n].reverted /\ row[n].epoch = epoch /\ warning.banned
        /\ row'[m].reverted /\ ~row[m].reverted
          => warning'.banned]_moderationVars
=============================================================================
