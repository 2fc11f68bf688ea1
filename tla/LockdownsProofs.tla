-------------------------- MODULE LockdownsProofs --------------------------
(***************************************************************************)
(* Theorems about lockdowns and the members they suspect, for any number of *)
(* lockdowns, status messages, arrivals, failed calls and restarts.         *)
(***************************************************************************)
EXTENDS Enforcement, TLAPS

-----------------------------------------------------------------------------
(* One lockdown: RaidGuard *)

Holder  == [at : R!Steps, by : {"manual", "automatic"}, pin : BOOLEAN, msg : R!Messages,
            next : {"free", "send", "remember"}]
Guard   == [source : {"none", "automatic", "manual"}, until : R!Untils, copy : R!States,
            status : R!Messages, intent : BOOLEAN, owned : SUBSET R!Messages]
Row     == [manual : R!States, ledger : SUBSET R!Messages]
Cleaner == [at : {"off", "later", "now", "unpin", "release"}, todo : SUBSET R!Messages,
            msg : R!Messages]

\* The type invariant, with its records named.
Typed ==
  /\ lifecycle \in Holder /\ guard \in Guard /\ groupRow \in Row
  /\ notePins \subseteq R!Messages /\ cleaner \in Cleaner
  /\ activating \in BOOLEAN /\ torn \in BOOLEAN /\ past \subseteq 1..MaxGens
  /\ gens \in 0..MaxGens /\ notices \in 0..MaxNotices
  /\ raidFaults \in 0..MaxRaidFaults /\ raidCrashes \in 0..MaxRaidCrashes

\* One of the two pins or unpins at a time.
PinLock == ~R!HolderPins \/ ~R!CleanerPins

\* What is about to be pinned is in the ledger; what is about to leave it is not pinned.
LedgerFirst ==
  /\ R!Step("pin") => guard.status \in groupRow.ledger
  /\ R!Step("release") => lifecycle.msg \notin notePins
  /\ cleaner.at = "release" => cleaner.msg \notin notePins

\* Once a process has restored its state it agrees with what is stored.
Agreed ==
  ~R!Step("restore") /\ ~torn =>
    /\ groupRow.manual.on = (guard.source = "manual")
    /\ guard.source = "manual" => guard.copy = groupRow.manual

\* The inductive invariant.
RaidInv == Typed /\ PinLock /\ LedgerFirst /\ R!PinsInLedger /\ Agreed

-----------------------------------------------------------------------------
(* Types *)

\* It is the component's type invariant.
LEMMA TypeParts == R!TypeOK <=> Typed
  BY DEF R!TypeOK, Typed, Holder, Guard, Row, Cleaner

\* The constants of the module are of their types.
LEMMA Blanks ==
  ASSUME R!RaidAssumption
  PROVE  /\ MaxGens \in Nat /\ MaxNotices \in Nat /\ MaxRaidFaults \in Nat
             /\ MaxRaidCrashes \in Nat
         /\ R!NoMsg \in R!Messages /\ R!Open \in R!Untils /\ R!NoState \in R!States
             /\ ~R!NoState.on
         /\ R!Free \in Holder /\ R!Unarmed \in Guard /\ R!Idle \in Cleaner
<1>1. /\ MaxGens \in Nat /\ MaxNotices \in Nat /\ MaxRaidFaults \in Nat
          /\ MaxRaidCrashes \in Nat
  BY DEF R!RaidAssumption
<1>2. R!NoMsg \in R!Messages /\ R!Open \in R!Untils
  BY <1>1 DEF R!NoMsg, R!Messages, R!Open, R!Untils
<1>3. R!NoState \in R!States /\ ~R!NoState.on  BY <1>2 DEF R!NoState, R!States
<1>4. R!Free \in Holder  BY <1>2 DEF R!Free, Holder, R!Steps
<1>5. R!Unarmed \in Guard  BY <1>2, <1>3 DEF R!Unarmed, Guard
<1>6. R!Idle \in Cleaner  BY <1>2 DEF R!Idle, Cleaner
<1>7. QED  BY <1>1, <1>2, <1>3, <1>4, <1>5, <1>6

\* Faults, calls that go well and those that fail.
LEMMA Counts ==
  ASSUME R!RaidAssumption, Typed, R!Fine \/ R!Fault
  PROVE  raidFaults' \in 0..MaxRaidFaults
  BY Blanks DEF Typed, R!Fine, R!Fault

\* The holder of the lifecycle lock goes on.
LEMMA GoPart ==
  ASSUME R!RaidAssumption, Typed, NEW s \in R!Steps, R!Go(s)
  PROVE  /\ lifecycle' \in Holder /\ lifecycle'.at = s
         /\ s # "free" => lifecycle'.msg = lifecycle.msg
<1>1. CASE s = "free"
  BY <1>1, Blanks DEF R!Go, R!Free
<1>2. CASE s # "free"
  <2>1. lifecycle' = [lifecycle EXCEPT !.at = s]  BY <1>2 DEF R!Go
  <2>2. QED  BY <2>1 DEF Typed, Holder
<1>3. QED  BY <1>1, <1>2

\* A write to the ledger changes nothing else, and memory follows it.
LEMMA LedgerPart ==
  ASSUME R!RaidAssumption, Typed, NEW new \in SUBSET R!Messages, R!Ledger(new)
  PROVE  /\ groupRow' \in Row /\ guard' \in Guard
         /\ groupRow'.manual = groupRow.manual
         /\ groupRow'.ledger \in {groupRow.ledger, new}
         /\ raidFaults' = raidFaults => groupRow'.ledger = new
         /\ guard'.source = guard.source /\ guard'.copy = guard.copy
             /\ guard'.status = guard.status
         /\ raidFaults' \in 0..MaxRaidFaults
<1> DEFINE written == [groupRow EXCEPT !.ledger = new]
<1>1. /\ written \in Row /\ written.manual = groupRow.manual /\ written.ledger = new
  BY DEF Typed, Row
<1>2. raidFaults' \in 0..MaxRaidFaults  BY Counts DEF R!Ledger
<1>3. raidFaults \in Nat  BY Blanks DEF Typed
<1>4. groupRow' \in {groupRow, written}  BY DEF R!Ledger
<1>5. raidFaults' = raidFaults => groupRow' = written  BY <1>3 DEF R!Ledger, R!Fault
<1>6. guard' = guard \/ guard' = [guard EXCEPT !.owned = new]  BY DEF R!Ledger
<1>7. guard' \in Guard /\ guard'.source = guard.source /\ guard'.copy = guard.copy
      /\ guard'.status = guard.status
  BY <1>6 DEF Typed, Guard
<1> HIDE DEF written
<1>8. groupRow \in Row  BY DEF Typed
<1>9. QED  BY <1>1, <1>2, <1>4, <1>5, <1>7, <1>8

\* A cleanup that is asked for starts over, or goes on as it was.
LEMMA ScheduledPart ==
  ASSUME R!RaidAssumption, Typed, NEW g \in Guard
  PROVE  /\ R!Scheduled(g) \in Cleaner /\ R!Rescheduled(g) \in Cleaner
         /\ R!Scheduled(g) = cleaner \/ R!Scheduled(g).at = "later"
         /\ R!Rescheduled(g) = cleaner \/ R!Rescheduled(g).at = "now"
<1>1. cleaner \in Cleaner /\ R!Idle \in Cleaner  BY Blanks DEF Typed
<1>2. [R!Idle EXCEPT !.at = "later"] \in Cleaner /\ [R!Idle EXCEPT !.at = "later"].at = "later"
  BY <1>1 DEF Cleaner
<1>3. [R!Idle EXCEPT !.at = "now"] \in Cleaner /\ [R!Idle EXCEPT !.at = "now"].at = "now"
  BY <1>1 DEF Cleaner
<1>4. QED  BY <1>1, <1>2, <1>3 DEF R!Scheduled, R!Rescheduled

\* The pass of a cleanup goes on to its next message, or ends.
LEMMA CleanNextPart ==
  ASSUME R!RaidAssumption, Typed, NEW g, NEW rest \in SUBSET R!Messages
  PROVE  R!CleanNext(g, rest) \in Cleaner /\ R!CleanNext(g, rest).at # "release"
<1>1. R!Idle \in Cleaner  BY Blanks
<1>2. CASE rest # {}
  <2>1. R!CleanNext(g, rest) = [R!Idle EXCEPT !.at = "unpin", !.todo = rest]
    BY <1>2 DEF R!CleanNext
  <2>2. QED  BY <1>1, <2>1 DEF Cleaner
<1>3. CASE rest = {}
  <2>1. PICK a \in {"off", "later"} : R!CleanNext(g, rest) = [R!Idle EXCEPT !.at = a]
    BY <1>3 DEF R!CleanNext
  <2>2. QED  BY <1>1, <2>1 DEF Cleaner
<1>4. QED  BY <1>2, <1>3

-----------------------------------------------------------------------------
(* The steps *)

\* Arming: what is stored is what is armed.
LEMMA EnableKeeps ==
  ASSUME R!RaidAssumption, RaidInv, NEW timed \in BOOLEAN, NEW pin \in BOOLEAN, R!Enable(timed, pin)
  PROVE  RaidInv'
<1> DEFINE msg == IF guard.status # R!NoMsg THEN guard.status ELSE guard.copy.msg
           until == IF timed THEN gens + 1 ELSE R!Open
           new == R!Manual(until, msg, pin)
           armed == [guard EXCEPT !.source = "manual", !.until = new.until, !.copy = new,
                                  !.status = msg]
           publish == [R!Free EXCEPT !.at = "publish", !.pin = pin]
           stored == [groupRow EXCEPT !.manual = new]
<1>t. Typed  BY DEF RaidInv
<1>1. R!Step("free") /\ UNCHANGED <<notePins, cleaner, activating, past, notices, raidCrashes>>
  BY DEF R!Enable
<1>2. gens' \in 0..MaxGens /\ until \in R!Untils
  BY <1>1, <1>t, Blanks DEF Typed, R!Enable, R!Untils, R!Open
<1>3. msg \in R!Messages  BY <1>t DEF Typed, Guard, R!States
<1>4. new \in R!States /\ new.on  BY <1>2, <1>3 DEF R!Manual, R!States
<1>5. armed \in Guard /\ armed.source = "manual" /\ armed.copy = new
  <2> HIDE DEF new, msg
  <2>1. new.until \in R!Untils  BY <1>4 DEF R!States
  <2>2. QED  BY <1>t, <1>3, <1>4, <2>1 DEF Typed, Guard
<1>6. publish \in Holder /\ publish.at = "publish"
  BY Blanks DEF Holder, R!Free, R!Steps
<1>7. stored \in Row /\ stored.manual = new /\ stored.ledger = groupRow.ledger
  BY <1>t, <1>4 DEF Typed, Row
<1>8. \/ /\ R!Fine /\ groupRow' = stored /\ UNCHANGED torn
         /\ guard' = armed /\ lifecycle' = publish
      \/ /\ R!Fault /\ (UNCHANGED <<groupRow, torn>> \/ (groupRow' = stored /\ torn' = TRUE))
         /\ UNCHANGED <<guard, lifecycle>>
  BY DEF R!Enable, R!PersistLost, R!Persist
<1>9. raidFaults' \in 0..MaxRaidFaults  BY <1>t, <1>8, Counts
<1> HIDE DEF new, msg, until, armed, publish, stored
<1>10. Typed'  BY <1>t, <1>1, <1>2, <1>5, <1>6, <1>7, <1>8, <1>9 DEF Typed
<1>11. PinLock' /\ LedgerFirst'
  BY <1>1, <1>6, <1>7, <1>8 DEF RaidInv, PinLock, LedgerFirst, R!HolderPins, R!CleanerPins,
     R!Step
<1>12. R!PinsInLedger'  BY <1>1, <1>7, <1>8 DEF RaidInv, R!PinsInLedger
<1>13. Agreed'  BY <1>1, <1>4, <1>5, <1>7, <1>8 DEF RaidInv, Agreed, R!Step
<1>14. QED  BY <1>10, <1>11, <1>12, <1>13 DEF RaidInv

\* A detected raid arms a lockdown of its own only where no manual one is.
LEMMA DetectKeeps ==
  ASSUME R!RaidAssumption, RaidInv, R!Detect \/ (\E pin \in BOOLEAN : R!Activate(pin))
  PROVE  RaidInv'
<1>t. Typed  BY DEF RaidInv
<1>1. CASE R!Detect
  <2> DEFINE armed == [guard EXCEPT !.source = "automatic", !.until = gens + 1, !.copy = R!NoState]
  <2>1. gens' \in 0..MaxGens /\ gens + 1 \in R!Untils
    BY <1>1, <1>t, Blanks DEF R!Detect, Typed, R!Untils, R!Open
  <2>2. armed \in Guard /\ armed.source = "automatic" /\ armed.status = guard.status
    BY <1>t, <2>1, Blanks DEF Typed, Guard
  <2>3. /\ guard' = armed /\ activating' = TRUE /\ guard.source # "manual"
        /\ UNCHANGED <<lifecycle, groupRow, notePins, cleaner, past, notices, raidFaults,
                       raidCrashes, torn>>
    BY <1>1 DEF R!Detect
  <2> HIDE DEF armed
  <2>4. Typed'  BY <1>t, <2>1, <2>2, <2>3 DEF Typed
  <2>5. PinLock' /\ LedgerFirst' /\ R!PinsInLedger'
    BY <2>2, <2>3 DEF RaidInv, PinLock, LedgerFirst, R!PinsInLedger, R!HolderPins,
       R!CleanerPins, R!Step
  <2>6. Agreed'  BY <2>2, <2>3 DEF RaidInv, Agreed, R!Step
  <2>7. QED  BY <2>4, <2>5, <2>6 DEF RaidInv
<1>2. ASSUME NEW pin \in BOOLEAN, R!Activate(pin)  PROVE RaidInv'
  <2> DEFINE publish == [R!Free EXCEPT !.at = "publish", !.by = "automatic", !.pin = pin]
  <2>1. publish \in Holder /\ publish.at = "publish" /\ R!Free \in Holder /\ R!Free.at = "free"
    BY Blanks DEF Holder, R!Free, R!Steps
  <2>2. /\ R!Step("free") /\ lifecycle' \in {publish, R!Free} /\ activating' = FALSE
        /\ UNCHANGED <<guard, groupRow, notePins, cleaner, past, gens, notices, raidFaults,
                       raidCrashes, torn>>
    BY <1>2 DEF R!Activate
  <2> HIDE DEF publish
  <2>3. Typed'  BY <1>t, <2>1, <2>2 DEF Typed
  <2>4. lifecycle'.at \in {"publish", "free"}  BY <2>1, <2>2
  <2>5. PinLock' /\ LedgerFirst' /\ R!PinsInLedger' /\ Agreed'
    BY <2>2, <2>4
    DEF RaidInv, PinLock, LedgerFirst, R!PinsInLedger, Agreed, R!HolderPins, R!CleanerPins,
    R!Step
  <2>6. QED  BY <2>3, <2>5 DEF RaidInv
<1>3. QED  BY <1>1, <1>2

\* Steps of the holder between his calls, and those that touch no pin and no settings.
LEMMA QuietKeeps ==
  ASSUME R!RaidAssumption, RaidInv, Typed',
         UNCHANGED <<groupRow, notePins, torn>>,
         lifecycle'.at \notin {"pin", "release"}, ~R!Step("restore"),
         guard'.source = guard.source, guard'.copy = guard.copy,
         cleaner' = cleaner \/ cleaner'.at \in {"off", "later", "now"}
  PROVE  RaidInv'
<1>1. PinLock' /\ LedgerFirst' /\ R!PinsInLedger'
  BY DEF RaidInv, PinLock, LedgerFirst, R!PinsInLedger, R!HolderPins, R!CleanerPins, R!Step
<1>2. Agreed'  BY DEF RaidInv, Agreed, R!Step
<1>3. QED  BY <1>1, <1>2 DEF RaidInv

\* What follows the message.
LEMMA FollowingPart == R!Following \in {"remember", "ledger", "free"}
  BY DEF R!Following

\* The status message is edited, or given up and sent again.
LEMMA PublishKeeps ==
  ASSUME R!RaidAssumption, RaidInv, R!PublishEdit \/ R!PublishSend
  PROVE  RaidInv'
<1>t. Typed  BY DEF RaidInv
<1>f. R!Following \in {"remember", "ledger", "free"}  BY FollowingPart
<1>1. CASE R!PublishEdit
  <2> DEFINE kept == [guard EXCEPT !.intent = lifecycle.pin]
             given == [guard EXCEPT !.status = R!NoMsg]
             off(n) == [lifecycle EXCEPT !.at = "unpin", !.msg = guard.status, !.next = n]
  <2>1. /\ UNCHANGED <<groupRow, notePins, activating, past, gens, notices, raidCrashes, torn>>
        /\ (R!Fine \/ R!Fault) /\ R!Step("publish")
        /\ guard' \in {kept, given}
        /\ cleaner' = cleaner \/ cleaner' = R!Scheduled(guard')
    BY <1>1 DEF R!PublishEdit
  <2>2. /\ guard' \in Guard /\ guard'.source = guard.source /\ guard'.copy = guard.copy
    BY <1>t, <2>1, Blanks DEF Typed, Guard, Holder
  <2>3. \/ R!Go(R!Following) \/ R!Go("send")
        \/ \E n \in {"free", "send", "remember"} : lifecycle' = off(n)
    <3>1. ~lifecycle.pin => R!Following \in {"remember", "free"}  BY DEF R!Following
    <3>2. QED  BY <1>1, <3>1 DEF R!PublishEdit
  <2>4. lifecycle' \in Holder
            /\ lifecycle'.at \in {"remember", "ledger", "free", "send", "unpin"}
    <3>1. CASE R!Go(R!Following)  BY <1>t, <1>f, <3>1, GoPart DEF R!Steps
    <3>2. CASE R!Go("send")  BY <1>t, <3>2, GoPart DEF R!Steps
    <3>3. ASSUME NEW n \in {"free", "send", "remember"}, lifecycle' = off(n)
          PROVE  lifecycle' \in Holder /\ lifecycle'.at = "unpin"
      BY <1>t, <3>3 DEF Typed, Holder, Guard, R!Steps
    <3>4. QED  BY <2>3, <3>1, <3>2, <3>3
  <2>5. raidFaults' \in 0..MaxRaidFaults  BY <1>t, <2>1, Counts
  <2>6. cleaner' \in Cleaner /\ (cleaner' = cleaner \/ cleaner'.at = "later")
    BY <1>t, <2>1, <2>2, ScheduledPart DEF Typed
  <2> HIDE DEF kept, given, off
  <2>7. Typed'  BY <1>t, <2>1, <2>2, <2>4, <2>5, <2>6 DEF Typed
  <2>8. QED  BY <2>1, <2>2, <2>4, <2>6, <2>7, QuietKeeps DEF R!Step
<1>2. CASE R!PublishSend
  <2> DEFINE sent == [guard EXCEPT !.status = notices', !.intent = lifecycle.pin]
  <2>1. /\ UNCHANGED <<groupRow, notePins, cleaner, activating, past, gens, raidCrashes, torn>>
        /\ (R!Fine \/ R!Fault) /\ ~R!Step("restore")
    BY <1>2 DEF R!PublishSend, R!Step
  <2>2. notices' \in 0..MaxNotices /\ notices' \in R!Messages
    BY <1>t, <1>2, Blanks DEF R!PublishSend, Typed, R!Messages, R!NoMsg
  <2>3. sent \in Guard /\ sent.source = guard.source /\ sent.copy = guard.copy
    BY <1>t, <2>2 DEF Typed, Guard, Holder
  <2>4. guard' \in {guard, sent} /\ (R!Go(R!Following) \/ R!Go("free"))
    BY <1>2 DEF R!PublishSend
  <2> HIDE DEF sent
  <2>5. guard' \in Guard /\ guard'.source = guard.source /\ guard'.copy = guard.copy
    BY <1>t, <2>3, <2>4 DEF Typed
  <2>6. lifecycle' \in Holder /\ lifecycle'.at \in {"remember", "ledger", "free"}
    <3>1. CASE R!Go(R!Following)  BY <1>t, <1>f, <3>1, GoPart DEF R!Steps
    <3>2. CASE R!Go("free")  BY <1>t, <3>2, GoPart DEF R!Steps
    <3>3. QED  BY <2>4, <3>1, <3>2
  <2>7. raidFaults' \in 0..MaxRaidFaults  BY <1>t, <2>1, Counts
  <2>8. Typed'  BY <1>t, <2>1, <2>2, <2>5, <2>6, <2>7 DEF Typed
  <2>9. QED  BY <2>1, <2>5, <2>6, <2>8, QuietKeeps
<1>3. QED  BY <1>1, <1>2

\* The message's number is stored with the lockdown it belongs to.
LEMMA RememberKeeps == ASSUME R!RaidAssumption, RaidInv, R!Remember PROVE RaidInv'
<1> DEFINE new == [guard.copy EXCEPT !.msg = guard.status]
           stored == [groupRow EXCEPT !.manual = new]
           known == [guard EXCEPT !.copy = new]
<1>t. Typed  BY DEF RaidInv
<1>1. /\ R!Step("remember")
      /\ UNCHANGED <<notePins, cleaner, activating, past, gens, notices, raidCrashes>>
      /\ (R!Go("ledger") \/ R!Go("free"))
  BY DEF R!Remember, R!PersistLost
<1>2. new \in R!States /\ new.on = guard.copy.on  BY <1>t DEF Typed, Guard, R!States
<1>3. /\ stored \in Row /\ stored.manual = new /\ stored.ledger = groupRow.ledger
      /\ known \in Guard /\ known.copy = new /\ known.source = guard.source
  <2> HIDE DEF new
  <2>1. QED  BY <1>t, <1>2 DEF Typed, Row, Guard
<1>4. \/ UNCHANGED <<groupRow, guard, torn>>
      \/ /\ groupRow.manual = guard.copy /\ groupRow' = stored
         /\ \/ guard' = known /\ UNCHANGED torn
            \/ UNCHANGED guard /\ torn' = TRUE
  BY DEF R!Remember, R!PersistLost, R!Persist
<1> HIDE DEF new, stored, known
<1>5. lifecycle' \in Holder /\ lifecycle'.at \in {"ledger", "free"}
  BY <1>t, <1>1, GoPart DEF R!Steps
<1>6. raidFaults' \in 0..MaxRaidFaults
  BY <1>t, Counts DEF R!Remember, R!PersistLost
<1>7. Typed'  BY <1>t, <1>1, <1>3, <1>4, <1>5, <1>6 DEF Typed
<1>8. groupRow'.ledger = groupRow.ledger  BY <1>3, <1>4
<1>9. PinLock' /\ LedgerFirst' /\ R!PinsInLedger'
  BY <1>1, <1>5, <1>8
  DEF RaidInv, PinLock, LedgerFirst, R!PinsInLedger, R!HolderPins, R!CleanerPins, R!Step
<1>10. Agreed'  BY <1>1, <1>2, <1>3, <1>4 DEF RaidInv, Agreed, R!Step
<1>11. QED  BY <1>7, <1>9, <1>10 DEF RaidInv

\* The holder's pins: the ledger first, and only then Telegram; out of it in the other order.
LEMMA PinKeeps ==
  ASSUME R!RaidAssumption, RaidInv, R!EnterPin \/ R!Pin \/ R!Unpin \/ R!Release
  PROVE  RaidInv'
<1>t. Typed  BY DEF RaidInv
<1>1. CASE R!EnterPin
  <2>1. /\ R!Step("ledger") /\ ~R!CleanerPins /\ R!Ledger(groupRow.ledger \cup {guard.status})
        /\ R!Go(IF raidFaults' = raidFaults THEN "pin" ELSE "free")
        /\ UNCHANGED <<notePins, cleaner, activating, past, gens, notices, raidCrashes, torn>>
    BY <1>1 DEF R!EnterPin
  <2>2. groupRow.ledger \cup {guard.status} \in SUBSET R!Messages
    BY <1>t DEF Typed, Row, Guard
  <2>3. /\ groupRow' \in Row /\ guard' \in Guard /\ raidFaults' \in 0..MaxRaidFaults
        /\ groupRow'.manual = groupRow.manual
        /\ groupRow.ledger \subseteq groupRow'.ledger
        /\ raidFaults' = raidFaults => guard.status \in groupRow'.ledger
        /\ guard'.source = guard.source /\ guard'.copy = guard.copy
            /\ guard'.status = guard.status
    BY <1>t, <2>1, <2>2, LedgerPart
  <2>4. /\ lifecycle' \in Holder
        /\ lifecycle'.at = IF raidFaults' = raidFaults THEN "pin" ELSE "free"
    BY <1>t, <2>1, GoPart DEF R!Steps
  <2>5. Typed'  BY <1>t, <2>1, <2>3, <2>4 DEF Typed
  <2>6. PinLock'  BY <2>1 DEF PinLock, R!CleanerPins
  <2>7. LedgerFirst' /\ R!PinsInLedger'
    BY <2>1, <2>3, <2>4 DEF RaidInv, LedgerFirst, R!PinsInLedger, R!Step
  <2>8. Agreed'  BY <2>1, <2>3 DEF RaidInv, Agreed, R!Step
  <2>9. QED  BY <2>5, <2>6, <2>7, <2>8 DEF RaidInv
<1>2. CASE R!Pin
  <2>1. /\ R!Step("pin") /\ R!Go("free")
        /\ notePins \subseteq notePins' /\ notePins' \subseteq notePins \cup {guard.status}
        /\ UNCHANGED <<guard, groupRow, cleaner, activating, past, gens, notices, raidCrashes, torn>>
    BY <1>2 DEF R!Pin
  <2>2. lifecycle' \in Holder /\ lifecycle'.at = "free"  BY <1>t, <2>1, GoPart DEF R!Steps
  <2>3. raidFaults' \in 0..MaxRaidFaults  BY <1>t, <1>2, Counts DEF R!Pin
  <2>4. Typed'  BY <1>t, <2>1, <2>2, <2>3 DEF Typed, Guard
  <2>5. ~R!CleanerPins  BY <2>1 DEF RaidInv, PinLock, R!HolderPins, R!Step
  <2>6. PinLock' /\ LedgerFirst' /\ R!PinsInLedger' /\ Agreed'
    BY <2>1, <2>2, <2>5
    DEF RaidInv, PinLock, LedgerFirst, R!PinsInLedger, Agreed, R!CleanerPins, R!Step
  <2>7. QED  BY <2>4, <2>6 DEF RaidInv
<1>3. CASE R!Unpin
  <2>1. /\ R!Step("unpin") /\ ~R!CleanerPins /\ notePins' \subseteq notePins
        /\ \/ R!Fine /\ notePins' = notePins \ {lifecycle.msg} /\ R!Go("release")
           \/ R!Fault /\ R!Go(lifecycle.next)
        /\ UNCHANGED <<guard, groupRow, cleaner, activating, past, gens, notices, raidCrashes, torn>>
    BY <1>3 DEF R!Unpin
  <2>2. lifecycle.next \in {"free", "send", "remember"}  BY <1>t DEF Typed, Holder
  <2>3. /\ lifecycle' \in Holder
        /\ \/ /\ lifecycle'.at = "release" /\ lifecycle'.msg = lifecycle.msg
              /\ notePins' = notePins \ {lifecycle.msg}
           \/ lifecycle'.at \in {"free", "send", "remember"}
    <3>1. CASE notePins' = notePins \ {lifecycle.msg} /\ R!Go("release")
      BY <1>t, <2>1, <2>2, <3>1, GoPart DEF R!Steps
    <3>2. CASE R!Go(lifecycle.next)  BY <1>t, <2>2, <3>2, GoPart DEF R!Steps
    <3>3. QED  BY <2>1, <3>1, <3>2
  <2>4. raidFaults' \in 0..MaxRaidFaults  BY <1>t, <2>1, Counts
  <2>5. Typed'  BY <1>t, <2>1, <2>3, <2>4 DEF Typed
  <2>6. PinLock' /\ LedgerFirst' /\ R!PinsInLedger' /\ Agreed'
    BY <2>1, <2>3
    DEF RaidInv, PinLock, LedgerFirst, R!PinsInLedger, Agreed, R!CleanerPins, R!Step
  <2>7. QED  BY <2>5, <2>6 DEF RaidInv
<1>4. CASE R!Release
  <2>1. /\ R!Step("release") /\ R!Ledger(groupRow.ledger \ {lifecycle.msg})
            /\ R!Go(lifecycle.next)
        /\ cleaner' = R!Scheduled(guard')
        /\ UNCHANGED <<notePins, activating, past, gens, notices, raidCrashes, torn>>
    BY <1>4 DEF R!Release
  <2>2. groupRow.ledger \ {lifecycle.msg} \in SUBSET R!Messages  BY <1>t DEF Typed, Row
  <2>3. /\ groupRow' \in Row /\ guard' \in Guard /\ raidFaults' \in 0..MaxRaidFaults
        /\ groupRow'.manual = groupRow.manual
        /\ groupRow.ledger \ {lifecycle.msg} \subseteq groupRow'.ledger
        /\ guard'.source = guard.source /\ guard'.copy = guard.copy
    BY <1>t, <2>1, <2>2, LedgerPart
  <2>4. lifecycle.next \in {"free", "send", "remember"}  BY <1>t DEF Typed, Holder
  <2>5. lifecycle' \in Holder /\ lifecycle'.at \in {"free", "send", "remember"}
    BY <1>t, <2>1, <2>4, GoPart DEF R!Steps
  <2>6. cleaner' \in Cleaner /\ (cleaner' = cleaner \/ cleaner'.at = "later")
    BY <1>t, <2>1, <2>3, ScheduledPart
  <2>7. Typed'  BY <1>t, <2>1, <2>3, <2>5, <2>6 DEF Typed
  <2>8. lifecycle.msg \notin notePins  BY <2>1 DEF RaidInv, LedgerFirst
  <2>9. PinLock' /\ LedgerFirst' /\ R!PinsInLedger'
    BY <2>1, <2>3, <2>5, <2>6, <2>8
    DEF RaidInv, PinLock, LedgerFirst, R!PinsInLedger, R!HolderPins, R!CleanerPins, R!Step
  <2>10. Agreed'  BY <2>1, <2>3 DEF RaidInv, Agreed, R!Step
  <2>11. QED  BY <2>7, <2>9, <2>10 DEF RaidInv
<1>5. QED  BY <1>1, <1>2, <1>3, <1>4

\* The cleanup's pass: a message leaves the ledger once Telegram has let go of it.
LEMMA CleanKeeps == ASSUME R!RaidAssumption, RaidInv, R!Clean PROVE RaidInv'
<1>t. Typed  BY DEF RaidInv
<1>1. CASE R!CleanStart
  <2> DEFINE pass == [R!Idle EXCEPT !.at = "unpin", !.todo = R!Candidates(guard)]
  <2>1. /\ ~R!HolderPins /\ cleaner' \in {R!Idle, pass}
        /\ UNCHANGED <<lifecycle, guard, groupRow, notePins, activating, past, gens, notices,
                       raidFaults, raidCrashes, torn>>
    BY <1>1 DEF R!CleanStart
  <2>2. R!Candidates(guard) \subseteq R!Messages  BY <1>t DEF Typed, Guard, R!Candidates
  <2>3. pass \in Cleaner /\ pass.at = "unpin" /\ R!Idle \in Cleaner /\ R!Idle.at = "off"
    BY <2>2, Blanks DEF Cleaner, R!Idle
  <2> HIDE DEF pass
  <2>4. Typed'  BY <1>t, <2>1, <2>3 DEF Typed
  <2>5. cleaner'.at # "release"  BY <2>1, <2>3
  <2>6. PinLock' /\ LedgerFirst' /\ R!PinsInLedger' /\ Agreed'
    BY <2>1, <2>5
    DEF RaidInv, PinLock, LedgerFirst, R!PinsInLedger, Agreed, R!HolderPins, R!Step
  <2>7. QED  BY <2>4, <2>6 DEF RaidInv
<1>2. ASSUME NEW m \in R!Messages, R!CleanUnpin(m)  PROVE RaidInv'
  <2> DEFINE gone == [cleaner EXCEPT !.at = "release", !.msg = m]
             rest == cleaner.todo \ {m}
  <2>1. /\ cleaner.at = "unpin" /\ notePins' \subseteq notePins
        /\ \/ R!Fine /\ notePins' = notePins \ {m} /\ cleaner' = gone
           \/ R!Fault /\ cleaner' = R!CleanNext(guard, rest)
        /\ UNCHANGED <<lifecycle, guard, groupRow, activating, past, gens, notices, raidCrashes, torn>>
    BY <1>2 DEF R!CleanUnpin
  <2>2. rest \in SUBSET R!Messages  BY <1>t DEF Typed, Cleaner
  <2>3. gone \in Cleaner /\ gone.at = "release" /\ gone.msg = m  BY <1>t DEF Typed, Cleaner
  <2>4. R!CleanNext(guard, rest) \in Cleaner /\ R!CleanNext(guard, rest).at # "release"
    BY <1>t, <2>2, CleanNextPart
  <2> HIDE DEF gone, rest
  <2>5. raidFaults' \in 0..MaxRaidFaults  BY <1>t, <2>1, Counts
  <2>6. Typed'  BY <1>t, <2>1, <2>3, <2>4, <2>5 DEF Typed
  <2>7. ~R!HolderPins  BY <2>1 DEF RaidInv, PinLock, R!CleanerPins
  <2>8. cleaner'.at = "release" => cleaner'.msg \notin notePins'  BY <2>1, <2>3, <2>4
  <2>9. PinLock' /\ LedgerFirst' /\ R!PinsInLedger' /\ Agreed'
    BY <2>1, <2>7, <2>8
    DEF RaidInv, PinLock, LedgerFirst, R!PinsInLedger, Agreed, R!HolderPins, R!Step
  <2>10. QED  BY <2>6, <2>9 DEF RaidInv
<1>3. CASE R!CleanRelease
  <2> DEFINE rest == cleaner.todo \ {cleaner.msg}
  <2>1. /\ cleaner.at = "release" /\ R!Ledger(groupRow.ledger \ {cleaner.msg})
        /\ cleaner' = R!CleanNext(guard', rest)
        /\ UNCHANGED <<lifecycle, notePins, activating, past, gens, notices, raidCrashes, torn>>
    BY <1>3 DEF R!CleanRelease
  <2>2. groupRow.ledger \ {cleaner.msg} \in SUBSET R!Messages /\ rest \in SUBSET R!Messages
    BY <1>t DEF Typed, Row, Cleaner
  <2>3. /\ groupRow' \in Row /\ guard' \in Guard /\ raidFaults' \in 0..MaxRaidFaults
        /\ groupRow'.manual = groupRow.manual
        /\ groupRow.ledger \ {cleaner.msg} \subseteq groupRow'.ledger
        /\ guard'.source = guard.source /\ guard'.copy = guard.copy
    BY <1>t, <2>1, <2>2, LedgerPart
  <2>4. cleaner' \in Cleaner /\ cleaner'.at # "release"
    BY <1>t, <2>1, <2>2, CleanNextPart
  <2>5. Typed'  BY <1>t, <2>1, <2>3, <2>4 DEF Typed
  <2>6. ~R!HolderPins /\ cleaner.msg \notin notePins
    BY <2>1 DEF RaidInv, PinLock, LedgerFirst, R!CleanerPins
  <2>7. PinLock' /\ LedgerFirst' /\ R!PinsInLedger'
    BY <2>1, <2>3, <2>4, <2>6
    DEF RaidInv, PinLock, LedgerFirst, R!PinsInLedger, R!HolderPins, R!Step
  <2>8. Agreed'  BY <2>1, <2>3 DEF RaidInv, Agreed, R!Step
  <2>9. QED  BY <2>5, <2>7, <2>8 DEF RaidInv
<1>4. QED  BY <1>1, <1>2, <1>3 DEF R!Clean

\* The end of a lockdown: in the settings first, in memory when that is known.
LEMMA EndKeeps ==
  ASSUME R!RaidAssumption, RaidInv, R!Disable \/ R!Expire
  PROVE  RaidInv'
<1> DEFINE stored == [groupRow EXCEPT !.manual = R!NoState]
           unlock == [R!Free EXCEPT !.at = "unlock"]
<1>t. Typed  BY DEF RaidInv
<1>1. /\ R!Step("free") /\ R!EndLockdown
      /\ UNCHANGED <<notePins, cleaner, activating, past, gens, notices, raidCrashes>>
  BY DEF R!Disable, R!Expire
<1>2. stored \in Row /\ stored.manual = R!NoState /\ stored.ledger = groupRow.ledger
  BY <1>t, Blanks DEF Typed, Row
<1>3. R!Cleared \in Guard /\ R!Cleared.source = "none" /\ R!Cleared.status = guard.status
  BY <1>t, Blanks DEF Typed, Guard, R!Cleared
<1>4. unlock \in Holder /\ unlock.at = "unlock"  BY Blanks DEF Holder, R!Free, R!Steps
<1>5. /\ guard' \in {guard, R!Cleared} /\ lifecycle' \in {lifecycle, unlock}
      /\ groupRow' \in {groupRow, stored} /\ torn' \in {torn, TRUE} /\ (R!Fine \/ R!Fault)
  BY <1>1 DEF R!EndLockdown, R!ToUnlock, R!Persist, R!PersistLost
<1>6. \/ guard.source = "automatic" /\ guard' = R!Cleared /\ UNCHANGED <<groupRow, torn>>
      \/ guard' = R!Cleared /\ groupRow' = stored /\ UNCHANGED torn
      \/ UNCHANGED <<guard, groupRow, torn>>
      \/ torn'
      \/ /\ guard.source = "manual" /\ groupRow.manual # guard.copy
         /\ guard' = R!Cleared /\ UNCHANGED <<groupRow, torn>>
  BY <1>1 DEF R!EndLockdown, R!Persist, R!PersistLost
<1> HIDE DEF stored, unlock
<1>7. raidFaults' \in 0..MaxRaidFaults  BY <1>t, <1>5, Counts
<1>8. Typed'  BY <1>t, <1>1, <1>2, <1>3, <1>4, <1>5, <1>7 DEF Typed
<1>9. groupRow'.ledger = groupRow.ledger /\ lifecycle'.at \in {"free", "unlock"}
  BY <1>1, <1>2, <1>4, <1>5 DEF R!Step
<1>10. PinLock' /\ LedgerFirst' /\ R!PinsInLedger'
  BY <1>1, <1>9 DEF RaidInv, PinLock, LedgerFirst, R!PinsInLedger, R!HolderPins,
     R!CleanerPins, R!Step
<1>11. Agreed'
  <2>1. Agreed /\ ~R!Step("restore")  BY <1>1 DEF RaidInv, R!Step
  <2>2. CASE guard.source = "automatic" /\ guard' = R!Cleared /\ UNCHANGED <<groupRow, torn>>
    BY <1>3, <2>1, <2>2 DEF Agreed
  <2>3. CASE guard' = R!Cleared /\ groupRow' = stored /\ UNCHANGED torn
    <3>1. groupRow'.manual.on = FALSE /\ guard'.source = "none"
      BY <1>2, <1>3, <2>3 DEF R!NoState
    <3>2. QED  BY <3>1 DEF Agreed
  <2>4. CASE UNCHANGED <<guard, groupRow, torn>>
    BY <2>1, <2>4 DEF Agreed
  <2>5. CASE torn'
    BY <2>5 DEF Agreed
  <2>6. CASE guard.source = "manual" /\ groupRow.manual # guard.copy /\ UNCHANGED torn
    BY <2>1, <2>6 DEF Agreed
  <2>7. QED  BY <1>6, <2>2, <2>3, <2>4, <2>5, <2>6
<1>12. QED  BY <1>8, <1>10, <1>11 DEF RaidInv

\* The notice is let go of, the holder waits for the cleanup, and deadlines pass.
LEMMA EndingKeeps ==
  ASSUME R!RaidAssumption, RaidInv, R!Ending \/ (\E u \in 1..MaxGens : R!DeadlinePasses(u))
  PROVE  RaidInv'
<1>t. Typed  BY DEF RaidInv
<1>1. CASE R!Unlock
  <2> DEFINE done == [guard EXCEPT !.status = R!NoMsg, !.intent = FALSE]
             kept == [done EXCEPT !.owned = @ \cup {guard.status}]
             entered == [groupRow EXCEPT !.ledger = @ \cup {guard.status}]
  <2>1. /\ R!Step("unlock") /\ (R!Fine \/ R!Fault) /\ guard' \in {done, kept}
        /\ groupRow' \in {groupRow, entered} /\ cleaner' = R!Rescheduled(guard')
            /\ R!Go("wait")
        /\ UNCHANGED <<notePins, activating, past, gens, notices, raidCrashes, torn>>
    BY <1>1 DEF R!Unlock
  <2>2. done \in Guard /\ done.source = guard.source /\ done.copy = guard.copy
    BY <1>t, Blanks DEF Typed, Guard
  <2>3. kept \in Guard /\ kept.source = guard.source /\ kept.copy = guard.copy
    <3>1. guard.status \in R!Messages  BY <1>t DEF Typed, Guard
    <3> HIDE DEF done
    <3>2. QED  BY <2>2, <3>1 DEF Guard
  <2>4. /\ entered \in Row /\ entered.manual = groupRow.manual
        /\ groupRow.ledger \subseteq entered.ledger
    BY <1>t DEF Typed, Row, Guard
  <2> HIDE DEF done, kept, entered
  <2>5. guard' \in Guard /\ guard'.source = guard.source /\ guard'.copy = guard.copy
    BY <2>1, <2>2, <2>3
  <2>6. cleaner' \in Cleaner /\ (cleaner' = cleaner \/ cleaner'.at = "now")
    BY <1>t, <2>1, <2>5, ScheduledPart
  <2>7. lifecycle' \in Holder /\ lifecycle'.at = "wait"  BY <1>t, <2>1, GoPart DEF R!Steps
  <2>8. raidFaults' \in 0..MaxRaidFaults  BY <1>t, <2>1, Counts
  <2>9. Typed'  BY <1>t, <2>1, <2>4, <2>5, <2>6, <2>7, <2>8 DEF Typed
  <2>10. groupRow'.manual = groupRow.manual /\ groupRow.ledger \subseteq groupRow'.ledger
    BY <2>1, <2>4
  <2>11. PinLock' /\ LedgerFirst' /\ R!PinsInLedger'
    BY <2>1, <2>6, <2>7, <2>10
    DEF RaidInv, PinLock, LedgerFirst, R!PinsInLedger, R!HolderPins, R!CleanerPins, R!Step
  <2>12. Agreed'  BY <2>1, <2>5, <2>10 DEF RaidInv, Agreed, R!Step
  <2>13. QED  BY <2>9, <2>11, <2>12 DEF RaidInv
<1>2. CASE R!AwaitCleanup
  <2>1. /\ R!Step("wait") /\ R!Go("free")
        /\ UNCHANGED <<guard, groupRow, notePins, cleaner, activating, past, gens, notices,
                       raidFaults, raidCrashes, torn>>
    BY <1>2 DEF R!AwaitCleanup
  <2>2. lifecycle' \in Holder /\ lifecycle'.at = "free"  BY <1>t, <2>1, GoPart DEF R!Steps
  <2>3. Typed'  BY <1>t, <2>1, <2>2 DEF Typed
  <2>4. QED  BY <2>1, <2>2, <2>3, QuietKeeps DEF R!Step
<1>3. ASSUME NEW u \in 1..MaxGens, R!DeadlinePasses(u)  PROVE RaidInv'
  <2>1. /\ past' = past \cup {u}
        /\ UNCHANGED <<lifecycle, guard, groupRow, notePins, cleaner, activating, gens, notices,
                       raidFaults, raidCrashes, torn>>
    BY <1>3 DEF R!DeadlinePasses
  <2>2. Typed'  BY <1>t, <2>1 DEF Typed
  <2>3. PinLock' /\ LedgerFirst' /\ R!PinsInLedger' /\ Agreed'
    BY <2>1
    DEF RaidInv, PinLock, LedgerFirst, R!PinsInLedger, Agreed, R!HolderPins, R!CleanerPins,
    R!Step
  <2>4. QED  BY <2>2, <2>3 DEF RaidInv
<1>4. QED  BY <1>1, <1>2, <1>3 DEF R!Ending

\* A stop loses the memory, and the start makes it anew from what is stored.
LEMMA StopKeeps ==
  ASSUME R!RaidAssumption, RaidInv, NEW retired \in SUBSET R!Messages, R!Stop(retired)
  PROVE  RaidInv'
<1> DEFINE left == [groupRow EXCEPT !.ledger = @ \ retired]
           restore == [R!Free EXCEPT !.at = "restore"]
<1>t. Typed  BY DEF RaidInv
<1>1. /\ notePins' = notePins \ retired /\ groupRow' = left
      /\ guard' = R!Unarmed /\ cleaner' = R!Idle /\ activating' = FALSE /\ lifecycle' = restore
      /\ torn' = FALSE /\ UNCHANGED <<past, gens, notices, raidFaults>>
  BY DEF R!Stop
<1>2. raidCrashes' \in 0..MaxRaidCrashes  BY <1>t, Blanks DEF R!Stop, Typed
<1>3. left \in Row /\ left.ledger = groupRow.ledger \ retired  BY <1>t DEF Typed, Row
<1>4. restore \in Holder /\ restore.at = "restore"  BY Blanks DEF Holder, R!Free, R!Steps
<1>5. R!Idle.at = "off"  BY DEF R!Idle
<1> HIDE DEF left, restore
<1>6. Typed'  BY <1>t, <1>1, <1>2, <1>3, <1>4, Blanks DEF Typed
<1>7. PinLock' /\ LedgerFirst' /\ R!PinsInLedger' /\ Agreed'
  BY <1>1, <1>3, <1>4, <1>5
  DEF RaidInv, PinLock, LedgerFirst, R!PinsInLedger, Agreed, R!HolderPins, R!CleanerPins,
  R!Step
<1>8. QED  BY <1>6, <1>7 DEF RaidInv

\* The start arms what is stored and takes over the ledger.
LEMMA RestoreKeeps == ASSUME R!RaidAssumption, RaidInv, R!Restore PROVE RaidInv'
<1> DEFINE kept == groupRow.manual
           anew == [R!Unarmed EXCEPT !.owned = groupRow.ledger, !.copy = kept, !.until = kept.until,
                       !.source = IF kept.on THEN "manual" ELSE "none",
                       !.status = kept.msg, !.intent = kept.pin]
<1>t. Typed  BY DEF RaidInv
<1>1. /\ R!Step("restore") /\ guard' = anew /\ (R!Go("ledger") \/ R!Go("wait"))
      /\ cleaner' = R!Rescheduled(guard')
      /\ UNCHANGED <<groupRow, notePins, activating, past, gens, notices, raidFaults,
                     raidCrashes, torn>>
  BY DEF R!Restore
<1>2. kept \in R!States /\ groupRow.ledger \subseteq R!Messages  BY <1>t DEF Typed, Row
<1>3. anew \in Guard /\ anew.copy = kept /\ kept.on = (anew.source = "manual")
  <2> HIDE DEF kept
  <2>1. /\ kept.until \in R!Untils /\ kept.msg \in R!Messages /\ kept.pin \in BOOLEAN
        /\ kept.on \in BOOLEAN
    BY <1>2 DEF R!States
  <2>2. QED  BY <1>2, <2>1, Blanks DEF Guard, R!Unarmed
<1> HIDE DEF anew
<1>4. cleaner' \in Cleaner /\ (cleaner' = cleaner \/ cleaner'.at = "now")
  BY <1>t, <1>1, <1>3, ScheduledPart
<1>5. lifecycle' \in Holder /\ lifecycle'.at \in {"ledger", "wait"}
  BY <1>t, <1>1, GoPart DEF R!Steps
<1>6. Typed'  BY <1>t, <1>1, <1>3, <1>4, <1>5 DEF Typed
<1>7. PinLock' /\ LedgerFirst' /\ R!PinsInLedger'
  BY <1>1, <1>4, <1>5
  DEF RaidInv, PinLock, LedgerFirst, R!PinsInLedger, R!HolderPins, R!CleanerPins, R!Step
<1>8. Agreed'  BY <1>1, <1>3 DEF Agreed
<1>9. QED  BY <1>6, <1>7, <1>8 DEF RaidInv

-----------------------------------------------------------------------------
(* The theorems *)

\* The inductive invariant of a lockdown.
THEOREM RaidInvariant ==
  ASSUME R!RaidAssumption
  PROVE  R!Init /\ [][R!Next]_raidVars => []RaidInv
<1>1. R!Init => RaidInv
  <2> SUFFICES ASSUME R!Init PROVE RaidInv  OBVIOUS
  <2>1. Typed
    <3>1. groupRow \in Row  BY Blanks DEF R!Init, Row
    <3>2. /\ lifecycle \in Holder /\ guard \in Guard /\ notePins \subseteq R!Messages
          /\ cleaner \in Cleaner /\ activating \in BOOLEAN /\ torn \in BOOLEAN
          /\ past \subseteq 1..MaxGens
      BY Blanks DEF R!Init
    <3>3. /\ gens \in 0..MaxGens /\ notices \in 0..MaxNotices
          /\ raidFaults \in 0..MaxRaidFaults /\ raidCrashes \in 0..MaxRaidCrashes
      BY Blanks DEF R!Init
    <3>4. QED  BY <3>1, <3>2, <3>3 DEF Typed
  <2>2. R!Step("free") /\ guard.source = "none" /\ ~groupRow.manual.on /\ cleaner.at = "off"
    BY Blanks DEF R!Init, R!Free, R!Unarmed, R!Idle, R!Step
  <2>7. groupRow.manual.on = FALSE  BY DEF R!Init, R!NoState
  <2>3. PinLock  BY <2>2 DEF PinLock, R!CleanerPins
  <2>4. LedgerFirst  BY <2>2 DEF LedgerFirst, R!Step
  <2>5. Agreed  BY <2>2, <2>7 DEF Agreed
  <2>6. R!PinsInLedger  BY DEF R!Init, R!PinsInLedger
  <2>8. QED  BY <2>1, <2>3, <2>4, <2>5, <2>6 DEF RaidInv
<1>2. RaidInv /\ [R!Next]_raidVars => RaidInv'
  <2>1. CASE UNCHANGED raidVars
    BY <2>1 DEF raidVars, RaidInv, Typed, PinLock, LedgerFirst, R!PinsInLedger, Agreed,
                R!HolderPins, R!CleanerPins, R!Step
  <2>2. QED
    BY <2>1, EnableKeeps, DetectKeeps, PublishKeeps, RememberKeeps, PinKeeps, CleanKeeps,
       EndKeeps, EndingKeeps, StopKeeps, RestoreKeeps DEF R!Next, R!Publish
<1>3. QED  BY <1>1, <1>2, PTL

\* Telegram has no pin that a restart could not find: every message pinned, also by a call
\* whose answer was lost, is in the ledger beside the settings (_pin_status_message_locked
\* writes it first, _unpin_status_message_locked and the cleanup take it out last).
THEOREM PinsRecoverable ==
  ASSUME R!RaidAssumption
  PROVE  R!Spec => []R!PinsInLedger
<1>1. RaidInv => R!PinsInLedger  BY DEF RaidInv
<1>2. QED  BY <1>1, RaidInvariant, PTL DEF R!Spec, R!raidVars, raidVars

\* What is enforced is what survives a restart: with the lifecycle lock free a manual
\* lockdown is in memory exactly if it is stored, and as it is stored, unless the answer of
\* a write was lost (enable_manual_lockdown, disable_manual_lockdown, _expire_lockdown).
THEOREM EnforcedIsStored ==
  ASSUME R!RaidAssumption
  PROVE  R!Spec => []R!PersistedAgrees
<1>1. RaidInv => R!PersistedAgrees  BY DEF RaidInv, Agreed, R!PersistedAgrees, R!Step
<1>2. QED  BY <1>1, RaidInvariant, PTL DEF R!Spec, R!raidVars, raidVars

-----------------------------------------------------------------------------
(* One suspect: RaidSuspects *)

\* Whose lease a row is.
RowsHeld ==
  /\ record.st \in {"none", "pending"} => record.holder = Nobody
  /\ record.st = "preparing" => record.holder = Issuer
  /\ record.st = "enforcing" => record.holder \in Arrivals \cup {Remover}

\* The steps of each kind of task.
Roles ==
  /\ suspectTask[Issuer] \in {"off", "look", "drop", "mute", "call", "muted", "prompt", "activate",
                       "abort", "repair"}
  /\ \A t \in Arrivals \cup {Remover} :
       suspectTask[t] \in {"off", "claim", "probe", "renew", "kick", "drop", "complete", "repair",
                    "ordinary"}
  /\ suspectTask[Remover] # "claim"

\* Who has been seen to be out is out, or has come back.
SeenOut == \A t \in S!Tasks : suspectTask[t] \in {"drop", "complete"} /\ suspect.present
    => bounced

\* A mute without a row is going to be looked at.
Mended ==
  suspect.muted /\ suspect.present /\ record.st = "none" /\ ~bounced =>
    \/ \E t \in S!Tasks : suspectTask[t] = "repair"
    \/ suspectTask[Issuer] \in {"muted", "abort"}
    \/ \E t \in Arrivals : suspectTask[t] = "claim"

\* A member who sits in the group without having been challenged or released.
Unchecked == suspect.present /\ record.st \in {"none", "preparing"} /\ ~suspectReleased
    /\ ~bounced

\* A join that is or will be reported as dealt with by a task that has lost the row.
DealtWith ==
  /\ consumed = "done" => ~Unchecked
  /\ \A t \in Arrivals :
       suspectTask[t] \in {"renew", "probe", "kick", "drop", "complete"} /\ ~S!Holds(t)
           => ~Unchecked

\* The inductive invariant.
SuspectInv == S!TypeOK /\ RowsHeld /\ Roles /\ SeenOut /\ Mended /\ DealtWith

\* What a row may hold, and the steps of a task.
Records == [st : {"none", "preparing", "pending", "enforcing"}, raid : BOOLEAN,
            holder : S!Tasks \cup {Nobody}, lapsed : BOOLEAN]
Steps   == {"off", "look", "mute", "call", "muted", "prompt", "activate", "abort", "drop",
            "claim", "probe", "renew", "kick", "complete", "repair", "ordinary"}

\* The rows the steps write are rows.
LEMMA RecordForms ==
  /\ S!NoRecord \in Records
  /\ \A st \in {"preparing", "enforcing"}, t \in S!Tasks :
       [st |-> st, raid |-> TRUE, holder |-> t, lapsed |-> FALSE] \in Records
  /\ \A r \in Records, b \in BOOLEAN : [r EXCEPT !.lapsed = b] \in Records
  /\ \A r \in Records :
       LET p == [r EXCEPT !.st = "pending", !.holder = Nobody]
       IN p \in Records /\ p.st = "pending" /\ p.holder = Nobody
  /\ [S!NoRecord EXCEPT !.st = "pending"] \in Records
  BY DEF Records, S!NoRecord

\* A row is prepared for a suspect.
LEMMA PrepareHolds ==
  ASSUME S!SuspectAssumption, SuspectInv, S!Prepare
  PROVE  SuspectInv'
<1> USE DEF S!SuspectAssumption, SuspectInv, S!TypeOK, S!Tasks
<1>1. S!TypeOK'
  <2>1. /\ MaxSuspectFaults \in Nat
        /\ MaxSuspectCrashes \in Nat
    OBVIOUS
  <2>0. record \in Records
    BY DEF Records
  <2>2. record' \in Records
    <3>1. [st |-> "preparing", raid |-> TRUE, holder |-> Issuer, lapsed |-> FALSE] \in Records
      BY <2>0, RecordForms
    <3> QED  BY <2>0, <3>1 DEF S!Tasks, S!Prepare, S!Start, S!Lease, S!Go
  <2>3. suspect' \in [present : BOOLEAN, muted : BOOLEAN]
    BY DEF S!Prepare, S!Start, S!Lease, S!Go
  <2>4. suspectTask' \in [S!Tasks -> Steps]
    BY DEF Steps, S!Prepare, S!Start, S!Lease, S!Go
  <2>5. used' \subseteq S!Tasks
    BY DEF S!Prepare, S!Start, S!Lease, S!Go
  <2>6. /\ consumed' \in {"no", "done", "trusted"}
        /\ suspectReleased' \in BOOLEAN
        /\ bounced' \in BOOLEAN
    BY DEF S!Prepare, S!Start, S!Lease, S!Go
  <2>7. /\ suspectFaults' \in 0..MaxSuspectFaults
        /\ suspectCrashes' \in 0..MaxSuspectCrashes
    BY <2>1 DEF S!Prepare, S!Start, S!Lease, S!Go
  <2> QED  BY <2>2, <2>3, <2>4, <2>5, <2>6, <2>7 DEF Records, Steps
<1>2. RowsHeld' /\ Roles'
  BY DEF S!Prepare, S!Start, S!Lease, S!Go, RowsHeld, Roles, S!NoRecord
<1>3. SeenOut'
  BY DEF S!Prepare, S!Start, S!Lease, S!Go, SeenOut, Roles, S!NoRecord
<1>4. Mended'
  BY DEF S!Prepare, S!Start, S!Lease, S!Go, Mended, RowsHeld, Roles, SeenOut, S!NoRecord
<1>5. DealtWith'
  BY DEF S!Prepare, S!Start, S!Lease, S!Go, DealtWith, Unchecked, RowsHeld, Roles, SeenOut,
     S!Holds, S!NoRecord
<1> QED  BY <1>1, <1>2, <1>3, <1>4, <1>5

\* The issuer looks whether the suspect is still there.
LEMMA LookHolds ==
  ASSUME S!SuspectAssumption, SuspectInv, S!Look
  PROVE  SuspectInv'
<1> USE DEF S!SuspectAssumption, SuspectInv, S!TypeOK, S!Tasks
<1>1. S!TypeOK'
  BY DEF S!Look, S!At, S!Go, S!Fine, S!Fault, S!Holds, RowsHeld, Roles, S!NoRecord
<1>2. RowsHeld' /\ Roles'
  BY DEF S!Look, S!At, S!Go, S!Fine, S!Fault, S!Holds, RowsHeld, Roles, S!NoRecord
<1>3. SeenOut'
  BY DEF S!Look, S!At, S!Go, S!Fine, S!Fault, S!Holds, SeenOut, Roles, S!NoRecord
<1>4. Mended'
  BY DEF S!Look, S!At, S!Go, S!Fine, S!Fault, S!Holds, Mended, RowsHeld, Roles, SeenOut,
     S!NoRecord
<1>5. DealtWith'
  BY DEF S!Look, S!At, S!Go, S!Fine, S!Fault, S!Holds, DealtWith, Unchecked, RowsHeld, Roles,
     SeenOut, S!NoRecord
<1> QED  BY <1>1, <1>2, <1>3, <1>4, <1>5

\* The prepared row of an absent member is dropped.
LEMMA DropAbsentHolds ==
  ASSUME S!SuspectAssumption, SuspectInv, S!DropAbsent
  PROVE  SuspectInv'
<1> USE DEF S!SuspectAssumption, SuspectInv, S!TypeOK, S!Tasks
<1>1. S!TypeOK'
  <2>1. /\ MaxSuspectFaults \in Nat
        /\ MaxSuspectCrashes \in Nat
    OBVIOUS
  <2>0. record \in Records
    BY DEF Records
  <2>2. record' \in Records
    BY <2>0, RecordForms DEF S!Tasks, S!DropAbsent, S!At, S!Go, S!Drop, S!Holds
  <2>3. suspect' \in [present : BOOLEAN, muted : BOOLEAN]
    BY DEF S!DropAbsent, S!At, S!Go, S!Drop, S!Holds, S!NoRecord
  <2>4. suspectTask' \in [S!Tasks -> Steps]
    BY DEF Steps, S!DropAbsent, S!At, S!Go, S!Drop, S!Holds, S!NoRecord
  <2>5. used' \subseteq S!Tasks
    BY DEF S!DropAbsent, S!At, S!Go, S!Drop, S!Holds, S!NoRecord
  <2>6. /\ consumed' \in {"no", "done", "trusted"}
        /\ suspectReleased' \in BOOLEAN
        /\ bounced' \in BOOLEAN
    BY DEF S!DropAbsent, S!At, S!Go, S!Drop, S!Holds, S!NoRecord
  <2>7. /\ suspectFaults' \in 0..MaxSuspectFaults
        /\ suspectCrashes' \in 0..MaxSuspectCrashes
    BY <2>1 DEF S!DropAbsent, S!At, S!Go, S!Drop, S!Holds, S!NoRecord
  <2> QED  BY <2>2, <2>3, <2>4, <2>5, <2>6, <2>7 DEF Records, Steps
<1>2. RowsHeld' /\ Roles'
  BY DEF S!DropAbsent, S!At, S!Go, S!Drop, S!Holds, S!NoRecord, RowsHeld, Roles
<1>3. SeenOut'
  BY DEF S!DropAbsent, S!At, S!Go, S!Drop, S!Holds, S!NoRecord, SeenOut, Roles
<1>4. Mended'
  BY DEF S!DropAbsent, S!At, S!Go, S!Drop, S!Holds, S!NoRecord, Mended, RowsHeld, Roles,
     SeenOut
<1>5. DealtWith'
  BY DEF S!DropAbsent, S!At, S!Go, S!Drop, S!Holds, S!NoRecord, DealtWith, Unchecked,
     RowsHeld, Roles, SeenOut
<1> QED  BY <1>1, <1>2, <1>3, <1>4, <1>5

\* The lease is renewed before the mute.
LEMMA RenewToMuteHolds ==
  ASSUME S!SuspectAssumption, SuspectInv, S!RenewToMute
  PROVE  SuspectInv'
<1> USE DEF S!SuspectAssumption, SuspectInv, S!TypeOK, S!Tasks
<1>1. S!TypeOK'
  BY DEF S!RenewToMute, S!At, S!Go, S!Holds, RowsHeld, Roles, S!NoRecord
<1>2. RowsHeld' /\ Roles'
  BY DEF S!RenewToMute, S!At, S!Go, S!Holds, RowsHeld, Roles, S!NoRecord
<1>3. SeenOut'
  BY DEF S!RenewToMute, S!At, S!Go, S!Holds, SeenOut, Roles, S!NoRecord
<1>4. Mended'
  BY DEF S!RenewToMute, S!At, S!Go, S!Holds, Mended, RowsHeld, Roles, SeenOut, S!NoRecord
<1>5. DealtWith'
  BY DEF S!RenewToMute, S!At, S!Go, S!Holds, DealtWith, Unchecked, RowsHeld, Roles, SeenOut,
     S!NoRecord
<1> QED  BY <1>1, <1>2, <1>3, <1>4, <1>5

\* The mute, done, failed or landed without an answer.
LEMMA MuteOneHolds ==
  ASSUME S!SuspectAssumption, SuspectInv, S!MuteOne
  PROVE  SuspectInv'
<1> USE DEF S!SuspectAssumption, SuspectInv, S!TypeOK, S!Tasks
<1>1. S!TypeOK'
  <2>1. /\ MaxSuspectFaults \in Nat
        /\ MaxSuspectCrashes \in Nat
    OBVIOUS
  <2>0. record \in Records
    BY DEF Records
  <2>2. record' \in Records
    BY <2>0, RecordForms DEF S!Tasks, S!MuteOne, S!At, S!Go, S!Fine, S!Fault, S!Mute
  <2>3. suspect' \in [present : BOOLEAN, muted : BOOLEAN]
    BY DEF S!MuteOne, S!At, S!Go, S!Fine, S!Fault, S!Mute
  <2>4. suspectTask' \in [S!Tasks -> Steps]
    BY DEF Steps, S!MuteOne, S!At, S!Go, S!Fine, S!Fault, S!Mute
  <2>5. used' \subseteq S!Tasks
    BY DEF S!MuteOne, S!At, S!Go, S!Fine, S!Fault, S!Mute
  <2>6. /\ consumed' \in {"no", "done", "trusted"}
        /\ suspectReleased' \in BOOLEAN
        /\ bounced' \in BOOLEAN
    BY DEF S!MuteOne, S!At, S!Go, S!Fine, S!Fault, S!Mute
  <2>7. /\ suspectFaults' \in 0..MaxSuspectFaults
        /\ suspectCrashes' \in 0..MaxSuspectCrashes
    BY <2>1 DEF S!MuteOne, S!At, S!Go, S!Fine, S!Fault, S!Mute
  <2> QED  BY <2>2, <2>3, <2>4, <2>5, <2>6, <2>7 DEF Records, Steps
<1>2. RowsHeld' /\ Roles'
  BY DEF S!MuteOne, S!At, S!Go, S!Fine, S!Fault, S!Mute, RowsHeld, Roles, S!NoRecord
<1>3. SeenOut'
  BY DEF S!MuteOne, S!At, S!Go, S!Fine, S!Fault, S!Mute, SeenOut, Roles, S!NoRecord
<1>4. Mended'
  BY DEF S!MuteOne, S!At, S!Go, S!Fine, S!Fault, S!Mute, Mended, RowsHeld, Roles, SeenOut,
     S!NoRecord
<1>5. DealtWith'
  BY DEF S!MuteOne, S!At, S!Go, S!Fine, S!Fault, S!Mute, DealtWith, Unchecked, RowsHeld,
     Roles, SeenOut, S!Holds, S!NoRecord
<1> QED  BY <1>1, <1>2, <1>3, <1>4, <1>5

\* The lease is renewed after the mute.
LEMMA RenewMutedHolds ==
  ASSUME S!SuspectAssumption, SuspectInv, S!RenewMuted
  PROVE  SuspectInv'
<1> USE DEF S!SuspectAssumption, SuspectInv, S!TypeOK, S!Tasks
<1>1. S!TypeOK'
  <2>1. /\ MaxSuspectFaults \in Nat
        /\ MaxSuspectCrashes \in Nat
    OBVIOUS
  <2>0. record \in Records
    BY DEF Records
  <2>2. record' \in Records
    <3>1. [record EXCEPT !.lapsed = FALSE] \in Records
      BY <2>0, RecordForms
    <3> QED  BY <2>0, <3>1 DEF S!Tasks, S!RenewMuted, S!At, S!Go, S!Holds
  <2>3. suspect' \in [present : BOOLEAN, muted : BOOLEAN]
    BY DEF S!RenewMuted, S!At, S!Go, S!Holds
  <2>4. suspectTask' \in [S!Tasks -> Steps]
    BY DEF Steps, S!RenewMuted, S!At, S!Go, S!Holds
  <2>5. used' \subseteq S!Tasks
    BY DEF S!RenewMuted, S!At, S!Go, S!Holds
  <2>6. /\ consumed' \in {"no", "done", "trusted"}
        /\ suspectReleased' \in BOOLEAN
        /\ bounced' \in BOOLEAN
    BY DEF S!RenewMuted, S!At, S!Go, S!Holds
  <2>7. /\ suspectFaults' \in 0..MaxSuspectFaults
        /\ suspectCrashes' \in 0..MaxSuspectCrashes
    BY <2>1 DEF S!RenewMuted, S!At, S!Go, S!Holds
  <2> QED  BY <2>2, <2>3, <2>4, <2>5, <2>6, <2>7 DEF Records, Steps
<1>2. RowsHeld' /\ Roles'
  BY DEF S!RenewMuted, S!At, S!Go, S!Holds, RowsHeld, Roles, S!NoRecord
<1>3. SeenOut'
  BY DEF S!RenewMuted, S!At, S!Go, S!Holds, SeenOut, Roles, S!NoRecord
<1>4. Mended'
  BY DEF S!RenewMuted, S!At, S!Go, S!Holds, Mended, RowsHeld, Roles, SeenOut, S!NoRecord
<1>5. DealtWith'
  BY DEF S!RenewMuted, S!At, S!Go, S!Holds, DealtWith, Unchecked, RowsHeld, Roles, SeenOut,
     S!NoRecord
<1> QED  BY <1>1, <1>2, <1>3, <1>4, <1>5

\* The prompt of the muted suspects is sent or not.
LEMMA PromptHolds ==
  ASSUME S!SuspectAssumption, SuspectInv, S!Prompt
  PROVE  SuspectInv'
<1> USE DEF S!SuspectAssumption, SuspectInv, S!TypeOK, S!Tasks
<1>1. S!TypeOK'
  BY DEF S!Prompt, S!At, S!Go, S!Fine, S!Fault, RowsHeld, Roles, S!NoRecord
<1>2. RowsHeld' /\ Roles'
  BY DEF S!Prompt, S!At, S!Go, S!Fine, S!Fault, RowsHeld, Roles, S!NoRecord
<1>3. SeenOut'
  BY DEF S!Prompt, S!At, S!Go, S!Fine, S!Fault, SeenOut, Roles, S!NoRecord
<1>4. Mended'
  BY DEF S!Prompt, S!At, S!Go, S!Fine, S!Fault, Mended, RowsHeld, Roles, SeenOut, S!NoRecord
<1>5. DealtWith'
  BY DEF S!Prompt, S!At, S!Go, S!Fine, S!Fault, DealtWith, Unchecked, RowsHeld, Roles,
     SeenOut, S!Holds, S!NoRecord
<1> QED  BY <1>1, <1>2, <1>3, <1>4, <1>5

\* The prepared row becomes pending.
LEMMA ActivateHolds ==
  ASSUME S!SuspectAssumption, SuspectInv, S!Activate
  PROVE  SuspectInv'
<1> USE DEF S!SuspectAssumption, SuspectInv, S!TypeOK, S!Tasks
<1>0. record \in Records
  BY DEF Records
<1>p. LET p == [record EXCEPT !.st = "pending", !.holder = Nobody]
      IN p.st = "pending" /\ p.holder = Nobody
  BY <1>0, RecordForms
<1>1. S!TypeOK'
  <2>1. /\ MaxSuspectFaults \in Nat
        /\ MaxSuspectCrashes \in Nat
    OBVIOUS
  <2>0. record \in Records
    BY DEF Records
  <2>2. record' \in Records
    <3>1. [record EXCEPT !.st = "pending", !.holder = Nobody] \in Records
      BY <2>0, RecordForms
    <3> QED  BY <2>0, <3>1 DEF S!Tasks, S!Activate, S!At, S!Go, S!Holds
  <2>3. suspect' \in [present : BOOLEAN, muted : BOOLEAN]
    BY DEF S!Activate, S!At, S!Go, S!Holds
  <2>4. suspectTask' \in [S!Tasks -> Steps]
    BY DEF Steps, S!Activate, S!At, S!Go, S!Holds
  <2>5. used' \subseteq S!Tasks
    BY DEF S!Activate, S!At, S!Go, S!Holds
  <2>6. /\ consumed' \in {"no", "done", "trusted"}
        /\ suspectReleased' \in BOOLEAN
        /\ bounced' \in BOOLEAN
    BY DEF S!Activate, S!At, S!Go, S!Holds
  <2>7. /\ suspectFaults' \in 0..MaxSuspectFaults
        /\ suspectCrashes' \in 0..MaxSuspectCrashes
    BY <2>1 DEF S!Activate, S!At, S!Go, S!Holds
  <2> QED  BY <2>2, <2>3, <2>4, <2>5, <2>6, <2>7 DEF Records, Steps
<1>2. RowsHeld' /\ Roles'
  <2>1. CASE S!Holds(Issuer)
    <3>1. record'.st = "pending" /\ record'.holder = Nobody
      BY <1>p, <2>1 DEF S!Activate
    <3> QED  BY <3>1, <2>1 DEF S!Activate, S!At, S!Go, RowsHeld, Roles
  <2>2. CASE ~S!Holds(Issuer)
    BY <2>2 DEF S!Activate, S!At, S!Go, RowsHeld, Roles
  <2> QED  BY <2>1, <2>2
<1>3. SeenOut'
  BY DEF S!Activate, S!At, S!Go, S!Holds, SeenOut, Roles, S!NoRecord
<1>4. Mended'
  BY <1>p DEF S!Activate, S!At, S!Go, S!Holds, Mended, RowsHeld, Roles, SeenOut
<1>5. DealtWith'
  BY DEF S!Activate, S!At, S!Go, S!Holds, DealtWith, Unchecked, RowsHeld, Roles, SeenOut,
     S!NoRecord
<1> QED  BY <1>1, <1>2, <1>3, <1>4, <1>5

\* The issuer gives the suspect up.
LEMMA AbortHolds ==
  ASSUME S!SuspectAssumption, SuspectInv, S!Abort
  PROVE  SuspectInv'
<1> USE DEF S!SuspectAssumption, SuspectInv, S!TypeOK, S!Tasks
<1>1. S!TypeOK'
  <2>1. /\ MaxSuspectFaults \in Nat
        /\ MaxSuspectCrashes \in Nat
    OBVIOUS
  <2>0. record \in Records
    BY DEF Records
  <2>2. record' \in Records
    BY <2>0, RecordForms DEF S!Tasks, S!Abort, S!At, S!Go, S!Holds, S!Drop, S!Mute, S!Fine,
       S!Fault
  <2>3. suspect' \in [present : BOOLEAN, muted : BOOLEAN]
    BY DEF S!Abort, S!At, S!Go, S!Holds, S!Drop, S!Mute, S!NoRecord, S!Fine, S!Fault
  <2>4. suspectTask' \in [S!Tasks -> Steps]
    BY DEF Steps, S!Abort, S!At, S!Go, S!Holds, S!Drop, S!Mute, S!NoRecord, S!Fine, S!Fault
  <2>5. used' \subseteq S!Tasks
    BY DEF S!Abort, S!At, S!Go, S!Holds, S!Drop, S!Mute, S!NoRecord, S!Fine, S!Fault
  <2>6. /\ consumed' \in {"no", "done", "trusted"}
        /\ suspectReleased' \in BOOLEAN
        /\ bounced' \in BOOLEAN
    BY DEF S!Abort, S!At, S!Go, S!Holds, S!Drop, S!Mute, S!NoRecord, S!Fine, S!Fault
  <2>7. /\ suspectFaults' \in 0..MaxSuspectFaults
        /\ suspectCrashes' \in 0..MaxSuspectCrashes
    BY <2>1 DEF S!Abort, S!At, S!Go, S!Holds, S!Drop, S!Mute, S!NoRecord, S!Fine, S!Fault
  <2> QED  BY <2>2, <2>3, <2>4, <2>5, <2>6, <2>7 DEF Records, Steps
<1>2. RowsHeld' /\ Roles'
  BY DEF S!Abort, S!At, S!Go, S!Holds, S!Drop, S!Mute, S!NoRecord, S!Fine, S!Fault, RowsHeld,
     Roles
<1>3. SeenOut'
  BY DEF S!Abort, S!At, S!Go, S!Holds, S!Drop, S!Mute, S!NoRecord, S!Fine, S!Fault, SeenOut,
     Roles
<1>4. Mended'
  BY DEF S!Abort, S!At, S!Go, S!Holds, S!Drop, S!Mute, S!NoRecord, S!Fine, S!Fault, Mended,
     RowsHeld, Roles, SeenOut
<1>5. DealtWith'
  BY DEF S!Abort, S!At, S!Go, S!Holds, S!Drop, S!Mute, S!NoRecord, S!Fine, S!Fault, DealtWith,
     Unchecked, RowsHeld, Roles, SeenOut
<1> QED  BY <1>1, <1>2, <1>3, <1>4, <1>5

\* A mute without a row is lifted.
LEMMA RepairHolds ==
  ASSUME S!SuspectAssumption, SuspectInv, NEW t \in S!Tasks, S!Repair(t)
  PROVE  SuspectInv'
<1> USE DEF S!SuspectAssumption, SuspectInv, S!TypeOK, S!Tasks
<1>1. S!TypeOK'
  BY DEF S!Repair, S!At, S!Go, S!Mute, RowsHeld, Roles, S!NoRecord
<1>2. RowsHeld' /\ Roles'
  BY DEF S!Repair, S!At, S!Go, S!Mute, RowsHeld, Roles, S!NoRecord
<1>3. SeenOut'
  BY DEF S!Repair, S!At, S!Go, S!Mute, SeenOut, Roles, S!NoRecord
<1>4. Mended'
  BY DEF S!Repair, S!At, S!Go, S!Mute, Mended, RowsHeld, Roles, SeenOut, S!NoRecord
<1>5. DealtWith'
  BY DEF S!Repair, S!At, S!Go, S!Mute, DealtWith, Unchecked, RowsHeld, Roles, SeenOut,
     S!Holds, S!NoRecord
<1> QED  BY <1>1, <1>2, <1>3, <1>4, <1>5

\* A member joins under the lockdown.
LEMMA JoinHolds ==
  ASSUME S!SuspectAssumption, SuspectInv, NEW t \in S!Tasks, S!Join(t)
  PROVE  SuspectInv'
<1> USE DEF S!SuspectAssumption, SuspectInv, S!TypeOK, S!Tasks
<1>1. S!TypeOK'
  BY DEF S!Join, S!Start, S!Go, S!Quiet, S!At, RowsHeld, Roles, S!NoRecord
<1>2. RowsHeld' /\ Roles'
  BY DEF S!Join, S!Start, S!Go, S!Quiet, S!At, RowsHeld, Roles, S!NoRecord
<1>3. SeenOut'
  BY DEF S!Join, S!Start, S!Go, S!Quiet, S!At, SeenOut, Roles, S!NoRecord
<1>4. Mended'
  BY DEF S!Join, S!Start, S!Go, S!Quiet, S!At, Mended, RowsHeld, Roles, SeenOut, S!NoRecord
<1>5. DealtWith'
  BY DEF S!Join, S!Start, S!Go, S!Quiet, S!At, DealtWith, Unchecked, RowsHeld, Roles, SeenOut,
     S!Holds, S!NoRecord
<1> QED  BY <1>1, <1>2, <1>3, <1>4, <1>5

\* A join claims the row of its member.
LEMMA ClaimKickHolds ==
  ASSUME S!SuspectAssumption, SuspectInv, NEW t \in S!Tasks, S!ClaimKick(t)
  PROVE  SuspectInv'
<1> USE DEF S!SuspectAssumption, SuspectInv, S!TypeOK, S!Tasks
<1>1. S!TypeOK'
  <2>1. /\ MaxSuspectFaults \in Nat
        /\ MaxSuspectCrashes \in Nat
    OBVIOUS
  <2>0. record \in Records
    BY DEF Records
  <2>2. record' \in Records
    <3>1. [st |-> "enforcing", raid |-> TRUE, holder |-> t, lapsed |-> FALSE] \in Records
      BY <2>0, RecordForms
    <3> QED  BY <2>0, <3>1 DEF S!Tasks, S!ClaimKick, S!At, S!Lease, S!Go, S!PassOn, S!Claimable
  <2>3. suspect' \in [present : BOOLEAN, muted : BOOLEAN]
    BY DEF S!ClaimKick, S!At, S!Lease, S!Go, S!PassOn, S!Claimable
  <2>4. suspectTask' \in [S!Tasks -> Steps]
    BY DEF Steps, S!ClaimKick, S!At, S!Lease, S!Go, S!PassOn, S!Claimable
  <2>5. used' \subseteq S!Tasks
    BY DEF S!ClaimKick, S!At, S!Lease, S!Go, S!PassOn, S!Claimable
  <2>6. /\ consumed' \in {"no", "done", "trusted"}
        /\ suspectReleased' \in BOOLEAN
        /\ bounced' \in BOOLEAN
    BY DEF S!ClaimKick, S!At, S!Lease, S!Go, S!PassOn, S!Claimable
  <2>7. /\ suspectFaults' \in 0..MaxSuspectFaults
        /\ suspectCrashes' \in 0..MaxSuspectCrashes
    BY <2>1 DEF S!ClaimKick, S!At, S!Lease, S!Go, S!PassOn, S!Claimable
  <2> QED  BY <2>2, <2>3, <2>4, <2>5, <2>6, <2>7 DEF Records, Steps
<1>2. RowsHeld' /\ Roles'
  BY DEF S!ClaimKick, S!At, S!Lease, S!Go, S!PassOn, S!Claimable, RowsHeld, Roles, S!NoRecord
<1>3. SeenOut'
  BY DEF S!ClaimKick, S!At, S!Lease, S!Go, S!PassOn, S!Claimable, SeenOut, Roles, S!NoRecord
<1>4. Mended'
  BY DEF S!ClaimKick, S!At, S!Lease, S!Go, S!PassOn, S!Claimable, Mended, RowsHeld, Roles,
     SeenOut, S!NoRecord
<1>5. DealtWith'
  BY DEF S!ClaimKick, S!At, S!Lease, S!Go, S!PassOn, S!Claimable, DealtWith, Unchecked,
     RowsHeld, Roles, SeenOut, S!Holds, S!NoRecord
<1> QED  BY <1>1, <1>2, <1>3, <1>4, <1>5

\* The lease of a kick is renewed, or lost.
LEMMA RenewHolds ==
  ASSUME S!SuspectAssumption, SuspectInv, NEW t \in S!Tasks, S!Renew(t)
  PROVE  SuspectInv'
<1> USE DEF S!SuspectAssumption, SuspectInv, S!TypeOK, S!Tasks
<1>1. S!TypeOK'
  <2>1. /\ MaxSuspectFaults \in Nat
        /\ MaxSuspectCrashes \in Nat
    OBVIOUS
  <2>0. record \in Records
    BY DEF Records
  <2>2. record' \in Records
    <3>1. [record EXCEPT !.lapsed = FALSE] \in Records
      BY <2>0, RecordForms
    <3> QED  BY <2>0, <3>1 DEF S!Tasks, S!Renew, S!Renewed, S!At, S!Go, S!Holds, S!Consume
  <2>3. suspect' \in [present : BOOLEAN, muted : BOOLEAN]
    BY DEF S!Renew, S!Renewed, S!At, S!Go, S!Holds, S!Consume
  <2>4. suspectTask' \in [S!Tasks -> Steps]
    BY DEF Steps, S!Renew, S!Renewed, S!At, S!Go, S!Holds, S!Consume
  <2>5. used' \subseteq S!Tasks
    BY DEF S!Renew, S!Renewed, S!At, S!Go, S!Holds, S!Consume
  <2>6. /\ consumed' \in {"no", "done", "trusted"}
        /\ suspectReleased' \in BOOLEAN
        /\ bounced' \in BOOLEAN
    BY DEF S!Renew, S!Renewed, S!At, S!Go, S!Holds, S!Consume
  <2>7. /\ suspectFaults' \in 0..MaxSuspectFaults
        /\ suspectCrashes' \in 0..MaxSuspectCrashes
    BY <2>1 DEF S!Renew, S!Renewed, S!At, S!Go, S!Holds, S!Consume
  <2> QED  BY <2>2, <2>3, <2>4, <2>5, <2>6, <2>7 DEF Records, Steps
<1>2. RowsHeld' /\ Roles'
  BY DEF S!Renew, S!Renewed, S!At, S!Go, S!Holds, S!Consume, RowsHeld, Roles, S!NoRecord
<1>3. SeenOut'
  BY DEF S!Renew, S!Renewed, S!At, S!Go, S!Holds, S!Consume, SeenOut, Roles, S!NoRecord
<1>4. Mended'
  BY DEF S!Renew, S!Renewed, S!At, S!Go, S!Holds, S!Consume, Mended, RowsHeld, Roles, SeenOut,
     S!NoRecord
<1>5. DealtWith'
  BY DEF S!Renew, S!Renewed, S!At, S!Go, S!Holds, S!Consume, DealtWith, Unchecked, RowsHeld,
     Roles, SeenOut, S!NoRecord
<1> QED  BY <1>1, <1>2, <1>3, <1>4, <1>5

\* Presence is read before the kick.
LEMMA ProbeHolds ==
  ASSUME S!SuspectAssumption, SuspectInv, NEW t \in S!Tasks, S!Probe(t)
  PROVE  SuspectInv'
<1> USE DEF S!SuspectAssumption, SuspectInv, S!TypeOK, S!Tasks
<1>1. S!TypeOK'
  BY DEF S!Probe, S!At, S!Go, S!PassOn, S!Fine, S!Fault, RowsHeld, Roles, S!NoRecord
<1>2. RowsHeld' /\ Roles'
  BY DEF S!Probe, S!At, S!Go, S!PassOn, S!Fine, S!Fault, RowsHeld, Roles, S!NoRecord
<1>3. SeenOut'
  BY DEF S!Probe, S!At, S!Go, S!PassOn, S!Fine, S!Fault, SeenOut, Roles, S!NoRecord
<1>4. Mended'
  BY DEF S!Probe, S!At, S!Go, S!PassOn, S!Fine, S!Fault, Mended, RowsHeld, Roles, SeenOut,
     S!NoRecord
<1>5. DealtWith'
  BY DEF S!Probe, S!At, S!Go, S!PassOn, S!Fine, S!Fault, DealtWith, Unchecked, RowsHeld,
     Roles, SeenOut, S!Holds, S!NoRecord
<1> QED  BY <1>1, <1>2, <1>3, <1>4, <1>5

\* The row of a member seen to be out is dropped.
LEMMA DropGoneHolds ==
  ASSUME S!SuspectAssumption, SuspectInv, NEW t \in S!Tasks, S!DropGone(t)
  PROVE  SuspectInv'
<1> USE DEF S!SuspectAssumption, SuspectInv, S!TypeOK, S!Tasks
<1>1. S!TypeOK'
  <2>1. /\ MaxSuspectFaults \in Nat
        /\ MaxSuspectCrashes \in Nat
    OBVIOUS
  <2>0. record \in Records
    BY DEF Records
  <2>2. record' \in Records
    BY <2>0, RecordForms DEF S!Tasks, S!DropGone, S!At, S!Drop, S!Consume, S!Go, S!Holds
  <2>3. suspect' \in [present : BOOLEAN, muted : BOOLEAN]
    BY DEF S!DropGone, S!At, S!Drop, S!Consume, S!Go, S!Holds, S!NoRecord
  <2>4. suspectTask' \in [S!Tasks -> Steps]
    BY DEF Steps, S!DropGone, S!At, S!Drop, S!Consume, S!Go, S!Holds, S!NoRecord
  <2>5. used' \subseteq S!Tasks
    BY DEF S!DropGone, S!At, S!Drop, S!Consume, S!Go, S!Holds, S!NoRecord
  <2>6. /\ consumed' \in {"no", "done", "trusted"}
        /\ suspectReleased' \in BOOLEAN
        /\ bounced' \in BOOLEAN
    BY DEF S!DropGone, S!At, S!Drop, S!Consume, S!Go, S!Holds, S!NoRecord
  <2>7. /\ suspectFaults' \in 0..MaxSuspectFaults
        /\ suspectCrashes' \in 0..MaxSuspectCrashes
    BY <2>1 DEF S!DropGone, S!At, S!Drop, S!Consume, S!Go, S!Holds, S!NoRecord
  <2> QED  BY <2>2, <2>3, <2>4, <2>5, <2>6, <2>7 DEF Records, Steps
<1>2. RowsHeld' /\ Roles'
  BY DEF S!DropGone, S!At, S!Drop, S!Consume, S!Go, S!Holds, S!NoRecord, RowsHeld, Roles
<1>3. SeenOut'
  BY DEF S!DropGone, S!At, S!Drop, S!Consume, S!Go, S!Holds, S!NoRecord, SeenOut, Roles
<1>4. Mended'
  BY DEF S!DropGone, S!At, S!Drop, S!Consume, S!Go, S!Holds, S!NoRecord, Mended, RowsHeld,
     Roles, SeenOut
<1>5. DealtWith'
  BY DEF S!DropGone, S!At, S!Drop, S!Consume, S!Go, S!Holds, S!NoRecord, DealtWith, Unchecked,
     RowsHeld, Roles, SeenOut
<1> QED  BY <1>1, <1>2, <1>3, <1>4, <1>5

\* The kick, done, failed or landed without an answer.
LEMMA KickHolds ==
  ASSUME S!SuspectAssumption, SuspectInv, NEW t \in S!Tasks, S!Kick(t)
  PROVE  SuspectInv'
<1> USE DEF S!SuspectAssumption, SuspectInv, S!TypeOK, S!Tasks
<1>1. S!TypeOK'
  <2>1. /\ MaxSuspectFaults \in Nat
        /\ MaxSuspectCrashes \in Nat
    OBVIOUS
  <2>0. record \in Records
    BY DEF Records
  <2>2. record' \in Records
    BY <2>0, RecordForms DEF S!Tasks, S!Kick, S!At, S!Go, S!PassOn, S!Fine, S!Fault
  <2>3. suspect' \in [present : BOOLEAN, muted : BOOLEAN]
    <3>1. [present |-> FALSE, muted |-> FALSE] \in [present : BOOLEAN, muted : BOOLEAN]
      OBVIOUS
    <3> QED  BY <3>1 DEF S!Kick
  <2>4. suspectTask' \in [S!Tasks -> Steps]
    BY DEF Steps, S!Kick, S!At, S!Go, S!PassOn, S!Fine, S!Fault
  <2>5. used' \subseteq S!Tasks
    BY DEF S!Kick, S!At, S!Go, S!PassOn, S!Fine, S!Fault
  <2>6. /\ consumed' \in {"no", "done", "trusted"}
        /\ suspectReleased' \in BOOLEAN
        /\ bounced' \in BOOLEAN
    BY DEF S!Kick, S!At, S!Go, S!PassOn, S!Fine, S!Fault
  <2>7. /\ suspectFaults' \in 0..MaxSuspectFaults
        /\ suspectCrashes' \in 0..MaxSuspectCrashes
    BY <2>1 DEF S!Kick, S!At, S!Go, S!PassOn, S!Fine, S!Fault
  <2> QED  BY <2>2, <2>3, <2>4, <2>5, <2>6, <2>7 DEF Records, Steps
<1>2. RowsHeld' /\ Roles'
  BY DEF S!Kick, S!At, S!Go, S!PassOn, S!Fine, S!Fault, RowsHeld, Roles, S!NoRecord
<1>3. SeenOut'
  BY DEF S!Kick, S!At, S!Go, S!PassOn, S!Fine, S!Fault, SeenOut, Roles, S!NoRecord
<1>4. Mended'
  BY DEF S!Kick, S!At, S!Go, S!PassOn, S!Fine, S!Fault, Mended, RowsHeld, Roles, SeenOut,
     S!NoRecord
<1>5. DealtWith'
  BY DEF S!Kick, S!At, S!Go, S!PassOn, S!Fine, S!Fault, DealtWith, Unchecked, RowsHeld, Roles,
     SeenOut, S!Holds, S!NoRecord
<1> QED  BY <1>1, <1>2, <1>3, <1>4, <1>5

\* The row of a kicked member is completed.
LEMMA CompleteKickHolds ==
  ASSUME S!SuspectAssumption, SuspectInv, NEW t \in S!Tasks, S!CompleteKick(t)
  PROVE  SuspectInv'
<1> USE DEF S!SuspectAssumption, SuspectInv, S!TypeOK, S!Tasks
<1>1. S!TypeOK'
  <2>1. /\ MaxSuspectFaults \in Nat
        /\ MaxSuspectCrashes \in Nat
    OBVIOUS
  <2>0. record \in Records
    BY DEF Records
  <2>2. record' \in Records
    BY <2>0, RecordForms DEF S!Tasks, S!CompleteKick, S!At, S!Drop, S!Consume, S!Go, S!Holds
  <2>3. suspect' \in [present : BOOLEAN, muted : BOOLEAN]
    BY DEF S!CompleteKick, S!At, S!Drop, S!Consume, S!Go, S!Holds, S!NoRecord
  <2>4. suspectTask' \in [S!Tasks -> Steps]
    BY DEF Steps, S!CompleteKick, S!At, S!Drop, S!Consume, S!Go, S!Holds, S!NoRecord
  <2>5. used' \subseteq S!Tasks
    BY DEF S!CompleteKick, S!At, S!Drop, S!Consume, S!Go, S!Holds, S!NoRecord
  <2>6. /\ consumed' \in {"no", "done", "trusted"}
        /\ suspectReleased' \in BOOLEAN
        /\ bounced' \in BOOLEAN
    BY DEF S!CompleteKick, S!At, S!Drop, S!Consume, S!Go, S!Holds, S!NoRecord
  <2>7. /\ suspectFaults' \in 0..MaxSuspectFaults
        /\ suspectCrashes' \in 0..MaxSuspectCrashes
    BY <2>1 DEF S!CompleteKick, S!At, S!Drop, S!Consume, S!Go, S!Holds, S!NoRecord
  <2> QED  BY <2>2, <2>3, <2>4, <2>5, <2>6, <2>7 DEF Records, Steps
<1>2. RowsHeld' /\ Roles'
  BY DEF S!CompleteKick, S!At, S!Drop, S!Consume, S!Go, S!Holds, S!NoRecord, RowsHeld, Roles
<1>3. SeenOut'
  BY DEF S!CompleteKick, S!At, S!Drop, S!Consume, S!Go, S!Holds, S!NoRecord, SeenOut, Roles
<1>4. Mended'
  BY DEF S!CompleteKick, S!At, S!Drop, S!Consume, S!Go, S!Holds, S!NoRecord, Mended, RowsHeld,
     Roles, SeenOut
<1>5. DealtWith'
  BY DEF S!CompleteKick, S!At, S!Drop, S!Consume, S!Go, S!Holds, S!NoRecord, DealtWith,
     Unchecked, RowsHeld, Roles, SeenOut
<1> QED  BY <1>1, <1>2, <1>3, <1>4, <1>5

\* A join goes on to the ordinary verification.
LEMMA OrdinaryHolds ==
  ASSUME S!SuspectAssumption, SuspectInv, NEW t \in S!Tasks, S!Ordinary(t)
  PROVE  SuspectInv'
<1> USE DEF S!SuspectAssumption, SuspectInv, S!TypeOK, S!Tasks
<1>1. S!TypeOK'
  BY DEF S!Ordinary, S!At, S!Go, S!NoRecord, S!Mute, RowsHeld, Roles
<1>2. RowsHeld' /\ Roles'
  BY DEF S!Ordinary, S!At, S!Go, S!NoRecord, S!Mute, RowsHeld, Roles
<1>3. SeenOut'
  BY DEF S!Ordinary, S!At, S!Go, S!NoRecord, S!Mute, SeenOut, Roles
<1>4. Mended'
  BY DEF S!Ordinary, S!At, S!Go, S!NoRecord, S!Mute, Mended, RowsHeld, Roles, SeenOut
<1>5. DealtWith'
  BY DEF S!Ordinary, S!At, S!Go, S!NoRecord, S!Mute, DealtWith, Unchecked, RowsHeld, Roles,
     SeenOut, S!Holds
<1> QED  BY <1>1, <1>2, <1>3, <1>4, <1>5

\* The removal button claims the row.
LEMMA ClaimRemovalHolds ==
  ASSUME S!SuspectAssumption, SuspectInv, S!ClaimRemoval
  PROVE  SuspectInv'
<1> USE DEF S!SuspectAssumption, SuspectInv, S!TypeOK, S!Tasks
<1>1. S!TypeOK'
  BY DEF S!ClaimRemoval, S!Pressed, S!Start, S!Claimable, S!Lease, S!Go, RowsHeld, Roles,
     S!NoRecord
<1>2. RowsHeld' /\ Roles'
  BY DEF S!ClaimRemoval, S!Pressed, S!Start, S!Claimable, S!Lease, S!Go, RowsHeld, Roles,
     S!NoRecord
<1>3. SeenOut'
  BY DEF S!ClaimRemoval, S!Pressed, S!Start, S!Claimable, S!Lease, S!Go, SeenOut, Roles,
     S!NoRecord
<1>4. Mended'
  BY DEF S!ClaimRemoval, S!Pressed, S!Start, S!Claimable, S!Lease, S!Go, Mended, RowsHeld,
     Roles, SeenOut, S!NoRecord
<1>5. DealtWith'
  BY DEF S!ClaimRemoval, S!Pressed, S!Start, S!Claimable, S!Lease, S!Go, DealtWith, Unchecked,
     RowsHeld, Roles, SeenOut, S!Holds, S!NoRecord
<1> QED  BY <1>1, <1>2, <1>3, <1>4, <1>5

\* The member leaves.
LEMMA LeaveHolds ==
  ASSUME S!SuspectAssumption, SuspectInv, S!Leave
  PROVE  SuspectInv'
<1> USE DEF S!SuspectAssumption, SuspectInv, S!TypeOK, S!Tasks
<1>1. S!TypeOK'
  BY DEF S!Leave, RowsHeld, Roles, S!NoRecord
<1>2. RowsHeld' /\ Roles'
  BY DEF S!Leave, RowsHeld, Roles, S!NoRecord
<1>3. SeenOut'
  BY DEF S!Leave, SeenOut, Roles, S!NoRecord
<1>4. Mended'
  BY DEF S!Leave, Mended, RowsHeld, Roles, SeenOut, S!NoRecord
<1>5. DealtWith'
  BY DEF S!Leave, DealtWith, Unchecked, RowsHeld, Roles, SeenOut, S!Holds, S!NoRecord
<1> QED  BY <1>1, <1>2, <1>3, <1>4, <1>5

\* A pass, an approval or /unban ends the row.
LEMMA FreeHolds ==
  ASSUME S!SuspectAssumption, SuspectInv, S!Free
  PROVE  SuspectInv'
<1> USE DEF S!SuspectAssumption, SuspectInv, S!TypeOK, S!Tasks
<1>1. S!TypeOK'
  BY DEF S!Free, S!NoRecord, S!Mute, RowsHeld, Roles
<1>2. RowsHeld' /\ Roles'
  BY DEF S!Free, S!NoRecord, S!Mute, RowsHeld, Roles
<1>3. SeenOut'
  BY DEF S!Free, S!NoRecord, S!Mute, SeenOut, Roles
<1>4. Mended'
  BY DEF S!Free, S!NoRecord, S!Mute, Mended, RowsHeld, Roles, SeenOut
<1>5. DealtWith'
  BY DEF S!Free, S!NoRecord, S!Mute, DealtWith, Unchecked, RowsHeld, Roles, SeenOut, S!Holds
<1> QED  BY <1>1, <1>2, <1>3, <1>4, <1>5

\* A lease lapses.
LEMMA LeaseLapsesHolds ==
  ASSUME S!SuspectAssumption, SuspectInv, S!LeaseLapses
  PROVE  SuspectInv'
<1> USE DEF S!SuspectAssumption, SuspectInv, S!TypeOK, S!Tasks
<1>1. S!TypeOK'
  <2>1. /\ MaxSuspectFaults \in Nat
        /\ MaxSuspectCrashes \in Nat
    OBVIOUS
  <2>0. record \in Records
    BY DEF Records
  <2>2. record' \in Records
    BY <2>0, RecordForms DEF S!Tasks, S!LeaseLapses, S!Fine, S!Fault
  <2>3. suspect' \in [present : BOOLEAN, muted : BOOLEAN]
    BY DEF S!LeaseLapses, S!Fine, S!Fault
  <2>4. suspectTask' \in [S!Tasks -> Steps]
    BY DEF Steps, S!LeaseLapses, S!Fine, S!Fault
  <2>5. used' \subseteq S!Tasks
    BY DEF S!LeaseLapses, S!Fine, S!Fault
  <2>6. /\ consumed' \in {"no", "done", "trusted"}
        /\ suspectReleased' \in BOOLEAN
        /\ bounced' \in BOOLEAN
    BY DEF S!LeaseLapses, S!Fine, S!Fault
  <2>7. /\ suspectFaults' \in 0..MaxSuspectFaults
        /\ suspectCrashes' \in 0..MaxSuspectCrashes
    BY <2>1 DEF S!LeaseLapses, S!Fine, S!Fault
  <2> QED  BY <2>2, <2>3, <2>4, <2>5, <2>6, <2>7 DEF Records, Steps
<1>2. RowsHeld' /\ Roles'
  BY DEF S!LeaseLapses, S!Fine, S!Fault, RowsHeld, Roles, S!NoRecord
<1>3. SeenOut'
  BY DEF S!LeaseLapses, S!Fine, S!Fault, SeenOut, Roles, S!NoRecord
<1>4. Mended'
  BY DEF S!LeaseLapses, S!Fine, S!Fault, Mended, RowsHeld, Roles, SeenOut, S!NoRecord
<1>5. DealtWith'
  BY DEF S!LeaseLapses, S!Fine, S!Fault, DealtWith, Unchecked, RowsHeld, Roles, SeenOut,
     S!Holds, S!NoRecord
<1> QED  BY <1>1, <1>2, <1>3, <1>4, <1>5

\* The sweeper settles a row.
LEMMA SweepHolds ==
  ASSUME S!SuspectAssumption, SuspectInv, S!Sweep
  PROVE  SuspectInv'
<1> USE DEF S!SuspectAssumption, SuspectInv, S!TypeOK, S!Tasks
<1>1. S!TypeOK'
  BY DEF S!Sweep, S!NoRecord, RowsHeld, Roles
<1>2. RowsHeld' /\ Roles'
  BY DEF S!Sweep, S!NoRecord, RowsHeld, Roles
<1>3. SeenOut'
  BY DEF S!Sweep, S!NoRecord, SeenOut, Roles
<1>4. Mended'
  BY DEF S!Sweep, S!NoRecord, Mended, RowsHeld, Roles, SeenOut
<1>5. DealtWith'
  BY DEF S!Sweep, S!NoRecord, DealtWith, Unchecked, RowsHeld, Roles, SeenOut, S!Holds
<1> QED  BY <1>1, <1>2, <1>3, <1>4, <1>5

\* A crash takes every task.
LEMMA CrashHolds ==
  ASSUME S!SuspectAssumption, SuspectInv, S!Crash
  PROVE  SuspectInv'
<1> USE DEF S!SuspectAssumption, SuspectInv, S!TypeOK, S!Tasks
<1>1. S!TypeOK'
  BY DEF S!Crash, S!Holds, RowsHeld, Roles, S!NoRecord
<1>2. RowsHeld' /\ Roles'
  BY DEF S!Crash, S!Holds, RowsHeld, Roles, S!NoRecord
<1>3. SeenOut'
  BY DEF S!Crash, S!Holds, SeenOut, Roles, S!NoRecord
<1>4. Mended'
  BY DEF S!Crash, S!Holds, Mended, RowsHeld, Roles, SeenOut, S!NoRecord
<1>5. DealtWith'
  BY DEF S!Crash, S!Holds, DealtWith, Unchecked, RowsHeld, Roles, SeenOut, S!NoRecord
<1> QED  BY <1>1, <1>2, <1>3, <1>4, <1>5

\* The initial states satisfy the invariant.
LEMMA InitHolds ==
  ASSUME S!SuspectAssumption, S!Init
  PROVE  SuspectInv
<1> USE DEF S!SuspectAssumption, S!Init, S!NoRecord, S!Tasks
<1>1. S!TypeOK
  <2>1. record \in Records
    BY RecordForms
  <2>2. /\ suspectFaults \in 0..MaxSuspectFaults
        /\ suspectCrashes \in 0..MaxSuspectCrashes
    OBVIOUS
  <2>3. suspectTask \in [S!Tasks -> Steps]
    BY DEF Steps
  <2>4. suspect \in [present : BOOLEAN, muted : BOOLEAN]
    OBVIOUS
  <2> QED  BY <2>1, <2>2, <2>3, <2>4 DEF S!TypeOK, Records, Steps
<1>2. RowsHeld
  BY DEF RowsHeld
<1>3. Roles /\ SeenOut
  BY DEF Roles, SeenOut
<1>4. Mended
  BY DEF Mended
<1>5. DealtWith
  BY DEF DealtWith
<1> QED  BY <1>1, <1>2, <1>3, <1>4, <1>5 DEF SuspectInv

\* Every step, and a stutter, preserves the invariant.
LEMMA NextHolds ==
  ASSUME S!SuspectAssumption, SuspectInv, [S!Next]_suspectVars
  PROVE  SuspectInv'
<1>1. CASE UNCHANGED suspectVars
  BY <1>1 DEF suspectVars, SuspectInv, S!TypeOK, RowsHeld, Roles, SeenOut, Mended, DealtWith,
     Unchecked, S!Holds
<1>2. CASE \/ S!Prepare \/ S!Look \/ S!DropAbsent \/ S!RenewToMute \/ S!MuteOne \/ S!RenewMuted
               \/ S!Prompt
           \/ S!Activate \/ S!Abort
  BY <1>2, PrepareHolds, LookHolds, DropAbsentHolds, RenewToMuteHolds, MuteOneHolds,
     RenewMutedHolds,
     PromptHolds, ActivateHolds, AbortHolds
<1>3. ASSUME NEW t \in S!Tasks,
             \/ S!Repair(t) \/ S!Join(t) \/ S!ClaimKick(t) \/ S!Renew(t) \/ S!Probe(t)
                 \/ S!DropGone(t)
             \/ S!Kick(t) \/ S!CompleteKick(t) \/ S!Ordinary(t)
      PROVE  SuspectInv'
  BY <1>3, RepairHolds, JoinHolds, ClaimKickHolds, RenewHolds, ProbeHolds, DropGoneHolds,
     KickHolds,
     CompleteKickHolds, OrdinaryHolds
<1>4. CASE S!ClaimRemoval \/ S!Leave \/ S!Free \/ S!LeaseLapses \/ S!Sweep \/ S!Crash
  BY <1>4, ClaimRemovalHolds, LeaveHolds, FreeHolds, LeaseLapsesHolds, SweepHolds, CrashHolds
<1> QED  BY <1>1, <1>2, <1>3, <1>4 DEF S!Next

\* The inductive invariant of one suspect's row and its tasks; it contains what the checks of
\* services/raid_guard.py and handlers/membership.py are for: nobody is left muted without a
\* row, and a join taken for dealt with is dealt with.
THEOREM SuspectsInvariant ==
  ASSUME S!SuspectAssumption
  PROVE  S!Init /\ [][S!Next]_suspectVars => [](SuspectInv /\ S!NobodyLeftMuted
      /\ S!ConsumedGoverned)
<1>1. S!Init => SuspectInv
  BY InitHolds
<1>2. SuspectInv /\ [S!Next]_suspectVars => SuspectInv'
  BY NextHolds
<1>3. SuspectInv => S!NobodyLeftMuted /\ S!ConsumedGoverned
  BY DEF S!SuspectAssumption, SuspectInv, Mended, DealtWith, Unchecked, S!NobodyLeftMuted,
     S!ConsumedGoverned, S!Quiet, S!At, S!Tasks
<1> QED  BY <1>1, <1>2, <1>3, PTL

-----------------------------------------------------------------------------
(* The composition *)

\* A behaviour of the whole is, for each of the two modules, a behaviour of the module.
LEMMA Projection ==
  Spec => /\ R!Init /\ [][R!Next]_raidVars
          /\ S!Init /\ [][S!Next]_suspectVars
<1>1. Init => R!Init /\ S!Init
  BY DEF Init
<1>2. [Next]_everything => [R!Next]_raidVars /\ [S!Next]_suspectVars
  BY DEF Next, everything
<1> QED  BY <1>1, <1>2, PTL DEF Spec

\* Lockdowns: memory and settings agree outside a transition, every pin is in the ledger, a
\* member who joined under a lockdown is never left muted without a row, and a join taken
\* for dealt with is dealt with (services/raid_guard.py).
THEOREM LockdownsHold == Spec => []LockdownsKept
<1>0. R!RaidAssumption /\ S!SuspectAssumption
  BY EnforcementAssumption
<1>1. RaidInv => R!PersistedAgrees /\ R!PinsInLedger
  BY DEF RaidInv, Agreed, R!PersistedAgrees, R!Step
<1>2. R!PersistedAgrees /\ R!PinsInLedger /\ S!NobodyLeftMuted /\ S!ConsumedGoverned
          => LockdownsKept
  BY DEF LockdownsKept
<1> QED  BY <1>0, <1>1, <1>2, Projection, RaidInvariant, SuspectsInvariant, PTL
=============================================================================
