-------------------------- MODULE ScheduledMessages --------------------------
(***************************************************************************)
(* One entry of bot/services/scheduled_messages.py with its occurrences,   *)
(* the passes of the processes that deliver them, and the administrators   *)
(* who edit the entry (bot/web/settings_api.py).  Time is counted in       *)
(* scheduled instants: day d is between the d-th and the next one.         *)
(***************************************************************************)
EXTENDS Naturals, FiniteSets

CONSTANTS
  Posters, Nobody,     \* processes
  MaxDays,
  MaxPasses,           \* bound on the passes of all processes
  MaxPostFaults,       \* bound on failed or cut-off calls, crashes, early lapses
  MaxEdits             \* bound on the administrators' changes

ScheduleAssumption ==
  /\ {MaxDays, MaxPasses, MaxPostFaults, MaxEdits} \subseteq Nat
  /\ IsFiniteSet(Posters) /\ Nobody \notin Posters

VARIABLES
  day,
  entry,      \* ScheduledMessage: exists, enabled, day of last_run_at
  occ,        \* [Days -> ScheduledMessageOccurrence]
  pass,       \* [Posters -> the pass of a process]
  sent,       \* [Days -> messages published], history
  reborn,     \* [Days -> occurrences created again after their completion], history
  anchored,   \* history: the day of the last enabling
  passes, postFaults, edits

scheduleVars == <<day, entry, occ, pass, sent, reborn, anchored, passes, postFaults, edits>>

Days  == 1..MaxDays
NoRow == [row |-> FALSE, holder |-> Nobody, lapsed |-> FALSE, wait |-> FALSE]
NoPass == [st |-> "idle", now |-> 0, due |-> {}, cur |-> 0]

TypeOK ==
  /\ day \in 0..MaxDays
  /\ entry \in [exists : BOOLEAN, enabled : BOOLEAN, lastRun : 0..MaxDays]
  /\ occ \in [Days -> [row : BOOLEAN, holder : Posters \cup {Nobody}, lapsed : BOOLEAN,
                       wait : BOOLEAN]]
  /\ pass \in [Posters -> [st : {"idle", "read", "claim", "chosen", "deliver", "complete", "retry"},
                           now : 0..MaxDays, due : SUBSET Days, cur : 0..MaxDays]]
  /\ sent \in [Days -> Nat] /\ reborn \in [Days -> Nat] /\ anchored \in 0..MaxDays
  /\ passes \in 0..MaxPasses /\ postFaults \in 0..MaxPostFaults /\ edits \in 0..MaxEdits

Init ==
  /\ day = 0 /\ entry = [exists |-> TRUE, enabled |-> TRUE, lastRun |-> 0]
  /\ occ = [d \in Days |-> NoRow] /\ pass = [w \in Posters |-> NoPass]
  /\ sent = [d \in Days |-> 0] /\ reborn = [d \in Days |-> 0] /\ anchored = 0 /\ passes = 0 /\ postFaults = 0 /\ edits = 0

Fine  == UNCHANGED postFaults
Fault == postFaults < MaxPostFaults /\ postFaults' = postFaults + 1
At(w, s) == pass[w].st = s
Go(w, s) == pass' = [pass EXCEPT ![w].st = s]

-----------------------------------------------------------------------------
(* A pass *)

\* The entry is due once the day's instant is past and no run has served it.
Due == IF entry.exists /\ entry.enabled /\ entry.lastRun < day THEN {day} ELSE {}

Read(w) ==
  /\ At(w, "idle") /\ passes < MaxPasses /\ passes' = passes + 1
  /\ pass' = [pass EXCEPT ![w] = [st |-> "read", now |-> day, due |-> Due, cur |-> 0]]
  /\ UNCHANGED <<day, entry, occ, sent, reborn, anchored, postFaults, edits>>

\* Inserted unless the key exists.
PersistDue(w) ==
  /\ At(w, "read") /\ Go(w, "claim")
  /\ LET new == {d \in pass[w].due : entry.exists /\ ~occ[d].row}
     IN /\ occ' = [d \in Days |-> IF d \in new THEN [NoRow EXCEPT !.row = TRUE] ELSE occ[d]]
        /\ reborn' = [d \in Days |-> IF d \in new /\ sent[d] > 0 THEN reborn[d] + 1 ELSE reborn[d]]
  /\ UNCHANGED <<day, entry, sent, anchored, passes, postFaults, edits>>

\* Mutant: a lease is not respected.
AnyRow(d) == occ[d].row /\ ~occ[d].wait
Available(d) == occ[d].row /\ ~occ[d].wait /\ (occ[d].holder = Nobody \/ occ[d].lapsed)
Candidates == {d \in Days : entry.enabled /\ Available(d)}

\* The oldest available occurrence is chosen and then claimed; an entry disabled
\* in between loses the occurrence.
Choose(w) ==
  /\ At(w, "claim")
  /\ IF Candidates = {} THEN pass' = [pass EXCEPT ![w] = NoPass]
     ELSE \E d \in Candidates :
            /\ \A e \in Candidates : d <= e
            /\ pass' = [pass EXCEPT ![w].st = "chosen", ![w].cur = d]
  /\ UNCHANGED <<day, entry, occ, sent, reborn, anchored, passes, postFaults, edits>>

Claim(w) ==
  LET d == pass[w].cur
  IN /\ At(w, "chosen")
     /\ \/ ~Available(d) /\ Go(w, "claim") /\ UNCHANGED occ
        \/ Available(d) /\ ~entry.enabled /\ Go(w, "claim") /\ occ' = [occ EXCEPT ![d] = NoRow]
        \/ /\ Available(d) /\ entry.enabled /\ Go(w, "deliver")
           /\ occ' = [occ EXCEPT ![d] = [@ EXCEPT !.holder = w, !.lapsed = FALSE]]
     /\ UNCHANGED <<day, entry, sent, reborn, anchored, passes, postFaults, edits>>

\* A send that raises may have been published.
Deliver(w) ==
  LET d == pass[w].cur
  IN /\ At(w, "deliver")
     /\ \/ Fine /\ Go(w, "complete") /\ sent' = [sent EXCEPT ![d] = @ + 1]
        \/ Fault /\ Go(w, "retry") /\ sent' \in {sent, [sent EXCEPT ![d] = @ + 1]}
     /\ UNCHANGED <<day, entry, occ, reborn, anchored, passes, edits>>

Held(w) == occ[pass[w].cur].row /\ occ[pass[w].cur].holder = w

\* Mutant: last_run is left to a second commit.
CompleteRowOnly(w) ==
  /\ At(w, "complete") /\ Go(w, "claim") /\ Fine /\ UNCHANGED entry
  /\ occ' = IF Held(w) THEN [occ EXCEPT ![pass[w].cur] = NoRow] ELSE occ
  /\ UNCHANGED <<day, sent, reborn, anchored, passes, edits>>

\* The owned row goes and last_run advances in one commit, to the pass's own time.
Complete(w) ==
  /\ At(w, "complete") /\ Go(w, "claim")
  /\ \/ /\ Held(w) /\ Fine /\ occ' = [occ EXCEPT ![pass[w].cur] = NoRow]
        /\ entry' = [entry EXCEPT !.lastRun = pass[w].now]
     \/ Held(w) /\ Fault /\ UNCHANGED <<occ, entry>>
     \/ ~Held(w) /\ Fine /\ UNCHANGED <<occ, entry>>
  /\ UNCHANGED <<day, sent, reborn, anchored, passes, edits>>

Retry(w) ==
  /\ At(w, "retry") /\ Go(w, "claim")
  /\ occ' = IF Held(w) THEN [occ EXCEPT ![pass[w].cur] = [NoRow EXCEPT !.row = TRUE, !.wait = TRUE]]
            ELSE occ
  /\ UNCHANGED <<day, entry, sent, reborn, anchored, passes, postFaults, edits>>

\* A crash, or the pass runs into its deadline of 300 s.
CutOff(w) ==
  /\ ~At(w, "idle") /\ Fault /\ pass' = [pass EXCEPT ![w] = NoPass]
  /\ UNCHANGED <<day, entry, occ, sent, reborn, anchored, passes, edits>>

-----------------------------------------------------------------------------
(* Time and administrators *)

NextDay ==
  /\ day < MaxDays /\ day' = day + 1
  /\ UNCHANGED <<entry, occ, pass, sent, reborn, anchored, passes, postFaults, edits>>

BackoffEnds(d) ==
  /\ occ[d].wait /\ occ' = [occ EXCEPT ![d].wait = FALSE]
  /\ UNCHANGED <<day, entry, pass, sent, reborn, anchored, passes, postFaults, edits>>

\* 180 s from the start of the pass, which may still be at work.
LeaseLapses(d) ==
  LET w == occ[d].holder
  IN /\ w # Nobody /\ ~occ[d].lapsed /\ occ' = [occ EXCEPT ![d].lapsed = TRUE]
     /\ IF pass[w].st \in {"deliver", "complete", "retry"} /\ pass[w].cur = d THEN Fault ELSE Fine
     /\ UNCHANGED <<day, entry, pass, sent, reborn, anchored, passes, edits>>

Edit == edits < MaxEdits /\ edits' = edits + 1 /\ entry.exists

Disable ==
  /\ Edit /\ entry.enabled /\ entry' = [entry EXCEPT !.enabled = FALSE]
  /\ UNCHANGED <<day, occ, pass, sent, reborn, anchored, passes, postFaults>>

\* Enabling again sets last_run_at to now.
Enable ==
  /\ Edit /\ ~entry.enabled
  /\ entry' = [entry EXCEPT !.enabled = TRUE, !.lastRun = day] /\ anchored' = day
  /\ UNCHANGED <<day, occ, pass, sent, reborn, passes, postFaults>>

\* The deletion of an entry takes its occurrences with it.
Delete ==
  /\ Edit /\ entry' = [exists |-> FALSE, enabled |-> FALSE, lastRun |-> entry.lastRun]
  /\ occ' = [d \in Days |-> NoRow]
  /\ UNCHANGED <<day, pass, sent, reborn, anchored, passes, postFaults>>

Next ==
  \/ \E w \in Posters : \/ Read(w) \/ PersistDue(w) \/ Choose(w) \/ Claim(w) \/ Deliver(w)
                        \/ Complete(w) \/ Retry(w) \/ CutOff(w)
  \/ \E d \in Days : BackoffEnds(d) \/ LeaseLapses(d)
  \/ NextDay \/ Disable \/ Enable \/ Delete

Spec == Init /\ [][Next]_scheduleVars

-----------------------------------------------------------------------------
(* Properties *)

\* Publication is at least once, never idly twice: each message beyond the first
\* is paid for by a failure, a crash or a lapsed lease, or follows an occurrence
\* that an overlapping process created again (its list, or its clock, was stale).
SentAccounted ==
  \A d \in Days : sent[d] <= 1 + postFaults + reborn[d]

\* Only the process that holds the lease takes an occurrence off the table, and
\* whoever completes it moves last_run along; the rest is the administrators'.
OwnerCompletes ==
  [][\A d \in Days : occ[d].row /\ ~occ'[d].row /\ entry.enabled /\ entry'.exists =>
       \E w \in Posters : occ[d].holder = w /\ At(w, "complete") /\ entry'.lastRun = pass[w].now]_scheduleVars

\* "Re-enabling anchors the next run to now instead of firing immediately off a
\* stale last_run_at" (settings_api.py:2806): no pass claims an occurrence from
\* before the enabling.  One left over from before the entry was disabled is.
AnchoredToNow == [][\A w \in Posters : Claim(w) /\ pass'[w].st = "deliver" => pass[w].cur > anchored]_scheduleVars
=============================================================================
