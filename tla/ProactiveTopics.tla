--------------------------- MODULE ProactiveTopics ---------------------------
(***************************************************************************)
(* Topics the bot starts in a quiet group: ProactiveTopicService           *)
(* (services/proactive.py), the debounced writer of the group's activity   *)
(* (handlers/group.py) and the other writers of the same JSON document,    *)
(* Group.settings: the /mute and /proactive commands and the settings page.*)
(*                                                                         *)
(* Nothing locks the document.  A pass and the activity writer read it,    *)
(* compute a new one and store it if the stored one is still the one they  *)
(* read, with a bounded number of tries; a command first takes the write   *)
(* lock of the database; the page compares the document too.  Two          *)
(* processes overlap in a rolling deploy.  Clocks are choices.             *)
(***************************************************************************)
EXTENDS Naturals, FiniteSets

CONSTANTS
  Processes,
  Unclaimed,
  CasTries,        \* attempts at a conditional update (5 in the code)
  MaxTopicEvents   \* bound: messages of members, commands, page requests, failed
                   \* deliveries, cancelled passes and crashes, all together

TopicAssumption ==
  /\ Unclaimed \notin Processes /\ CasTries \in Nat \ {0}
  /\ MaxTopicEvents \in Nat

VARIABLES
  doc,      \* Group.settings: [rev, done, claim, lapsed, on]
  heard,    \* _LOCAL_ACTIVITY_REVISIONS of each process
  writer,   \* the activity writer of each process: [at, version, seen, read, tries]
  pass,     \* the pass of each process: [at, rev, heard, read, tries]
  page,     \* a page request: the document the administrator was shown
  topics,   \* history: topics sent for each revision
  counted,  \* history: activity the document must show
  wanted,   \* history: the switch as last committed
  events

vars == <<doc, heard, writer, pass, page, topics, counted, wanted, events>>
history == <<counted, wanted>>

Revs == 0..(1 + MaxTopicEvents)
Docs == [rev : Revs, done : Revs, claim : Processes \cup {Unclaimed}, for : Revs,
         lapsed : BOOLEAN, on : BOOLEAN]

TypeOK ==
  /\ doc \in Docs /\ heard \in [Processes -> 0..MaxTopicEvents]
  /\ writer \in [Processes -> [at : {"off", "debounce", "read"}, version : 0..MaxTopicEvents,
                               seen : 0..MaxTopicEvents, read : Docs, tries : 0..CasTries]]
  /\ pass \in [Processes -> [at : {"idle", "generate", "check", "claim", "recheck", "deliver",
                                   "finish", "skip", "resolve"},
                             rev : Revs, heard : 0..MaxTopicEvents, read : Docs, tries : 0..CasTries]]
  /\ page \subseteq Docs /\ Cardinality(page) <= 1
  /\ topics \in [Revs -> 0..2] /\ counted \in Revs /\ wanted \in BOOLEAN
  /\ events \in 0..MaxTopicEvents

Doc0 == [rev |-> 1, done |-> 0, claim |-> Unclaimed, for |-> 0, lapsed |-> FALSE, on |-> TRUE]
Resting == [at |-> "idle", rev |-> 0, heard |-> 0, read |-> Doc0, tries |-> 0]
Asleep  == [at |-> "off", version |-> 0, seen |-> 0, read |-> Doc0, tries |-> 0]

Init ==
  /\ doc = Doc0 /\ heard = [p \in Processes |-> 0]
  /\ writer = [p \in Processes |-> Asleep] /\ pass = [p \in Processes |-> Resting]
  /\ page = {} /\ topics = [r \in Revs |-> 0] /\ counted = 1 /\ wanted = TRUE
  /\ events = 0

Happens == events < MaxTopicEvents /\ events' = events + 1

-----------------------------------------------------------------------------
(* Activity *)

\* note_group_activity; record_group_activity
Heard(p) == heard' = [heard EXCEPT ![p] = @ + 1]
Active(d) == [d EXCEPT !.rev = @ + 1]

\* A message: counted in memory at once, written a second later.
Speak(p) ==
  /\ Happens /\ Heard(p)
  /\ writer' = [writer EXCEPT ![p] = IF @.at = "off" THEN [Asleep EXCEPT !.at = "debounce", !.version = 1]
                                     ELSE [writer[p] EXCEPT !.version = @ + 1]]
  /\ UNCHANGED <<doc, pass, page, topics>> /\ UNCHANGED history

\* _run_group_activity_writer takes what is pending and reads the document.
WriterReads(p) ==
  /\ writer[p].at = "debounce"
  /\ writer' = [writer EXCEPT ![p] = [@ EXCEPT !.at = "read", !.seen = writer[p].version,
                                               !.read = doc, !.tries = CasTries]]
  /\ UNCHANGED <<doc, heard, pass, page, topics>> /\ UNCHANGED history /\ UNCHANGED events

\* What came meanwhile is written by another round.
Rested(w) == IF w.version = w.seen THEN Asleep ELSE [w EXCEPT !.at = "debounce"]

\* _persist_group_activity_cas: one attempt; the last one that loses is given up.
WriterStores(p) ==
  /\ writer[p].at = "read"
  /\ \/ /\ doc = writer[p].read
        /\ doc' = Active(doc) /\ counted' = counted + 1
        /\ writer' = [writer EXCEPT ![p] = Rested(@)]
     \/ /\ doc # writer[p].read /\ UNCHANGED <<doc, counted>>
        /\ writer' = [writer EXCEPT ![p] =
                        IF @.tries = 1 THEN Rested(@)
                        ELSE [writer[p] EXCEPT !.read = doc, !.tries = @ - 1]]
  /\ UNCHANGED <<heard, pass, page, topics, wanted>> /\ UNCHANGED events

-----------------------------------------------------------------------------
(* A pass over the group: _run_group_cooldown_task *)

\* A step that updates the document has read it first.
Goes(p, s) == pass' = [pass EXCEPT ![p] = [@ EXCEPT !.at = s, !.read = Doc0, !.tries = 0]]
Reads(p, s) == pass' = [pass EXCEPT ![p] = [@ EXCEPT !.at = s, !.read = doc, !.tries = CasTries]]
Ends(p) == pass' = [pass EXCEPT ![p] = Resting]

\* A pass is cut off after 300 seconds, and a revision is three hours old
\* before it is looked at: no pass for an older revision is still running.
Begin(p) ==
  /\ pass[p].at = "idle" /\ doc.on /\ doc.rev > doc.done
  /\ \A q \in Processes : pass[q].at = "idle" \/ pass[q].rev = doc.rev
  /\ doc.claim # Unclaimed /\ doc.for = doc.rev => doc.lapsed
  /\ pass' = [pass EXCEPT ![p] =
       IF doc.claim # Unclaimed /\ doc.for = doc.rev
       THEN [@ EXCEPT !.at = "resolve", !.rev = doc.rev, !.read = doc, !.tries = CasTries]
       ELSE [@ EXCEPT !.at = "generate", !.rev = doc.rev, !.heard = heard[p]]]
  /\ UNCHANGED <<doc, heard, writer, page, topics>> /\ UNCHANGED history /\ UNCHANGED events

\* _commit_fresh_settings: an attempt with the document read last; the pass
\* raises when the last attempt loses.
Commit(p, new, next) ==
  \/ doc = pass[p].read /\ doc' = new /\ next
  \/ /\ doc # pass[p].read /\ UNCHANGED doc
     /\ IF pass[p].tries = 1 THEN Ends(p)
        ELSE pass' = [pass EXCEPT ![p] = [pass[p] EXCEPT !.read = doc, !.tries = @ - 1]]

Finalized(r, d) == [d EXCEPT !.claim = Unclaimed, !.for = 0, !.lapsed = FALSE, !.done = r]

\* A claim older than six minutes: its topic may have been sent, so it counts
\* as sent.
Resolve(p) ==
  /\ pass[p].at = "resolve"
  /\ Commit(p, IF doc.claim # Unclaimed /\ doc.for = pass[p].rev THEN Finalized(pass[p].rev, doc)
               ELSE doc, Ends(p))
  /\ UNCHANGED <<heard, writer, page, topics>> /\ UNCHANGED history /\ UNCHANGED events

\* The model writes a topic, or says that there is none.
Generate(p) ==
  /\ pass[p].at = "generate"
  /\ Goes(p, "check") \/ Reads(p, "skip")
  /\ UNCHANGED <<doc, heard, writer, page, topics>> /\ UNCHANGED history /\ UNCHANGED events

Skip(p) ==
  /\ pass[p].at = "skip"
  /\ Commit(p, [doc EXCEPT !.done = pass[p].rev], Ends(p))
  /\ UNCHANGED <<heard, writer, page, topics>> /\ UNCHANGED history /\ UNCHANGED events

\* _may_send_now with a fresh document, before and after the claim.
MaySend(p) == heard[p] = pass[p].heard /\ doc.on /\ doc.rev = pass[p].rev

Check(p) ==
  /\ pass[p].at \in {"check", "recheck"}
  /\ IF ~MaySend(p) THEN Ends(p)
     ELSE IF pass[p].at = "check" THEN Reads(p, "claim") ELSE Goes(p, "deliver")
  /\ UNCHANGED <<doc, heard, writer, page, topics>> /\ UNCHANGED history /\ UNCHANGED events

\* Mutant: a claim of this revision that is there already is taken over.
ClaimableAnyway(p, d) == d.on /\ d.rev = pass[p].rev /\ d.done < pass[p].rev

\* _claim_cooldown_delivery
Claimable(p, d) ==
  d.on /\ d.rev = pass[p].rev /\ d.done < pass[p].rev /\ ~(d.claim # Unclaimed /\ d.for = pass[p].rev)

Claim(p) ==
  /\ pass[p].at = "claim"
  /\ Commit(p, IF Claimable(p, doc)
               THEN [doc EXCEPT !.claim = p, !.for = pass[p].rev, !.lapsed = FALSE] ELSE doc,
            IF Claimable(p, doc) THEN Goes(p, "recheck") ELSE Ends(p))
  /\ UNCHANGED <<heard, writer, page, topics>> /\ UNCHANGED history /\ UNCHANGED events

\* _deliver_topic: sent; failed, and then it may have been sent and the claim stays.
Deliver(p) ==
  /\ pass[p].at = "deliver"
  /\ \/ /\ topics' = [topics EXCEPT ![pass[p].rev] = @ + 1]
        /\ Reads(p, "finish")
        /\ UNCHANGED events
     \/ /\ Happens /\ topics' \in {topics, [topics EXCEPT ![pass[p].rev] = @ + 1]} /\ Ends(p)
  /\ UNCHANGED <<doc, heard, writer, page>> /\ UNCHANGED history

\* _finalize_cooldown_delivery_claim: only the claim this pass made.
Finish(p) ==
  /\ pass[p].at = "finish"
  /\ Commit(p, IF doc.claim = p /\ doc.for = pass[p].rev THEN Finalized(pass[p].rev, doc) ELSE doc,
            Ends(p))
  /\ UNCHANGED <<heard, writer, page, topics>> /\ UNCHANGED history /\ UNCHANGED events

\* The pass is cut off at its deadline, or the process ends: with the process
\* goes what the writer had not stored.
Cut(p) ==
  /\ Happens /\ pass[p].at # "idle" /\ Ends(p)
  /\ UNCHANGED <<doc, heard, writer, page, topics>> /\ UNCHANGED history

Crash(p) ==
  /\ Happens /\ Ends(p)
  /\ heard' = [heard EXCEPT ![p] = 0] /\ writer' = [writer EXCEPT ![p] = Asleep]
  /\ UNCHANGED <<doc, page, topics>> /\ UNCHANGED history

\* Six minutes after a claim, when the pass that made it is over.
Lapse ==
  /\ doc.claim # Unclaimed /\ ~doc.lapsed
  /\ \A p \in Processes : pass[p].at = "idle" \/ pass[p].rev # doc.for \/ doc.claim # p
  /\ doc' = [doc EXCEPT !.lapsed = TRUE]
  /\ UNCHANGED <<heard, writer, pass, page, topics>> /\ UNCHANGED history /\ UNCHANGED events

-----------------------------------------------------------------------------
(* Administrators *)

\* set_cooldown_task_enabled: to switch it on counts as activity.
Switched(d, b) == [d EXCEPT !.on = b, !.rev = IF b THEN @ + 1 ELSE @]
Records(b) == wanted' = b /\ counted' = IF b THEN counted + 1 ELSE counted

\* /proactive, /mute all: the write lock is taken before the document is read.
Command ==
  /\ Happens
  /\ \E b \in BOOLEAN : doc' = Switched(doc, b) /\ Records(b)
  /\ UNCHANGED <<heard, writer, pass, page, topics>>

\* The settings page is opened, and saved later if nothing has changed.
Opened ==
  /\ page = {} /\ events < MaxTopicEvents /\ page' = {doc}
  /\ UNCHANGED <<doc, heard, writer, pass, topics>> /\ UNCHANGED history /\ UNCHANGED events

\* Mutant: the page's revision is not compared.
SavedUnseen ==
  /\ page' = {} /\ Happens
  /\ \E d \in page : doc' = Switched(d, ~d.on) /\ Records(~d.on)
  /\ UNCHANGED <<heard, writer, pass, topics>>

Saved ==
  /\ page # {} /\ page' = {}
  /\ IF doc \in page
     THEN Happens /\ doc' = Switched(doc, ~doc.on) /\ Records(~doc.on)
     ELSE UNCHANGED <<doc, counted, wanted>> /\ UNCHANGED events
  /\ UNCHANGED <<heard, writer, pass, topics>>

Next ==
  \/ \E p \in Processes :
       \/ Speak(p) \/ WriterReads(p) \/ WriterStores(p)
       \/ Begin(p) \/ Resolve(p) \/ Generate(p) \/ Skip(p) \/ Check(p) \/ Claim(p)
       \/ Deliver(p) \/ Finish(p) \/ Cut(p) \/ Crash(p)
  \/ Lapse \/ Command \/ Opened \/ Saved

Spec == Init /\ [][Next]_vars

-----------------------------------------------------------------------------
(* Properties *)

\* At most one topic is sent for one stretch of silence, although deliveries
\* fail with unknown effect, passes are cut off and two processes run them
\* (services/proactive.py:532-575, 621-700).
OneTopic == \A r \in Revs : topics[r] <= 1

\* Nobody's update of the document is lost: it shows the switch as it was last
\* committed and all activity that was stored, whoever wrote in between
\* (services/proactive.py:1009-1046, handlers/group.py:3312-3384,
\* services/group_settings.py:9-25, web/settings_api.py:2399-2506).
NothingOverwritten == doc.on = wanted /\ doc.rev = counted

\* A revision that was dealt with is never open again.
ProcessedStays == [][doc'.done >= doc.done]_vars
=============================================================================
