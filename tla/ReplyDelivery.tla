--------------------------- MODULE ReplyDelivery ---------------------------
(***************************************************************************)
(* How one turn's answer reaches the group (utils/telegram.py send_reply,  *)
(* services/reply_progress.py, the delivery of a batch in                  *)
(* handlers/group.py): a progress card may appear while the turn works;    *)
(* the answer is edited into it, with the status above it for a moment, or *)
(* sent as messages of its own, and the card goes.                         *)
(*                                                                         *)
(* A call to Telegram succeeds, is rejected without effect, or fails with  *)
(* an unknown effect.  The card's wording, its updates and the choice of   *)
(* voice or text are left out.                                             *)
(***************************************************************************)
EXTENDS Naturals

CONSTANTS
  MaxParts,       \* bound: messages the answer is split into
  MaxSendFaults   \* bound: rejected, lost and cut calls, refused tasks

AnswerAssumption == MaxParts \in Nat \ {0} /\ MaxSendFaults \in Nat

VARIABLES
  at,        \* what the turn does next
  reveal,    \* the tracker's delayed card: its task
  card,      \* the card as Telegram shows it
  known,     \* _sent: the tracker knows its card
  asReply,   \* sent_as_reply
  handed,    \* _terminal: the card's status is final
  outcome,   \* ReplyMessageOverlay.outcome; "none": no overlay
  doubt,     \* saw_ambiguous_result
  parts, part, \* messages of the answer, the one in hand
  copies,    \* part -> messages of its own that show it
  all,       \* every part was accepted, so far
  confirmed, ambiguous, \* what the turn's receipt says
  armed,     \* the background task that leaves the answer alone on the card
  confirms,  \* ... and confirms the delivery when it has
  swept,     \* the card is with the durable cleanup
  ending,    \* how the turn ends
  lost,      \* history: part -> sends whose effect nobody learnt
  excused,   \* history: the card was left to nobody, for a reason
  faults

answer == <<parts, part, copies, all, lost>>
task   == <<armed, confirms>>
said   == <<confirmed, ambiguous>>
mine   == <<reveal, known, asReply, handed>>
vars == <<at, mine, card, outcome, doubt, answer, said, task, swept, ending, excused, faults>>

Edits == {"combined", "body", "plain"}
TypeOK ==
  /\ at \in {"idle", "work", "text", "stream", "converge", "tidy", "finish", "cut", "dismiss",
             "expire", "over"} \cup Edits
  /\ reveal \in {"no", "armed", "sending", "over"}
  /\ card \in {"none", "status", "both", "answer", "terminal", "gone"}
  /\ known \in BOOLEAN /\ asReply \in BOOLEAN /\ handed \in BOOLEAN /\ doubt \in BOOLEAN
  /\ outcome \in {"none", "pending", "attempting", "attached", "definite_failure", "ambiguous"}
  /\ parts \in 1..MaxParts /\ part \in 1..MaxParts /\ copies \in [1..MaxParts -> Nat]
  /\ lost \in [1..MaxParts -> Nat] /\ all \in BOOLEAN /\ confirmed \in BOOLEAN /\ ambiguous \in BOOLEAN
  /\ armed \in BOOLEAN /\ confirms \in BOOLEAN /\ swept \in BOOLEAN /\ excused \in BOOLEAN
  /\ ending \in {"none", "ok", "failed", "raised"} /\ faults \in 0..MaxSendFaults

Init ==
  /\ at = "idle" /\ reveal = "no" /\ card = "none" /\ known = FALSE /\ asReply = FALSE
  /\ handed = FALSE /\ outcome = "none" /\ doubt = FALSE /\ parts = 1 /\ part = 1
  /\ copies = [p \in 1..MaxParts |-> 0] /\ lost = copies /\ all = TRUE
  /\ confirmed = FALSE /\ ambiguous = FALSE /\ armed = FALSE /\ confirms = FALSE
  /\ swept = FALSE /\ ending = "none" /\ excused = FALSE /\ faults = 0

Fine  == UNCHANGED faults
Fails == faults < MaxSendFaults /\ faults' = faults + 1
Shows(c) == card' = c
May(c)   == card' \in {card, c}

-----------------------------------------------------------------------------
(* ReplyProgressTracker *)

\* start: the card is due in a while
Start ==
  /\ at = "idle" /\ at' = "work" /\ reveal' = "armed"
  /\ UNCHANGED <<card, known, asReply, handed, outcome, doubt, answer, said, task, swept, ending, excused, faults>>

\* _reveal_later, with the tracker's lock until the call is over
RevealCall ==
  /\ reveal = "armed" /\ ~handed /\ reveal' = "sending"
  /\ UNCHANGED <<at, card, known, asReply, handed, outcome, doubt, answer, said, task, swept, ending, excused, faults>>

\* Sent as a reply; as a message, when its target is gone; or nobody knows, and nobody
\* sends a second one.
Revealed ==
  /\ reveal = "sending" /\ reveal' = "over"
  /\ \/ Fine /\ Shows("status") /\ known' = TRUE /\ asReply' \in BOOLEAN /\ UNCHANGED excused
     \/ Fails /\ May("status") /\ excused' = TRUE /\ UNCHANGED <<known, asReply>>
  /\ UNCHANGED <<at, handed, outcome, doubt, answer, said, task, swept, ending>>

Quiet == reveal # "sending"

-----------------------------------------------------------------------------
(* the turn has an answer: handoff, then send_reply *)

\* handoff: a delayed card does not appear any more; a visible one may take the answer
Handoff ==
  /\ at = "work" /\ Quiet /\ handed' = TRUE /\ reveal' = "over"
  /\ \E n \in 1..MaxParts :
       /\ parts' = n
       /\ outcome' = (IF known THEN "pending" ELSE "none")
       /\ \/ /\ known /\ asReply /\ n = 1 /\ at' = "combined"
          \/ ~(known /\ asReply) /\ at' = "text"
          \/ known /\ at' = "text"   \* another target, too long, or more than one part
  /\ UNCHANGED <<card, known, asReply, doubt, part, copies, all, lost, said, task, swept, ending, excused, faults>>

View == IF at = "combined" THEN "both" ELSE "answer"

\* A bug for the mutation runs: a rejection is taken for "nothing happened" even after an
\* earlier try of the same edit was lost.
SureAlways == TRUE
Sure == ~doubt

\* _schedule_telegram_background_task; _mark_overlay_ambiguous
Spawn(c) == armed' = TRUE /\ confirms' = c
MarkAmbiguous == outcome' = "ambiguous" /\ ambiguous' = TRUE

\* _schedule_overlay_removal: the task is armed before anything else is awaited; without
\* room for it the turn does its work at once.
Arm(c) ==
  \/ Fine /\ Spawn(c) /\ at' = "tidy"
  \/ Fails /\ confirms' = c /\ at' = "converge" /\ UNCHANGED armed

\* _try_attach_overlay: the edit took effect ...
Attach ==
  /\ at \in Edits /\ Shows(View) /\ outcome' = "attached" /\ doubt' = FALSE
  /\ confirmed' = TRUE
  /\ IF at = "combined" THEN Arm(FALSE) ELSE Fine /\ at' = "tidy" /\ UNCHANGED task
  /\ UNCHANGED <<mine, answer, ambiguous, swept, ending, excused>>

\* ... was lost, and is tried again, _safe_overlay_edit ...
TryAgain ==
  /\ at \in Edits /\ Fails /\ May(View) /\ doubt' = TRUE /\ outcome' = "attempting"
  /\ UNCHANGED <<at, mine, answer, said, task, swept, ending, excused>>

\* ... or may have taken effect: the card is the answer's, whatever happens ...
Doubtful ==
  /\ at \in Edits /\ doubt /\ MarkAmbiguous /\ doubt' = FALSE
  /\ all' = FALSE /\ Arm(TRUE)
  /\ UNCHANGED <<mine, card, parts, part, copies, lost, confirmed, swept, ending, excused>>

\* ... or was refused: the answer alone, as plain text, and then as a message of its own.
Rejected ==
  /\ at \in Edits /\ Fails /\ Sure /\ doubt' = FALSE
  /\ at' = (CASE at = "combined" -> "body" [] at = "body" -> "plain" [] OTHER -> "text")
  /\ outcome' = (IF at = "plain" THEN "definite_failure" ELSE "attempting")
  /\ UNCHANGED <<mine, card, answer, said, task, swept, ending, excused>>

\* The edit without the task, and its cleanup
Converge ==
  /\ at = "converge" /\ at' = "tidy"
  /\ \/ /\ Fine /\ Shows("answer") /\ confirmed' = (confirmed \/ confirms)
        /\ UNCHANGED excused
     \/ Fails /\ May("answer") /\ excused' = TRUE /\ UNCHANGED confirmed
  /\ UNCHANGED <<mine, outcome, doubt, answer, ambiguous, task, swept, ending>>

\* The message is handed to the durable cleanup, which never changes the outcome.
Tidy ==
  /\ at = "tidy" /\ at' = "finish"
  /\ UNCHANGED <<mine, card, outcome, doubt, answer, said, task, swept, ending, excused, faults>>

NextPart(ok) ==
  /\ all' = (all /\ ok)
  /\ IF part < parts THEN part' = part + 1 /\ at' = "text" ELSE at' = "finish" /\ UNCHANGED part

\* _record_delivered_message: a message more that shows the part, or none
Delivered(n) == copies' = [copies EXCEPT ![part] = @ + n]

\* _safe_send and its fallback to plain text: accepted; lost and sent again; given up.
\* A streamed message grows by edits.
SendText ==
  /\ at = "text"
  /\ \/ /\ Fine /\ Delivered(1) /\ confirmed' = TRUE
        /\ (NextPart(TRUE) \/ (at' = "stream" /\ UNCHANGED <<part, all>>)) /\ UNCHANGED lost
     \/ /\ Fails /\ UNCHANGED confirmed /\ lost' = [lost EXCEPT ![part] = @ + 1]
        /\ \E n \in {0, 1} : Delivered(n)
        /\ (NextPart(FALSE) \/ UNCHANGED <<at, part, all>>)
  /\ UNCHANGED <<mine, card, outcome, doubt, parts, ambiguous, task, swept, ending, excused>>

\* _send_stream_segment: what fails is not sent again
Stream ==
  /\ at = "stream" /\ ((Fine /\ NextPart(TRUE)) \/ (Fails /\ NextPart(FALSE)))
  /\ UNCHANGED <<mine, card, outcome, doubt, parts, copies, lost, said, task, swept, ending, excused>>

-----------------------------------------------------------------------------
(* the deadline of the sending, and the cancellation of the turn *)

\* Bugs for the mutation runs: the cut edit is not marked; nobody is left to finish it.
CutEditUnmarked(s) ==
  /\ at \in Edits /\ Fails /\ May(View) /\ at' = s /\ doubt' = FALSE
  /\ outcome' = "ambiguous" /\ UNCHANGED ambiguous /\ armed' = TRUE /\ confirms' = TRUE
  /\ UNCHANGED <<mine, parts, part, copies, lost, confirmed, swept, ending, excused>>
CutEditUnarmed(s) ==
  /\ at \in Edits /\ Fails /\ May(View) /\ at' = s /\ doubt' = FALSE
  /\ outcome' = "ambiguous" /\ ambiguous' = TRUE
  /\ UNCHANGED <<task, mine, parts, part, copies, lost, confirmed, swept, ending, excused>>
\* _attempt_overlay_edit: without room for the task the card is left as it is
CutEdit(s) ==
  /\ at \in Edits /\ Fails /\ May(View) /\ at' = s /\ doubt' = FALSE
  /\ MarkAmbiguous
  /\ \/ Spawn(TRUE) /\ UNCHANGED excused
     \/ excused' = TRUE /\ UNCHANGED task
  /\ UNCHANGED <<mine, parts, part, copies, lost, confirmed, swept, ending>>

\* A message that was on its way may arrive.
CutSend(s) ==
  /\ at \in {"text", "stream", "converge", "tidy"} /\ Fails /\ at' = s
  /\ IF at = "text"
       THEN /\ lost' = [lost EXCEPT ![part] = @ + 1]
            /\ \E n \in {0, 1} : Delivered(n)
       ELSE UNCHANGED <<lost, copies>>
  /\ IF at = "converge" THEN May("answer") /\ excused' = TRUE ELSE UNCHANGED <<card, excused>>
  /\ UNCHANGED <<mine, outcome, doubt, parts, part, said, task, swept, ending>>

Deadline == all' = FALSE /\ (CutEdit("finish") \/ CutSend("finish"))
Cancel   == (CutEdit("cut") \/ CutSend("cut")) /\ UNCHANGED all

\* Waiting for its turn to send, or still at work
CancelEarly ==
  /\ at \in {"work", "combined", "text"} /\ Fails /\ Quiet /\ outcome \in {"none", "pending"}
  /\ copies[1] = 0 /\ part = 1 /\ ~doubt /\ at' = "cut"
  /\ UNCHANGED <<mine, card, outcome, doubt, answer, said, task, swept, ending, excused>>

-----------------------------------------------------------------------------
(* _process_pending_reply_batch: the end of the turn *)

Owns == outcome \in {"attempting", "attached", "ambiguous"}

\* Nothing to say, or an error before there was
NoAnswer ==
  /\ at = "work" /\ Quiet /\ at' = "dismiss"
  /\ \/ Fine /\ ending' = "ok"
     \/ Fails /\ ending' = "raised"
  /\ UNCHANGED <<mine, card, outcome, doubt, answer, said, task, swept, excused>>

\* _deliver_reply_plans: every part was accepted
AllSent == all /\ ~ambiguous

Finish ==
  /\ at = "finish" /\ at' = (IF Owns THEN "over" ELSE "dismiss")
  /\ confirmed' = (confirmed \/ AllSent)
  /\ ending' = (IF confirmed' \/ ambiguous THEN "ok" ELSE "failed")
  /\ UNCHANGED <<mine, card, outcome, doubt, answer, ambiguous, task, swept, excused, faults>>

\* _finish_terminal, and the card's place in the durable cleanup
FinishTerminal == Shows("terminal")
LeftToCleanup == swept' = TRUE

\* A visible card that was not handed over says that the turn was cut short, and says so
\* for the answer.
Cut ==
  /\ at = "cut" /\ Quiet /\ ending' = "raised"
  /\ \/ /\ Fine /\ ~Owns /\ ~confirmed /\ known /\ ~handed
        /\ FinishTerminal /\ confirmed' = TRUE /\ handed' = TRUE /\ swept' \in BOOLEAN /\ at' = "over"
     \/ /\ ~Owns /\ ~confirmed /\ known /\ ~handed /\ Fails /\ at' = "dismiss" /\ May("terminal")
        /\ handed' = TRUE /\ swept' \in BOOLEAN /\ UNCHANGED confirmed
     \/ /\ Fine /\ (Owns \/ confirmed \/ ~known \/ handed) /\ at' = (IF Owns THEN "over" ELSE "dismiss")
        /\ UNCHANGED <<card, confirmed, handed, swept>>
  /\ UNCHANGED <<reveal, known, asReply, outcome, doubt, answer, ambiguous, task, excused>>

\* dismiss: the card is deleted or, when that fails, ended and left to the cleanup.
\* The turn may be cancelled again.
Dismiss ==
  /\ at = "dismiss" /\ Quiet /\ reveal' = "over" /\ handed' = TRUE
  /\ \/ /\ ~known /\ Fine /\ at' = "over" /\ UNCHANGED <<card, excused>>
     \/ /\ known /\ Fine /\ Shows("gone") /\ at' = "over" /\ UNCHANGED excused
     \/ known /\ Fails /\ May("gone") /\ at' = "expire" /\ UNCHANGED excused
     \/ known /\ Fails /\ May("gone") /\ at' = "over" /\ excused' = TRUE
  /\ known' = FALSE
  /\ UNCHANGED <<asReply, outcome, doubt, answer, said, task, swept, ending>>

Expire ==
  /\ at = "expire" /\ at' = "over"
  /\ \/ /\ Fine /\ (IF card = "gone" THEN UNCHANGED card ELSE FinishTerminal)
        /\ LeftToCleanup /\ UNCHANGED excused
     \/ Fails /\ LeftToCleanup /\ UNCHANGED <<card, excused>>
     \/ Fails /\ UNCHANGED <<card, swept>> /\ excused' = TRUE
  /\ UNCHANGED <<mine, outcome, doubt, answer, said, task, ending>>

\* The background task: the answer alone; given up, or cancelled at shutdown.
Strip ==
  /\ armed /\ armed' = FALSE
  /\ \/ /\ Fine /\ Shows("answer") /\ confirmed' = (confirmed \/ confirms) /\ UNCHANGED excused
     \/ Fails /\ May("answer") /\ excused' = TRUE /\ UNCHANGED confirmed
  /\ UNCHANGED <<at, mine, outcome, doubt, answer, ambiguous, confirms, swept, ending>>

Next ==
  \/ Start \/ RevealCall \/ Revealed \/ Handoff
  \/ Attach \/ TryAgain \/ Doubtful \/ Rejected \/ Converge \/ Tidy \/ SendText \/ Stream
  \/ Deadline \/ Cancel \/ CancelEarly \/ NoAnswer \/ Finish \/ Cut \/ Dismiss \/ Expire \/ Strip

Spec == Init /\ [][Next]_vars

-----------------------------------------------------------------------------
OnCard == IF card \in {"both", "answer"} THEN 1 ELSE 0

\* Nobody reads a part twice unless a message of its own was lost on the way: an edit of
\* the card that may have taken effect is never followed by a message
\* (_safe_overlay_edit, _try_attach_overlay).
ReadOnce == \A p \in 1..parts : copies[p] + (IF p = 1 THEN OnCard ELSE 0) <= 1 + lost[p]

\* A turn that ends with nothing to show for it, and is done again, showed nothing: no
\* answer on the card and no message, but for messages lost on the way
\* (_mark_overlay_ambiguous, confirm_telegram_delivery, _process_pending_reply_batch).
RepeatedUnseen ==
  at = "over" /\ ending # "ok" /\ ~confirmed /\ ~ambiguous =>
    OnCard = 0 /\ \A p \in 1..parts : copies[p] <= lost[p]

\* When the turn and its task are over, no card says that the turn is still at work, or
\* keeps its status above the answer: it is gone, is the answer, or is with the cleanup.
\* Excepted are cards whose sending was lost and cards whose edits all failed
\* (handoff, dismiss, _schedule_overlay_removal, _arm_overlay_reconciliation).
CardSettled == at = "over" /\ ~armed => card \in {"none", "gone", "answer", "terminal"} \/ swept \/ excused
=============================================================================
