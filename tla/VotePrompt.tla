------------------------------ MODULE VotePrompt ------------------------------
(***************************************************************************)
(* The prompt of a vote to ban: the message with the buttons, which is     *)
(* pinned while its poll is open (bot/services/vote_ban.py).  The row      *)
(* "owns" the pin (pin_message) from the poll's opening until an unpin is  *)
(* known to have worked.  The poll itself is that of VoteBan: here it      *)
(* opens, is claimed and is closed by anybody at any time.  Each edit, pin *)
(* and unpin but the retries' holds the message's lock                     *)
(* (_vote_message_edit_lock); the requests are made with the row read      *)
(* before them.                                                            *)
(***************************************************************************)
EXTENDS Naturals

CONSTANTS
  MaxPromptFaults,  \* bound on failed or ambiguous calls, reads and writes
  MaxPromptCrashes

PromptAssumption == MaxPromptFaults \in Nat /\ MaxPromptCrashes \in Nat

VARIABLES
  row,       \* vote_ban_sessions: status, pin_message, message_id known
  start,     \* start_vote_ban after its first commit, or the restored pin at startup
  shown,     \* Telegram: the prompt is in the chat
  pinned,    \* Telegram: the prompt is pinned
  edit,      \* the holder of _vote_message_edit_lock
  closing,   \* a task is to finalize the prompt
  notice,    \* the task an /unban leaves behind to do so is to run
  retry,     \* the task that retries the unpin of a closed poll
  promptFaults, promptCrashes

promptVars == <<row, start, shown, pinned, edit, closing, notice, retry, promptFaults,
                promptCrashes>>

Open == {"active", "enforcing"}

TypeOK ==
  /\ row \in [status : {"none", "closed"} \cup Open, pin : BOOLEAN, posted : BOOLEAN]
  /\ start \in {"idle", "send", "withdraw", "store", "pin"}
  /\ shown \in BOOLEAN /\ pinned \in BOOLEAN
  /\ edit \in {"free", "pin", "call", "after", "blind", "unpin", "persist"}
  /\ closing \in BOOLEAN /\ notice \in BOOLEAN
  /\ retry \in {"off", "on", "persist"}
  /\ promptFaults \in 0..MaxPromptFaults /\ promptCrashes \in 0..MaxPromptCrashes

Init ==
  /\ row = [status |-> "none", pin |-> FALSE, posted |-> FALSE]
  /\ start = "idle" /\ shown = FALSE /\ pinned = FALSE /\ edit = "free"
  /\ closing = FALSE /\ notice = FALSE /\ retry = "off"
  /\ promptFaults = 0 /\ promptCrashes = 0

Fault == promptFaults < MaxPromptFaults /\ promptFaults' = promptFaults + 1
Fine  == UNCHANGED promptFaults

IsOpen == row.status \in Open

-----------------------------------------------------------------------------
(* The poll *)

\* Whether its prompt is to be pinned is the group's setting.
OpenPoll ==
  /\ row.status = "none" /\ start' = "send"
  /\ \E pin \in BOOLEAN : row' = [row EXCEPT !.status = "active", !.pin = pin]
  /\ UNCHANGED <<shown, pinned, edit, closing, notice, retry, promptFaults, promptCrashes>>

\* A request that failed here may have posted the prompt.
SendPrompt ==
  /\ start = "send"
  /\ \/ Fine /\ shown' = TRUE /\ start' = "store"
     \/ Fault /\ shown' \in BOOLEAN /\ start' = "withdraw"
  /\ UNCHANGED <<row, pinned, edit, closing, notice, retry, promptCrashes>>

\* _cancel_after_prompt_failure writes the row back whatever its status is by now.
Withdraw ==
  /\ start = "withdraw" /\ start' = "idle"
  /\ \/ Fine /\ row' = [row EXCEPT !.status = "closed", !.pin = FALSE]
     \/ Fault /\ UNCHANGED row
  /\ UNCHANGED <<shown, pinned, edit, closing, notice, retry, promptCrashes>>

\* The message id is committed, in a second session if the first one fails.
StorePrompt ==
  /\ start = "store"
  /\ \/ Fine /\ row' = [row EXCEPT !.posted = TRUE] /\ start' = "pin"
     \/ Fault /\ UNCHANGED row /\ start' = "idle"
  /\ UNCHANGED <<shown, pinned, edit, closing, notice, retry, promptCrashes>>

\* A button that is pressed tells the message id; a ballot or an administrator may
\* decide the poll.
Press ==
  /\ shown /\ row.status = "active"
  /\ \E status \in Open : row' = [row EXCEPT !.status = status, !.posted = TRUE]
  /\ UNCHANGED <<start, shown, pinned, edit, closing, notice, retry, promptFaults,
                 promptCrashes>>

\* The outcome, an administrator or the deadline: whoever closes the poll finalizes
\* its prompt, unless an exception comes in between.
ClosePoll ==
  /\ IsOpen
  /\ \/ Fine /\ closing' = TRUE
     \/ Fault /\ UNCHANGED closing
  /\ \E posted \in {row.posted, shown} :
        row' = [row EXCEPT !.status = "closed", !.posted = row.posted \/ posted]
  /\ UNCHANGED <<start, shown, pinned, edit, notice, retry, promptCrashes>>

\* cancel_vote_bans_for_manual_unban; the prompt is left to a task.
UnbanCloses ==
  /\ IsOpen /\ row' = [row EXCEPT !.status = "closed"] /\ notice' = TRUE
  /\ UNCHANGED <<start, shown, pinned, edit, closing, retry, promptFaults, promptCrashes>>

\* That task reads the polls it is to finalize; nobody repeats a read that failed.
Noticed ==
  /\ notice /\ notice' = FALSE
  /\ \/ Fine /\ closing' = TRUE
     \/ Fault /\ UNCHANGED closing
  /\ UNCHANGED <<row, start, shown, pinned, edit, retry, promptCrashes>>

-----------------------------------------------------------------------------
(* The pin *)

\* _pin_open_vote_message takes the lock,
PinPrompt ==
  /\ start = "pin" /\ edit = "free" /\ start' = "idle" /\ edit' = "pin"
  /\ UNCHANGED <<row, shown, pinned, closing, notice, retry, promptFaults, promptCrashes>>

\* reads the row (the prompt of a closed poll is finalized at once),
PinRead ==
  /\ edit = "pin"
  /\ \/ Fine /\ edit' = (IF ~row.pin THEN "free" ELSE IF IsOpen THEN "call" ELSE "unpin")
     \/ Fault /\ edit' = "free"
  /\ UNCHANGED <<row, start, shown, pinned, closing, notice, retry, promptCrashes>>

\* pins, whatever has become of the poll,
PinCall ==
  /\ edit = "call" /\ edit' = "after"
  /\ \/ Fine /\ pinned' = TRUE
     \/ Fault /\ pinned' \in {pinned, TRUE}
  /\ UNCHANGED <<row, start, shown, closing, notice, retry, promptCrashes>>

\* reads the row again, and unpins unless the poll is still open.
PinChecked ==
  /\ edit = "after"
  /\ \/ Fine /\ edit' = (IF IsOpen /\ row.pin THEN "free" ELSE "unpin")
     \/ Fault /\ edit' = "blind"
  /\ UNCHANGED <<row, start, shown, pinned, closing, notice, retry, promptCrashes>>

\* finalize_vote_message; a poll whose message id is not known owns no pin.
FinalizeMessage ==
  /\ closing /\ edit = "free" /\ closing' = FALSE
  /\ edit' = (IF ~row.pin THEN "free" ELSE IF row.posted THEN "unpin" ELSE "persist")
  /\ UNCHANGED <<row, start, shown, pinned, notice, retry, promptFaults, promptCrashes>>

\* Mutant: ownership of the pin is given up with the attempt.
UnpinForgetful ==
  /\ edit \in {"unpin", "blind"} /\ edit' = "free" /\ row' = [row EXCEPT !.pin = FALSE]
  /\ \/ Fine /\ pinned' = FALSE
     \/ Fault /\ pinned' \in {pinned, FALSE}
  /\ UNCHANGED <<start, shown, closing, notice, retry, promptCrashes>>

Retried == retry' = (IF retry = "off" THEN "on" ELSE retry)

\* unpin_notification_message; a failure is retried by a task.  When the row could
\* not be read nothing is written to it.
Unpin ==
  /\ edit \in {"unpin", "blind"}
  /\ \/ /\ Fine /\ pinned' = FALSE /\ UNCHANGED retry
        /\ edit' = (IF edit = "unpin" THEN "persist" ELSE "free")
     \/ Fault /\ pinned' \in {pinned, FALSE} /\ edit' = "free" /\ Retried
  /\ UNCHANGED <<row, start, shown, closing, notice, promptCrashes>>

Released == [row EXCEPT !.pin = FALSE]

\* _persist_vote_message_release
ReleasePin ==
  /\ edit = "persist" /\ edit' = "free"
  /\ \/ Fine /\ row' = Released /\ UNCHANGED retry
     \/ Fault /\ UNCHANGED row /\ Retried
  /\ UNCHANGED <<start, shown, pinned, closing, notice, promptCrashes>>

\* _schedule_terminal_unpin_retry, without the lock; its attempts are finite.
RetryUnpin ==
  /\ retry = "on"
  /\ IF row.status = "closed" /\ row.pin /\ row.posted
     THEN \/ Fine /\ pinned' = FALSE /\ retry' = "persist"
          \/ Fault /\ pinned' \in {pinned, FALSE} /\ retry' \in {"on", "off"}
     ELSE Fine /\ UNCHANGED pinned /\ retry' = "off"
  /\ UNCHANGED <<row, start, shown, edit, closing, notice, promptCrashes>>

RetryRelease ==
  /\ retry = "persist"
  /\ \/ Fine /\ row' = Released /\ retry' = "off"
     \/ Fault /\ UNCHANGED row /\ retry' \in {"on", "off"}
  /\ UNCHANGED <<start, shown, pinned, edit, closing, notice, promptCrashes>>

\* Mutant: only the prompts of open polls are taken up again.
RestartOpenOnly ==
  /\ promptCrashes < MaxPromptCrashes /\ promptCrashes' = promptCrashes + 1
  /\ start' = (IF IsOpen /\ row.posted /\ row.pin THEN "pin" ELSE "idle")
  /\ closing' = FALSE
  /\ notice' = FALSE /\ edit' = "free" /\ retry' = "off"
  /\ UNCHANGED <<row, shown, pinned, promptFaults>>

\* restore_vote_ban_tasks finalizes the prompt of the closed poll and pins that of
\* the open one again.
Restart ==
  /\ promptCrashes < MaxPromptCrashes /\ promptCrashes' = promptCrashes + 1
  /\ start' = (IF IsOpen /\ row.posted /\ row.pin THEN "pin" ELSE "idle")
  /\ closing' = (row.status = "closed" /\ row.pin)
  /\ notice' = FALSE /\ edit' = "free" /\ retry' = "off"
  /\ UNCHANGED <<row, shown, pinned, promptFaults>>

Next ==
  \/ OpenPoll \/ SendPrompt \/ Withdraw \/ StorePrompt \/ Press \/ ClosePoll \/ UnbanCloses
  \/ Noticed \/ PinPrompt \/ PinRead \/ PinCall \/ PinChecked \/ FinalizeMessage \/ Unpin
  \/ ReleasePin \/ RetryUnpin \/ RetryRelease \/ Restart

Spec == Init /\ [][Next]_promptVars

-----------------------------------------------------------------------------
(* Properties *)

\* A pin of a closed poll that nobody is about to release is still owned by its
\* row, so that a restart releases it: "keep terminal pin ownership durable after
\* an ambiguous/failed unpin" (_persist_vote_pin_outstanding).
PinAccounted == row.status = "closed" /\ pinned /\ edit = "free" => row.pin

\* Without a failed call nothing stays pinned once the tasks of a closed poll are
\* over, whatever the order of pin, close, /unban and restart.
PinReleased ==
  (/\ row.status = "closed" /\ edit = "free" /\ start = "idle" /\ ~closing /\ ~notice
   /\ promptFaults = 0) => ~pinned
=============================================================================
