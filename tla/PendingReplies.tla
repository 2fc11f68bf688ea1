--------------------------- MODULE PendingReplies ---------------------------
(***************************************************************************)
(* bot/handlers/group.py: the debounced replies to group messages, with    *)
(* the completion receipts of bot/services/update_completion.py and the    *)
(* write-behind queue of bot/services/memory.py.  A message is an update   *)
(* of the durable inbox; its receipt stays open while the reply worker of  *)
(* its sender or a row of the memory queue still owns it.                  *)
(***************************************************************************)
EXTENDS Naturals, FiniteSets

CONSTANTS
  Senders,          \* (group, user) pairs
  PerSender,        \* bound on the messages of a sender
  Direct,           \* messages that address the bot
  Permits,          \* _PENDING_REPLY_EXECUTION_CAPACITY
  MaxBatches,       \* _PENDING_REPLY_MAX_SENDERS
  MaxWaiting,       \* _PENDING_REPLY_MAX_ITEMS_PER_SENDER
  MaxReplyFaults,   \* bound on failed generations, sends and rows
  MaxReplyStops     \* bound on shutdowns and crashes

Updates == Senders \X (1..PerSender)
From(s) == {u \in Updates : u[1] = s}

ReplyAssumption ==
  /\ Direct \subseteq Updates /\ {Permits, MaxBatches, MaxWaiting} \subseteq Nat \ {0}
  /\ {PerSender, MaxReplyFaults, MaxReplyStops} \subseteq Nat

VARIABLES
  at,          \* of an update: "new", "handled", "receipt", "done"
  sound,       \* receipts on which every owner has succeeded so far
  queue,       \* of a sender: items that wait for the worker
  worker,      \* of a sender: "none", "debounce", "guard", "orphan"
  held,        \* of a sender: items whose receipts the worker still owns
  batch,       \* of a sender: items of the child that generates the reply
  child,       \* of a sender: "none", "queued", "run", "sent", "ok", "failed"
  cancelled,   \* senders whose child was cancelled
  consumed,    \* senders whose delivery receipt is consumed
  rows,        \* memory rows in the write-behind queue, with the receipts they own
  closing,     \* flush_pending_inbound_batches gave the workers up
  answers,     \* of an update: replies delivered so far, up to 2
  noticed,     \* senders whose current batch was told of a failure
  heard,       \* updates answered, refused or told of a failure, visibly or by a decision
  excused,     \* updates with a lost row or open at a stop
  replyFaults, replyStops

inboxVars  == <<at, sound>>
workVars   == <<queue, worker, held, batch, child, cancelled, consumed>>
historyVars == <<answers, noticed, heard, excused>>
replyVars  == <<inboxVars, workVars, rows, closing, historyVars, replyFaults, replyStops>>

TypeOK ==
  /\ at \in [Updates -> {"new", "handled", "receipt", "done"}] /\ sound \subseteq Updates
  /\ worker \in [Senders -> {"none", "debounce", "guard", "orphan"}]
  /\ child \in [Senders -> {"none", "queued", "run", "sent", "ok", "failed"}]
  /\ \A s \in Senders : queue[s] \cup held[s] \cup batch[s] \subseteq From(s)
  /\ {cancelled, consumed, noticed} \subseteq SUBSET Senders
  /\ rows \subseteq {"in", "out"} \X SUBSET Updates /\ closing \in BOOLEAN
  /\ answers \in [Updates -> 0..2] /\ {heard, excused} \subseteq SUBSET Updates
  /\ replyFaults \in 0..MaxReplyFaults /\ replyStops \in 0..MaxReplyStops

Idle ==
  /\ queue = [s \in Senders |-> {}] /\ worker = [s \in Senders |-> "none"]
  /\ held = queue /\ batch = queue /\ child = worker /\ cancelled = {} /\ consumed = {}
Init ==
  /\ at = [u \in Updates |-> "new"] /\ sound = Updates /\ Idle /\ rows = {} /\ closing = FALSE
  /\ answers = [u \in Updates |-> 0] /\ noticed = {} /\ heard = {} /\ excused = {}
  /\ replyFaults = 0 /\ replyStops = 0

Fine  == UNCHANGED replyFaults
Fault == replyFaults < MaxReplyFaults /\ replyFaults' = replyFaults + 1

Live(s)  == child[s] \in {"queued", "run", "sent"}
Owned(u) == u \in queue[u[1]] \cup held[u[1]] \/ \E r \in rows : u \in r[2]
\* An update that is handled or waits for its receipt; finish(ok) of one owner.
Open(S) == {u \in S : at[u] \in {"handled", "receipt"}}
\* A row on the memory queue, and the receipts it owns.
Remember(way, S) == rows' = IF S = {} THEN rows ELSE rows \cup {<<way, S>>}
\* Mutant: the outcome of a notice is ignored.
FinishBlindly(S, ok) == sound' = sound
Finish(S, ok) == sound' = IF ok THEN sound ELSE sound \ S

-----------------------------------------------------------------------------
(* on_group_message *)

\* The inbox runs the handler, which puts the message on the memory queue; a
\* full queue fails the attempt, and the inbox tries again.
Handle(u) ==
  /\ at[u] = "new" /\ ~closing
  /\ \/ Fine /\ at' = [at EXCEPT ![u] = "handled"] /\ Remember("in", {u})
     \/ Fault /\ UNCHANGED <<at, rows>>
  /\ UNCHANGED <<sound, workVars, closing, historyVars, replyStops>>

\* Contact cards, media and muted scopes end without a reply.
Leave(u) ==
  /\ at[u] = "handled" /\ at' = [at EXCEPT ![u] = "receipt"] /\ heard' = heard \cup {u}
  /\ UNCHANGED <<sound, workVars, rows, closing, answers, noticed, excused, replyFaults,
                 replyStops>>

Again(S) == [u \in Updates |-> IF u \in S /\ answers[u] < 2 THEN answers[u] + 1 ELSE answers[u]]

\* A keyword rule answers in the handler; its row is owned like the message's.
\* A row that finds the queue full fails the attempt and its receipt.
KeywordReply(u) ==
  /\ at[u] = "handled" /\ answers' = Again({u}) /\ heard' = heard \cup {u}
  /\ \/ /\ Fine /\ at' = [at EXCEPT ![u] = "receipt"] /\ Remember("out", {u})
        /\ UNCHANGED <<sound, excused>>
     \/ /\ Fault /\ at' = [at EXCEPT ![u] = "receipt"] /\ sound' = sound \ {u}
        /\ excused' = excused \cup {u} /\ UNCHANGED rows
  /\ UNCHANGED <<workVars, closing, noticed, replyStops>>

Busy == {s \in Senders : worker[s] # "none" \/ queue[s] # {}}
Full(s) == Cardinality(queue[s]) >= MaxWaiting \/ (s \notin Busy /\ Cardinality(Busy) >= MaxBatches)

\* _enqueue_pending_reply starts a worker where none is alive.
Append(s, u) ==
  /\ queue' = [queue EXCEPT ![s] = @ \cup {u}]
  /\ worker' = [worker EXCEPT ![s] = IF @ = "none" THEN "debounce" ELSE @]
Enqueue(u) ==
  LET s == u[1]
  IN /\ at[u] = "handled" /\ ~Full(s) /\ ~closing
     /\ at' = [at EXCEPT ![u] = "receipt"] /\ Append(s, u)
     /\ UNCHANGED <<sound, held, batch, child, cancelled, consumed, rows, closing, historyVars,
                    replyFaults, replyStops>>

\* Only a message to the bot is told of the overload.
Overload(u) ==
  /\ at[u] = "handled" /\ Full(u[1]) /\ ~closing /\ at' = [at EXCEPT ![u] = "receipt"]
  /\ \/ Fine /\ heard' = heard \cup {u} /\ UNCHANGED sound
     \/ u \in Direct /\ Fault /\ sound' = sound \ {u} /\ UNCHANGED heard
  /\ UNCHANGED <<workVars, rows, closing, answers, noticed, excused, replyStops>>

-----------------------------------------------------------------------------
(* _process_pending_reply_batch, the child *)

\* The permit is held until the child ends, however late.
Holding == {s \in Senders : child[s] \in {"run", "sent"}}
TakePermit(s) ==
  /\ child[s] = "queued" /\ s \notin cancelled /\ Cardinality(Holding) < Permits
  /\ child' = [child EXCEPT ![s] = "run"]
  /\ UNCHANGED <<inboxVars, queue, worker, held, batch, cancelled, consumed, rows, closing,
                 historyVars, replyFaults, replyStops>>

\* Mutes, the decision to stay silent, an empty generation nobody waits for.
Decided(s) == heard' = heard \cup batch[s]
Skip(s) ==
  /\ child[s] = "run" /\ child' = [child EXCEPT ![s] = "ok"] /\ Decided(s)
  /\ UNCHANGED <<inboxVars, queue, worker, held, batch, cancelled, consumed, rows, closing,
                 answers, noticed, excused, replyFaults, replyStops>>

\* The delivery receipt of the batch is consumed: its messages were heard.
Consume(s) == consumed' = consumed \cup {s} /\ heard' = heard \cup batch[s]

\* A reply, a sticker, a voice or a skill reaches Telegram; a cancelled child may
\* still be inside that call.  An ambiguous send is a fault that consumes too.
Deliver(s) ==
  /\ child[s] = "run" /\ Consume(s)
  /\ \/ Fine /\ answers' = Again(batch[s])
     \/ Fault /\ UNCHANGED answers
  /\ child' = [child EXCEPT ![s] = "sent"]
  /\ UNCHANGED <<inboxVars, queue, worker, held, batch, cancelled, rows, closing, noticed, excused,
                 replyStops>>

Break(s) ==
  /\ child[s] = "run" /\ Fault /\ child' = [child EXCEPT ![s] = "failed"]
  /\ UNCHANGED <<inboxVars, queue, worker, held, batch, cancelled, consumed, rows, closing,
                 historyVars, replyStops>>

\* The reply's memory row owns the receipts of the batch; a full queue finishes
\* them as failed, and a receipt completed meanwhile is an error that is swallowed.
Store(s) ==
  LET S == Open(batch[s])
  IN /\ child[s] = "sent" /\ s \notin cancelled /\ child' = [child EXCEPT ![s] = "ok"]
     /\ \/ Fine /\ Remember("out", S) /\ UNCHANGED <<sound, excused>>
        \/ Fault /\ Finish(S, FALSE) /\ excused' = excused \cup S /\ UNCHANGED rows
     /\ UNCHANGED <<at, queue, worker, held, batch, cancelled, consumed, closing, answers, noticed,
                    heard, replyStops>>

\* The cancellation arrives; a visible progress message is turned into a notice,
\* which counts as the delivery.
Obey(s) ==
  /\ s \in cancelled /\ Live(s) /\ child' = [child EXCEPT ![s] = "failed"]
  /\ \/ UNCHANGED <<consumed, heard>>
     \/ child[s] = "run" /\ Consume(s)
  /\ UNCHANGED <<inboxVars, queue, worker, held, batch, cancelled, rows, closing, answers, noticed,
                 excused, replyFaults, replyStops>>

-----------------------------------------------------------------------------
(* _pending_reply_worker *)

Take(s) ==
  /\ worker[s] = "debounce" /\ queue[s] # {}
  /\ worker' = [worker EXCEPT ![s] = "guard"] /\ child' = [child EXCEPT ![s] = "queued"]
  /\ held' = [held EXCEPT ![s] = queue[s]] /\ batch' = [batch EXCEPT ![s] = queue[s]]
  /\ queue' = [queue EXCEPT ![s] = {}]
  /\ cancelled' = cancelled \ {s} /\ consumed' = consumed \ {s} /\ noticed' = noticed \ {s}
  /\ UNCHANGED <<inboxVars, rows, closing, answers, heard, excused, replyFaults, replyStops>>

Orphaned(s) == worker' = [worker EXCEPT ![s] = "orphan"]
\* The hard deadline cancels the child; the worker stays with it.
Deadline(s) ==
  /\ worker[s] = "guard" /\ Live(s) /\ cancelled' = cancelled \cup {s}
  /\ Orphaned(s)
  /\ UNCHANGED <<inboxVars, queue, held, batch, child, consumed, rows, closing, historyVars,
                 replyFaults, replyStops>>

\* Mutant: the timeout is told at the deadline, while the child may still send.
EndedOrLate(s) == child[s] \in {"ok", "failed"} \/ worker[s] = "orphan"
Ended(s) == child[s] \in {"ok", "failed"}
\* Mutant: only the result of the child counts.
Returned(s) == child[s] = "ok"
Succeeded(s) == child[s] = "ok" \/ s \in consumed

\* Mutant: the worker ends after every batch.
RestAlways(s) == "none"
Rest(s) == IF queue[s] = {} THEN "none" ELSE "debounce"

\* Ambient messages are not told of a failure.
Addressed(s) == batch[s] \cap Direct # {}
Told(s)  == noticed' = noticed \cup {s} /\ heard' = heard \cup batch[s]
Silent   == UNCHANGED <<noticed, heard>>

\* The failure notice has a deadline of its own.
Settle(s) ==
  /\ worker[s] \in {"guard", "orphan"} /\ Ended(s)
  /\ \/ Fine /\ Succeeded(s) /\ Finish(held[s], TRUE) /\ Silent
     \/ Fine /\ ~Succeeded(s) /\ Addressed(s) /\ Finish(held[s], TRUE) /\ Told(s)
     \/ Fine /\ ~Succeeded(s) /\ ~Addressed(s) /\ Finish(held[s], TRUE) /\ Silent
     \/ Fault /\ ~Succeeded(s) /\ Addressed(s) /\ Finish(held[s], FALSE) /\ Silent
  /\ held' = [held EXCEPT ![s] = {}]
  /\ worker' = [worker EXCEPT ![s] = Rest(s)]
  /\ UNCHANGED <<at, queue, batch, child, cancelled, consumed, rows, closing, answers, excused,
                 replyStops>>

-----------------------------------------------------------------------------
(* The memory worker and the receipt *)

\* A failed batch is isolated; a row that fails alone fails the receipts it owns.
WriteRow(r) ==
  /\ r \in rows /\ rows' = rows \ {r}
  /\ \/ Fine /\ UNCHANGED <<sound, excused>>
     \/ Fault /\ Finish(r[2], FALSE) /\ excused' = excused \cup r[2]
  /\ UNCHANGED <<at, workVars, closing, answers, noticed, heard, replyStops>>

\* Mutant: the receipt settles when the worker is done with it.
SettledEarly(u) == u \notin queue[u[1]] \cup held[u[1]]
Settled(u) == ~Owned(u)
\* The finalizer of the inbox completes the row or releases it for a retry.
Complete(u) ==
  /\ at[u] = "receipt" /\ Settled(u)
  /\ at' = [at EXCEPT ![u] = IF u \in sound THEN "done" ELSE "new"] /\ sound' = sound \cup {u}
  /\ UNCHANGED <<workVars, rows, closing, historyVars, replyFaults, replyStops>>

-----------------------------------------------------------------------------
(* Shutdown and crash *)

\* flush_pending_inbound_batches waits for the workers and then cancels them: what
\* they hold is settled by what was delivered, what waits fails, and a child that
\* resists goes on.  Memory shutdown writes its rows or fails their receipts.
Undelivered == (UNION {held[s] : s \in Senders \ consumed}) \cup (UNION {queue[s] : s \in Senders})
GiveUp ==
  /\ ~closing /\ replyStops < MaxReplyStops /\ replyStops' = replyStops + 1 /\ closing' = TRUE
  /\ sound' = sound \ Undelivered
  /\ cancelled' = cancelled \cup {s \in Senders : Live(s)}
  /\ held' = [s \in Senders |-> {}] /\ queue' = held' /\ worker' = [s \in Senders |-> "none"]
  /\ excused' = excused \cup {u \in Updates : at[u] # "done"}
  /\ UNCHANGED <<at, batch, child, consumed, rows, answers, noticed, heard, replyFaults>>

\* The process ends, after a shutdown or by a crash; the leases of its rows expire.
Exit ==
  /\ \/ closing /\ UNCHANGED replyStops
     \/ ~closing /\ replyStops < MaxReplyStops /\ replyStops' = replyStops + 1
  /\ closing' = FALSE /\ rows' = {} /\ noticed' = {} /\ sound' = Updates
  /\ at' = [u \in Updates |-> IF at[u] = "done" THEN "done" ELSE "new"]
  /\ queue' = [s \in Senders |-> {}] /\ held' = queue' /\ batch' = queue'
  /\ worker' = [s \in Senders |-> "none"] /\ child' = worker' /\ cancelled' = {} /\ consumed' = {}
  /\ excused' = excused \cup {u \in Updates : at[u] # "done"}
  /\ UNCHANGED <<answers, heard, replyFaults>>

Message(u) == Leave(u) \/ KeywordReply(u) \/ Enqueue(u) \/ Overload(u)
Generate(s) == TakePermit(s) \/ Skip(s) \/ Deliver(s) \/ Break(s)
Work(s) == Take(s) \/ Settle(s)
Next ==
  \/ \E u \in Updates : Handle(u) \/ Message(u) \/ Complete(u)
  \/ \E s \in Senders : Generate(s) \/ Store(s) \/ Obey(s) \/ Work(s) \/ Deadline(s)
  \/ \E r \in rows : WriteRow(r)
  \/ GiveUp \/ Exit

\* The inbox retries, the loop runs every task, and a child that resists its
\* cancellation ends or the health check ends the process.
Fairness ==
  /\ \A u \in Updates : WF_replyVars(Handle(u) /\ Fine) /\ WF_replyVars(Message(u))
                        /\ WF_replyVars(Complete(u))
  /\ \A s \in Senders : WF_replyVars(Generate(s)) /\ WF_replyVars(Store(s)) /\ WF_replyVars(Obey(s))
                        /\ WF_replyVars(Work(s)) /\ WF_replyVars(Deadline(s))
  /\ WF_replyVars(\E r \in rows : WriteRow(r)) /\ WF_replyVars(closing /\ Exit)

Spec == Init /\ [][Next]_replyVars /\ Fairness

-----------------------------------------------------------------------------
(* Properties *)

\* A batch is answered or told of a failure, never both: the notice waits for the
\* child that ignores its deadline.
OneVoice == \A s \in noticed : s \notin consumed

\* A receipt outlives its owners: an update is settled only when the child that
\* answers it has ended and the rows of the message and of the reply are settled.
SettledByOwners ==
  \A u \in Updates : at[u] = "done" =>
    /\ ~Owned(u)
    /\ closing \/ ~(Live(u[1]) /\ u \in batch[u[1]])

\* A message is answered twice only after a row of it was lost or the process
\* stopped over it: a deadline, a failing generation and a resisting child do not.
RepeatsExplained == \A u \in Updates : answers[u] > 1 => u \in excused

\* A message to the bot is not completed in silence.
DirectHeard == \A u \in Direct : at[u] = "done" => u \in heard

\* Every message whose handling began is completed.
MessagesComplete == \A u \in Updates : at[u] = "handled" ~> at[u] = "done"

\* A crash or a restart does not process an update twice (README.md:1022).
AnsweredOnce == \A u \in Updates : answers[u] <= 1

=============================================================================
