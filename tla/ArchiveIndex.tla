---------------------------- MODULE ArchiveIndex ----------------------------
(***************************************************************************)
(* The semantic index of the message archive                               *)
(* (services/archive_vector.py): triggers keep one job row per archived    *)
(* message (db/engine.py), and an indexer per process claims rows under a  *)
(* lease, asks the model for vectors and stores them.                      *)
(*                                                                         *)
(* A text stands for its SHA-256, a vector for the text and the embedding  *)
(* space it was made from.  The claim reads its batch in one statement and *)
(* writes it in later ones: SQLite opens the transaction at the first that *)
(* writes, so other writers come between.                                  *)
(***************************************************************************)
EXTENDS Naturals

CONSTANTS
  Msgs,
  Indexers,          \* processes; a rolling deployment overlaps two
  Texts, Blank,      \* what a message may say; Blank is text without a word to index
  Spaces,            \* provider, model and endpoint of the embeddings
  None,
  MaxTextEdits, MaxSpaceChanges, MaxIndexFaults  \* bounds

IndexAssumption ==
  /\ Blank \notin Texts /\ None \notin Texts \cup {Blank} \cup Spaces /\ Spaces # {}
  /\ {MaxTextEdits, MaxSpaceChanges, MaxIndexFaults} \subseteq Nat

VARIABLES
  archive,    \* message -> its text in group_message_archive, None without a row
  jobs,       \* message -> its row in group_message_archive_embeddings, or None
  space,      \* process -> the primary embedding space of its configuration
  indexer,    \* process -> [at, space, batch]: the pass in progress, read texts included
  overtaken,  \* history: messages edited between a claim's read and its write
  textEdits, spaceChanges, indexFaults

indexVars == <<archive, jobs, space, indexer, overtaken, textEdits, spaceChanges, indexFaults>>

Readable == Texts \cup {Blank}
Vector == [text : Texts \cup {None}, space : Spaces \cup {None}]
Job == [st : {"absent", "pending", "indexing", "ready", "failed", "skipped"},
        hash : Readable \cup {None}, space : Spaces \cup {None}, vec : Vector, due : BOOLEAN]

\* No row, and the one that the triggers insert
Unvectored == [text |-> None, space |-> None]
NoJob == [st |-> "absent", hash |-> None, space |-> None, vec |-> Unvectored, due |-> FALSE]
NewJob == [NoJob EXCEPT !.st = "pending"]
Asleep == [at |-> "idle", space |-> None, batch |-> <<>>]

TypeOK ==
  /\ archive \in [Msgs -> Readable \cup {None}]
  /\ jobs \in [Msgs -> Job]
  /\ space \in [Indexers -> Spaces \cup {None}]
  /\ \A p \in Indexers :
       /\ indexer[p].at \in {"idle", "read", "ask", "fail"}
       /\ indexer[p].space \in Spaces \cup {None}
       /\ DOMAIN indexer[p].batch \subseteq Msgs
       /\ \A m \in DOMAIN indexer[p].batch : indexer[p].batch[m] \in Readable
  /\ overtaken \subseteq Msgs
  /\ textEdits \in 0..MaxTextEdits /\ spaceChanges \in 0..MaxSpaceChanges
  /\ indexFaults \in 0..MaxIndexFaults

Init ==
  /\ archive = [m \in Msgs |-> None] /\ jobs = [m \in Msgs |-> NoJob]
  /\ \E s \in Spaces : space = [p \in Indexers |-> s]
  /\ indexer = [p \in Indexers |-> Asleep] /\ overtaken = {}
  /\ textEdits = 0 /\ spaceChanges = 0 /\ indexFaults = 0

Goes(p, to) == indexer' = [indexer EXCEPT ![p] = to]
Fine  == UNCHANGED indexFaults
Fails == indexFaults < MaxIndexFaults /\ indexFaults' = indexFaults + 1

-----------------------------------------------------------------------------
(* The archive and its triggers *)

\* A bug for the mutation runs: an edit leaves a row that was indexed before.
LaxEdit(m) ==
  /\ textEdits < MaxTextEdits /\ textEdits' = textEdits + 1
  /\ \E t \in Readable \ {archive[m]} : archive' = [archive EXCEPT ![m] = t]
  /\ jobs' = [jobs EXCEPT ![m] = IF @ = NoJob THEN NewJob ELSE @]
  /\ overtaken' = overtaken \ {m} /\ UNCHANGED <<space, indexer, spaceChanges, indexFaults>>

\* A message arrives, or its text, sender or reply changes: the row is replaced.
Edit(m) ==
  /\ textEdits < MaxTextEdits /\ textEdits' = textEdits + 1
  /\ \E t \in Readable \ {archive[m]} : archive' = [archive EXCEPT ![m] = t]
  /\ jobs' = [jobs EXCEPT ![m] = NewJob]
  /\ overtaken' = overtaken \ {m} /\ UNCHANGED <<space, indexer, spaceChanges, indexFaults>>

\* The retention deletes the message, and ON DELETE CASCADE its row.
Expire(m) ==
  /\ archive[m] # None /\ archive' = [archive EXCEPT ![m] = None]
  /\ jobs' = [jobs EXCEPT ![m] = NoJob] /\ overtaken' = overtaken \ {m}
  /\ UNCHANGED <<space, indexer, textEdits, spaceChanges, indexFaults>>

-----------------------------------------------------------------------------
(* One pass of an indexer *)

\* A bug for the mutation runs: a row under a lease is never claimed again.
LaxEligible(m, s) ==
  \/ jobs[m].st = "pending"
  \/ jobs[m].st = "failed" /\ jobs[m].due
  \/ jobs[m].st = "ready" /\ jobs[m].space # s

\* Pending, failed or abandoned under a lease that has run out, or indexed elsewhere
Eligible(m, s) ==
  \/ jobs[m].st = "pending"
  \/ jobs[m].st \in {"failed", "indexing"} /\ jobs[m].due
  \/ jobs[m].st = "ready" /\ jobs[m].space # s

\* _claim_pending_batch reads what is eligible, with its text.
ReadBatch(p) ==
  LET batch == {m \in Msgs : Eligible(m, space[p])} IN
  /\ indexer[p].at = "idle" /\ space[p] # None /\ batch # {}
  /\ Goes(p, [at |-> "read", space |-> space[p], batch |-> [m \in batch |-> archive[m]]])
  /\ UNCHANGED <<archive, jobs, space, overtaken, textEdits, spaceChanges, indexFaults>>

Marked(m, t, s) ==
  IF jobs[m] = NoJob THEN NoJob
  ELSE IF t = Blank
    THEN [st |-> "skipped", hash |-> t, space |-> s, vec |-> Unvectored, due |-> FALSE]
  ELSE [jobs[m] EXCEPT !.st = "indexing", !.hash = t, !.space = s, !.due = FALSE]

\* ... and marks it, whatever became of the rows since: blank messages are skipped.
Claim(p) ==
  LET batch == indexer[p].batch
      kept == {m \in DOMAIN batch : batch[m] # Blank} IN
  /\ indexer[p].at = "read" /\ Fine
  /\ jobs' = [m \in Msgs |-> IF m \notin DOMAIN batch THEN jobs[m]
                             ELSE Marked(m, batch[m], indexer[p].space)]
  /\ overtaken' = (overtaken \ DOMAIN batch)
                    \cup {m \in DOMAIN batch : archive[m] \notin {None, batch[m]}}
  /\ Goes(p, IF kept = {} THEN Asleep
             ELSE [at |-> IF space[p] = indexer[p].space THEN "ask" ELSE "fail",
                   space |-> indexer[p].space, batch |-> [m \in kept |-> batch[m]]])
  /\ UNCHANGED <<archive, space, textEdits, spaceChanges>>

\* The row still holds the claim's text and space, whoever claimed it last.
Holds(m, p) ==
  /\ jobs[m].st = "indexing"
  /\ jobs[m].hash = indexer[p].batch[m] /\ jobs[m].space = indexer[p].space

\* A bug for the mutation runs: what comes back is stored in whatever is being indexed.
LaxStore(p) ==
  /\ indexer[p].at = "ask"
  /\ \E bad \in SUBSET DOMAIN indexer[p].batch :
       /\ jobs' = [m \in Msgs |->
            IF m \in DOMAIN indexer[p].batch \ bad /\ jobs[m].st = "indexing"
            THEN [jobs[m] EXCEPT !.st = "ready", !.due = FALSE,
                    !.vec = [text |-> indexer[p].batch[m], space |-> indexer[p].space]]
            ELSE jobs[m]]
       /\ IF bad = {} THEN Fine /\ Goes(p, Asleep)
          ELSE Fails /\ Goes(p, [indexer[p] EXCEPT !.at = "fail", !.batch = [m \in bad |-> @[m]]])
  /\ UNCHANGED <<archive, space, overtaken, textEdits, spaceChanges>>

\* The vectors come back and are stored; those that can not be packed fail next.
Store(p) ==
  /\ indexer[p].at = "ask"
  /\ \E bad \in SUBSET DOMAIN indexer[p].batch :
       /\ jobs' = [m \in Msgs |->
            IF m \in DOMAIN indexer[p].batch \ bad /\ Holds(m, p)
            THEN [jobs[m] EXCEPT !.st = "ready", !.due = FALSE,
                    !.vec = [text |-> indexer[p].batch[m], space |-> indexer[p].space]]
            ELSE jobs[m]]
       /\ IF bad = {} THEN Fine /\ Goes(p, Asleep)
          ELSE Fails /\ Goes(p, [indexer[p] EXCEPT !.at = "fail", !.batch = [m \in bad |-> @[m]]])
  /\ UNCHANGED <<archive, space, overtaken, textEdits, spaceChanges>>

\* embed_primary_with_space gives nothing, or not one vector of one length per text.
NoVectors(p) ==
  /\ indexer[p].at = "ask" /\ Fails /\ Goes(p, [indexer[p] EXCEPT !.at = "fail"])
  /\ UNCHANGED <<archive, jobs, space, overtaken, textEdits, spaceChanges>>

\* _mark_failed, with a delay that doubles
MarkFailed(p) ==
  /\ indexer[p].at = "fail" /\ Fine /\ Goes(p, Asleep)
  /\ jobs' = [m \in Msgs |-> IF m \in DOMAIN indexer[p].batch /\ Holds(m, p)
                             THEN [jobs[m] EXCEPT !.st = "failed", !.due = FALSE] ELSE jobs[m]]
  /\ UNCHANGED <<archive, space, overtaken, textEdits, spaceChanges>>

\* A write fails, a shutdown cancels the pass or the process dies: rows stay under lease.
Abandon(p) ==
  /\ indexer[p].at # "idle" /\ Fails /\ Goes(p, Asleep)
  /\ UNCHANGED <<archive, jobs, space, overtaken, textEdits, spaceChanges>>

\* Time passes next_attempt_at.
ComesDue(m) ==
  /\ jobs[m].st \in {"failed", "indexing"} /\ ~jobs[m].due
  /\ jobs' = [jobs EXCEPT ![m].due = TRUE]
  /\ UNCHANGED <<archive, space, indexer, overtaken, textEdits, spaceChanges, indexFaults>>

\* The configuration of one process changes, or it restarts under another.
Reconfigure(p) ==
  /\ spaceChanges < MaxSpaceChanges /\ spaceChanges' = spaceChanges + 1
  /\ \E s \in (Spaces \cup {None}) \ {space[p]} : space' = [space EXCEPT ![p] = s]
  /\ UNCHANGED <<archive, jobs, indexer, overtaken, textEdits, indexFaults>>

Next ==
  \/ \E m \in Msgs : Edit(m) \/ Expire(m) \/ ComesDue(m)
  \/ \E p \in Indexers : ReadBatch(p) \/ Claim(p) \/ Store(p) \/ NoVectors(p) \/ MarkFailed(p)
                         \/ Abandon(p) \/ Reconfigure(p)

\* The indexers run, calls to the model end at their deadline, and time passes.
Spec ==
  /\ Init /\ [][Next]_indexVars
  /\ \A p \in Indexers :
       WF_indexVars(ReadBatch(p)) /\ WF_indexVars(Claim(p) \/ Store(p) \/ MarkFailed(p))
  /\ \A m \in Msgs : WF_indexVars(ComesDue(m))

-----------------------------------------------------------------------------
(* Properties *)

\* A search by a query embedded in s compares this row (recall).
Recalled(m, s) == jobs[m].st = "ready" /\ jobs[m].space = s

\* What recall compares with a query is a vector of the query's space of what the message
\* says now, through edits, expiry, changes of the model and leases that
\* lapse during the call; and only a message without words is passed over.  Excepted is a
\* message edited between a claim's read and its write (archive_vector.py:317-402).
VectorsCurrent ==
  \A m \in Msgs : m \notin overtaken =>
    /\ \A s \in Spaces : Recalled(m, s) => jobs[m].vec = [text |-> archive[m], space |-> s]
    /\ jobs[m].st = "skipped" => archive[m] = Blank

\* Every archived message is indexed or passed over in the end, whatever pass was cut short
\* (the lease of _claim_pending_batch), while a model is configured.
IndexSettles ==
  <>[](\A p \in Indexers : space[p] # None) =>
    \A m \in Msgs : archive[m] # None
      ~> (archive[m] = None \/ jobs[m].st \in {"ready", "skipped"})
=============================================================================
