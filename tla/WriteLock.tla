----------------------------- MODULE WriteLock -----------------------------
(***************************************************************************)
(* The process's lock on writing to SQLite (db/sqlite_session.py): one     *)
(* lock per event loop, handed from its holder to the first waiter of the  *)
(* best priority, and the session that takes it before a statement that    *)
(* writes, a flush or a commit and gives it back with its transaction.     *)
(*                                                                         *)
(* A future that was cancelled stays in its queue until a release passes   *)
(* over it; the model removes it at once, which only a free lock with      *)
(* waiters could tell apart, and release leaves none.                      *)
(***************************************************************************)
EXTENDS Naturals, Sequences, SequencesExt, FiniteSets

CONSTANTS
  Sessions,
  NoSession,
  Rank,            \* session -> its task's ExecutionPriority, the least first
  MaxWriteFaults   \* bound: failed and cancelled statements

WriteAssumption ==
  NoSession \notin Sessions /\ Rank \in [Sessions -> Nat] /\ MaxWriteFaults \in Nat

VARIABLES
  locked,   \* _locked
  queue,    \* _waiters, in the order of arrival
  step,     \* session -> what its task does
  holds,    \* session -> _sqlite_write_lock_held
  dirty,    \* session -> objects not flushed yet
  nested,   \* session -> a savepoint is open
  writer,   \* the session whose transaction is SQLite's writer
  excused,  \* history: sessions that wrote without the lock or could not roll back
  faults

vars == <<locked, queue, step, holds, dirty, nested, writer, excused, faults>>

TypeOK ==
  /\ locked \in BOOLEAN /\ queue \in Seq(Sessions)
  /\ step \in [Sessions -> {"free", "waiting", "given", "run", "savepoint", "rollback"}]
  /\ holds \in [Sessions -> BOOLEAN]
  /\ dirty \in [Sessions -> BOOLEAN] /\ nested \in [Sessions -> BOOLEAN]
  /\ writer \in Sessions \cup {NoSession} /\ excused \subseteq Sessions /\ faults \in 0..MaxWriteFaults

Init ==
  /\ locked = FALSE /\ queue = <<>> /\ step = [s \in Sessions |-> "free"]
  /\ holds = [s \in Sessions |-> FALSE]
  /\ dirty = [s \in Sessions |-> FALSE] /\ nested = [s \in Sessions |-> FALSE]
  /\ writer = NoSession /\ excused = {} /\ faults = 0

Fine  == UNCHANGED faults
Fails == faults < MaxWriteFaults /\ faults' = faults + 1
Go(s, p) == step' = [step EXCEPT ![s] = p]

-----------------------------------------------------------------------------
(* _PrioritySQLiteWriteLock *)

\* A bug for the mutation runs: in the order of arrival alone.
Earliest == 1
Best == CHOOSE i \in 1..Len(queue) : \A j \in 1..Len(queue) :
          Rank[queue[i]] < Rank[queue[j]] \/ (Rank[queue[i]] = Rank[queue[j]] /\ i <= j)

\* release: handed over while it stays locked; s goes on to p
Release(s, p) ==
  IF queue = <<>>
    THEN locked' = FALSE /\ Go(s, p) /\ UNCHANGED queue
    ELSE /\ step' = [step EXCEPT ![s] = p, ![queue[Best]] = "given"]
         /\ queue' = RemoveAt(queue, Best) /\ UNCHANGED locked

\* _acquire_write_lock, with what follows it in the same step
Acquire(s) ==
  IF holds[s] THEN Go(s, "run") /\ UNCHANGED <<locked, queue, holds>>
  ELSE IF ~locked /\ queue = <<>>
    THEN /\ locked' = TRUE /\ holds' = [holds EXCEPT ![s] = TRUE] /\ Go(s, "run") /\ UNCHANGED queue
    ELSE Go(s, "waiting") /\ queue' = Append(queue, s) /\ UNCHANGED <<locked, holds>>

\* _release_write_lock, with its early return
LetGo(s, p) ==
  IF holds[s] THEN holds' = [holds EXCEPT ![s] = FALSE] /\ Release(s, p)
  ELSE Go(s, p) /\ UNCHANGED <<holds, locked, queue>>

Handed(s) ==
  /\ step[s] = "given" /\ Go(s, "run") /\ holds' = [holds EXCEPT ![s] = TRUE]
  /\ UNCHANGED <<locked, queue, dirty, nested, writer, excused, faults>>

\* A bug for the mutation runs: a waiter that gives up forgets that the lock is its own.
GiveUpForgetful(s) ==
  /\ step[s] \in {"waiting", "given"} /\ Go(s, "rollback") /\ UNCHANGED locked
  /\ queue' = SelectSeq(queue, LAMBDA t : t # s)
  /\ UNCHANGED <<holds, dirty, nested, writer, excused, faults>>

\* Five seconds, or its cancellation: the wait ends, and a lock it was just handed goes on.
GiveUp(s) ==
  /\ \/ /\ step[s] = "waiting" /\ Go(s, "rollback") /\ UNCHANGED locked
        /\ \E i \in 1..Len(queue) : queue[i] = s /\ queue' = RemoveAt(queue, i)
     \/ step[s] = "given" /\ Release(s, "rollback")
  /\ UNCHANGED <<holds, dirty, nested, writer, excused, faults>>

-----------------------------------------------------------------------------
(* SQLiteSafeAsyncSession *)

\* session.add and the like
Change(s) ==
  /\ step[s] = "free" /\ ~dirty[s] /\ dirty' = [dirty EXCEPT ![s] = TRUE]
  /\ UNCHANGED <<locked, queue, step, holds, nested, writer, excused, faults>>

CanWrite(s) == writer \in {s, NoSession}

\* A statement that reads flushes what is pending and a savepoint does before it opens:
\* neither asks for the lock.
Unguarded(s) ==
  /\ step[s] = "free" /\ dirty[s]
  /\ IF CanWrite(s)
       THEN /\ writer' = s /\ dirty' = [dirty EXCEPT ![s] = FALSE]
            /\ excused' = (IF holds[s] THEN excused ELSE excused \cup {s})
            /\ UNCHANGED step
       ELSE Go(s, "rollback") /\ UNCHANGED <<writer, dirty, excused>>
  /\ UNCHANGED <<locked, queue, holds, nested, faults>>

BeginNested(s) ==
  /\ step[s] = "free" /\ ~dirty[s] /\ ~nested[s] /\ nested' = [nested EXCEPT ![s] = TRUE]
  /\ UNCHANGED <<locked, queue, step, holds, dirty, writer, excused, faults>>

\* execute of a statement that writes, flush, and commit with the lock or with changes:
\* which of them it was shows when it runs.
Ask(s) == step[s] = "free" /\ Acquire(s) /\ UNCHANGED <<dirty, nested, writer, excused, faults>>

Written(s) ==
  /\ step[s] = "run" /\ CanWrite(s)
  /\ writer' = s /\ dirty' = [dirty EXCEPT ![s] = FALSE] /\ Go(s, "free")
  /\ UNCHANGED <<locked, queue, holds, nested, excused, faults>>

\* Without the lock and anything pending a commit does not ask.
Committed(s) ==
  /\ (step[s] = "run" /\ (dirty[s] => CanWrite(s))) \/ (step[s] = "free" /\ ~holds[s] /\ ~dirty[s])
  /\ writer' = (IF writer = s THEN NoSession ELSE writer)
  /\ dirty' = [dirty EXCEPT ![s] = FALSE] /\ nested' = [nested EXCEPT ![s] = FALSE]
  /\ excused' = excused \ {s} /\ LetGo(s, "free")
  /\ UNCHANGED faults

\* Any failure may come after the statement made its transaction the writer.
MayWrite(s) == UNCHANGED writer \/ (writer = NoSession /\ writer' = s)

\* An integrity error under a savepoint; SQLite's busy timeout, an operational error, a
\* cancellation, any failure of a commit.
Refused(s) ==
  /\ step[s] = "run" /\ Fails /\ nested[s]
  /\ Go(s, "savepoint") /\ MayWrite(s)
  /\ UNCHANGED <<locked, queue, holds, dirty, nested, excused>>
Failed(s) ==
  /\ step[s] = "run" /\ Go(s, "rollback")
  /\ \/ Fails /\ MayWrite(s)
     \/ Fine /\ ~CanWrite(s) /\ UNCHANGED writer
  /\ UNCHANGED <<locked, queue, holds, dirty, nested, excused>>

\* A bug for the mutation runs: the savepoint's rollback gives the lock back.
SavepointReleases(s) ==
  /\ step[s] = "savepoint"
  /\ \/ /\ Fine /\ nested' = [nested EXCEPT ![s] = FALSE] /\ dirty' = [dirty EXCEPT ![s] = FALSE]
        /\ LetGo(s, "free")
     \/ Fails /\ Go(s, "rollback") /\ UNCHANGED <<nested, dirty, holds, locked, queue>>
  /\ UNCHANGED <<writer, excused>>

\* The outer transaction goes on with the lock; a savepoint that fails takes all with it.
Savepoint(s) ==
  /\ step[s] = "savepoint"
  /\ \/ /\ Fine /\ nested' = [nested EXCEPT ![s] = FALSE] /\ dirty' = [dirty EXCEPT ![s] = FALSE]
        /\ Go(s, "free")
     \/ Fails /\ Go(s, "rollback") /\ UNCHANGED <<nested, dirty>>
  /\ UNCHANGED <<locked, queue, holds, writer, excused>>

\* The end of a failed operation, rollback and close: the lock goes whether or not the
\* rollback worked.
Rollback(s) ==
  /\ step[s] = "rollback"
  /\ dirty' = [dirty EXCEPT ![s] = FALSE] /\ nested' = [nested EXCEPT ![s] = FALSE]
  /\ \/ Fine /\ writer' = (IF writer = s THEN NoSession ELSE writer) /\ excused' = excused \ {s}
     \/ Fails /\ UNCHANGED writer /\ excused' = excused \cup {s}
  /\ LetGo(s, "free")

\* The caller's own rollback or close
Close(s) ==
  /\ step[s] = "free" /\ Go(s, "rollback")
  /\ UNCHANGED <<locked, queue, holds, dirty, nested, writer, excused, faults>>

Next == \E s \in Sessions :
  \/ Handed(s) \/ GiveUp(s)
  \/ Change(s) \/ Unguarded(s) \/ BeginNested(s) \/ Ask(s)
  \/ Written(s) \/ Committed(s) \/ Refused(s) \/ Failed(s) \/ Savepoint(s) \/ Rollback(s) \/ Close(s)

\* A task that was handed the lock runs; a wait has a deadline; SQLite answers or fails.
Spec == Init /\ [][Next]_vars /\ \A s \in Sessions : WF_vars(Handed(s) \/ GiveUp(s))

-----------------------------------------------------------------------------
\* The lock is taken exactly while one session has it or has been handed it: a waiter that
\* times out as it is handed over, a savepoint, a failed rollback or a second acquire of
\* one transaction neither leaks nor doubles it, and nobody waits for a free lock
\* (acquire, release, _rollback_failed_operation).
Owners == {s \in Sessions : holds[s] \/ step[s] = "given"}
LockAccounted ==
  /\ Cardinality(Owners) = (IF locked THEN 1 ELSE 0)
  /\ ~locked => queue = <<>>
  /\ \A s \in Sessions : step[s] = "waiting" <=> Contains(queue, s)

\* SQLite's writer still has the process lock, through expected conflicts under a
\* savepoint: excepted are flushes that never asked for it and rollbacks that failed
\* (the comment in _rollback_failed_operation).
WriterCovered == writer # NoSession => holds[writer] \/ writer \in excused

\* Whoever comes to own the lock, nobody more urgent waits, and of the equally urgent
\* nobody waited longer; a newcomer passes no waiter.
Ahead(s, t) == Contains(queue, t) /\ (Rank[t] < Rank[s] \/ (Rank[t] = Rank[s] /\
  (Contains(queue, s) => \E i, j \in 1..Len(queue) : queue[i] = t /\ queue[j] = s /\ i < j)))
TurnsKept == [][\A s \in Sessions : s \in Owners' \ Owners => ~\E t \in Sessions \ {s} : Ahead(s, t)]_vars

\* Every wait for the lock ends, with the lock or without it, even when its holder waits
\* for SQLite's own lock, which the waiter has.
WaitsEnd == \A s \in Sessions : step[s] = "waiting" ~> step[s] # "waiting"
=============================================================================
