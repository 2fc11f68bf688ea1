---------------------------- MODULE CleanupQueue ----------------------------
(***************************************************************************)
(* bot/services/telegram_cleanup.py: the durable queue of messages to      *)
(* delete from Telegram.  Each process runs one worker over the table      *)
(* telegram_delete_jobs; a delete call that ignores its cancellation       *)
(* becomes an orphan that settles its job when it ends.  Processes overlap *)
(* during a rolling deployment.                                            *)
(***************************************************************************)
EXTENDS Naturals, FiniteSets

CONSTANTS
  Msgs, Cleaners,       \* messages and processes
  MaxDeleteAttempts,    \* max_attempts
  MaxDeleteOrphans,     \* max_orphans
  NoCleaner,
  MaxCleanupFaults,     \* bound on failed calls and writes, lapsed leases
  MaxCleanupStops       \* bound on crashes and orderly stops

CleanupAssumption ==
  /\ {MaxDeleteAttempts, MaxDeleteOrphans} \subseteq Nat \ {0}
  /\ {MaxCleanupFaults, MaxCleanupStops} \subseteq Nat /\ NoCleaner \notin Cleaners

VARIABLES
  job,      \* [Msgs -> row]: due, attempts, holder of the lease, lease lapsed
  proc,     \* [Cleaners -> state of the process]
  intake,   \* [Cleaners -> [Msgs -> due time of the request in memory, or "no"]]
  call,     \* [Cleaners -> [Msgs -> step of the claimed job]]
  fate,     \* [Msgs -> what became of the request], history
  cleanupFaults, cleanupStops

cleanupVars == <<job, proc, intake, call, fate, cleanupFaults, cleanupStops>>

NoJob == [due |-> "none", attempts |-> 0, holder |-> NoCleaner, lapsed |-> FALSE]
Empty == [m \in Msgs |-> "no"]
Idle  == [m \in Msgs |-> "none"]

TypeOK ==
  /\ job \in [Msgs -> [due : {"none", "now", "later"}, attempts : 0..MaxDeleteAttempts,
                       holder : Cleaners \cup {NoCleaner}, lapsed : BOOLEAN]]
  /\ proc \in [Cleaners -> {"off", "run", "failed", "stopping"}]
  /\ intake \in [Cleaners -> [Msgs -> {"no", "now", "later"}]]
  /\ call \in [Cleaners -> [Msgs -> {"none", "call", "drop", "retry",
                                     "orphan", "orphanDrop", "orphanRetry"}]]
  /\ fate \in [Msgs -> {"unsent", "asked", "deleted", "refused", "abandoned", "lost"}]
  /\ cleanupFaults \in 0..MaxCleanupFaults /\ cleanupStops \in 0..MaxCleanupStops

Init ==
  /\ job = [m \in Msgs |-> NoJob] /\ proc \in [Cleaners -> {"off", "run"}]
  /\ intake = [w \in Cleaners |-> Empty] /\ call = [w \in Cleaners |-> Idle]
  /\ fate = [m \in Msgs |-> "unsent"] /\ cleanupFaults = 0 /\ cleanupStops = 0

Fine  == UNCHANGED cleanupFaults
Fault == cleanupFaults < MaxCleanupFaults /\ cleanupFaults' = cleanupFaults + 1
Stops == cleanupStops < MaxCleanupStops /\ cleanupStops' = cleanupStops + 1

Queued(m)  == job[m].due # "none"
Sooner(a, b) == IF "now" \in {a, b} THEN "now" ELSE "later"
\* A request creates the row or brings its due time forward.
Merged(m, due) == IF Queued(m) THEN [job[m] EXCEPT !.due = Sooner(@, due)]
                  ELSE [NoJob EXCEPT !.due = due]
Orphans(w) == {m \in Msgs : call[w][m] \in {"orphan", "orphanDrop", "orphanRetry"}}
Working(w) == \E m \in Msgs : call[w][m] \in {"call", "drop", "retry"}
\* Attempts beyond max_attempts are all alike to the code.
Counted(n) == IF n < MaxDeleteAttempts THEN n + 1 ELSE n
Step(w, m, s) == call' = [call EXCEPT ![w][m] = s]
Settle(m, f)  == fate' = IF fate[m] = "asked" THEN [fate EXCEPT ![m] = f] ELSE fate

-----------------------------------------------------------------------------
(* Requests *)

Request(w, m) == proc[w] = "run" /\ fate[m] \in {"unsent", "asked"}
                 /\ fate' = [fate EXCEPT ![m] = "asked"]

\* Committed before it is acknowledged.
EnqueueDurable(w, m, due) ==
  /\ Request(w, m) /\ job' = [job EXCEPT ![m] = Merged(m, due)]
  /\ UNCHANGED <<proc, intake, call, cleanupFaults, cleanupStops>>

\* The synchronous intake of older callers lives in memory.
Enqueue(w, m, due) ==
  /\ Request(w, m) /\ intake[w][m] = "no"
  /\ intake' = [intake EXCEPT ![w][m] = due]
  /\ UNCHANGED <<job, proc, call, cleanupFaults, cleanupStops>>

Flushed(w) == [m \in Msgs |-> IF intake[w][m] = "no" THEN job[m] ELSE Merged(m, intake[w][m])]

\* One commit for the batch; when it fails the batch is kept and the worker ends.
Persist(w) ==
  /\ proc[w] \in {"run", "stopping"} /\ ~Working(w) /\ intake[w] # Empty
  /\ \/ /\ Fine /\ job' = Flushed(w) /\ intake' = [intake EXCEPT ![w] = Empty]
        /\ UNCHANGED proc
     \/ Fault /\ proc' = [proc EXCEPT ![w] = "failed"] /\ UNCHANGED <<job, intake>>
  /\ UNCHANGED <<call, fate, cleanupStops>>

-----------------------------------------------------------------------------
(* The worker *)

\* Mutants: a lease that has run out is not looked at; a job whose call is still
\* running in this process is claimed again.
UnleasedOnly(w, m) == job[m].due = "now" /\ job[m].holder = NoCleaner /\ m \notin Orphans(w)
AnyLapsed(w, m)    == job[m].due = "now" /\ (job[m].holder = NoCleaner \/ job[m].lapsed)
Available(w, m) ==
  /\ job[m].due = "now" /\ (job[m].holder = NoCleaner \/ job[m].lapsed)
  /\ m \notin Orphans(w)

Claim(w, m) ==
  /\ proc[w] = "run" /\ ~Working(w) /\ intake[w] = Empty
  /\ Cardinality(Orphans(w)) < MaxDeleteOrphans /\ Available(w, m)
  /\ job' = [job EXCEPT ![m].attempts = Counted(@), ![m].holder = w, ![m].lapsed = FALSE]
  /\ Step(w, m, "call")
  /\ UNCHANGED <<proc, intake, fate, cleanupFaults, cleanupStops>>

\* What Telegram answers: deleted, refused for good (also when it is gone
\* already), or an error after which nothing is known.
Answer(w, m, done, again) ==
  \/ fate[m] = "asked" /\ Fine /\ Settle(m, "deleted") /\ Step(w, m, done)
  \/ fate[m] = "asked" /\ Fault /\ Settle(m, "refused") /\ Step(w, m, done)
  \/ fate[m] # "asked" /\ Fine /\ UNCHANGED fate /\ Step(w, m, done)
  \/ Fault /\ (UNCHANGED fate \/ Settle(m, "deleted")) /\ Step(w, m, again)

Delete(w, m) ==
  /\ call[w][m] = "call"
  /\ \/ Answer(w, m, "drop", "retry")
     \/ Fault /\ Step(w, m, "orphan") /\ UNCHANGED fate
  /\ UNCHANGED <<job, proc, intake, cleanupStops>>

\* The orphan ends: its finalizer writes what the worker would have written.
OrphanEnds(w, m) ==
  /\ call[w][m] = "orphan"
  /\ Answer(w, m, "orphanDrop", "orphanRetry")
  /\ UNCHANGED <<job, proc, intake, cleanupStops>>

Held(w, m) == job[m].holder = w
Gone(m)    == job' = [job EXCEPT ![m] = NoJob]
Later(m)   == job' = [job EXCEPT ![m] = [@ EXCEPT !.due = "later", !.holder = NoCleaner,
                                                  !.lapsed = FALSE]]

\* _remove_job, conditional on the lease.
Remove(w, m) ==
  /\ call[w][m] \in {"drop", "orphanDrop"} /\ Step(w, m, "none")
  /\ IF Held(w, m) THEN Gone(m) ELSE UNCHANGED job
  /\ UNCHANGED <<proc, intake, fate, cleanupFaults, cleanupStops>>

\* Mutant: the lease is not compared.
RetryAnyway(w, m) ==
  /\ call[w][m] \in {"retry", "orphanRetry"} /\ Step(w, m, "none")
  /\ IF ~Queued(m) THEN UNCHANGED <<job, fate>>
     ELSE IF job[m].attempts >= MaxDeleteAttempts THEN Gone(m) /\ Settle(m, "abandoned")
     ELSE Later(m) /\ UNCHANGED fate
  /\ UNCHANGED <<proc, intake, cleanupFaults, cleanupStops>>

\* _retry_or_drop: only the holder of the lease puts the job off or gives it up.
Retry(w, m) ==
  /\ call[w][m] \in {"retry", "orphanRetry"} /\ Step(w, m, "none")
  /\ IF ~Held(w, m) THEN UNCHANGED <<job, fate>>
     ELSE IF job[m].attempts >= MaxDeleteAttempts THEN Gone(m) /\ Settle(m, "abandoned")
     ELSE Later(m) /\ UNCHANGED fate
  /\ UNCHANGED <<proc, intake, cleanupFaults, cleanupStops>>

-----------------------------------------------------------------------------
(* Time and processes *)

DueComes(m) ==
  /\ job[m].due = "later" /\ job' = [job EXCEPT ![m].due = "now"]
  /\ UNCHANGED <<proc, intake, call, fate, cleanupFaults, cleanupStops>>

\* A lease outlasts a bounded call (lease_seconds is at least its deadline and
\* grace); it runs out under an orphan, a late write, or a process that is gone.
LeaseLapses(m) ==
  LET w == job[m].holder
  IN /\ w # NoCleaner /\ ~job[m].lapsed /\ job' = [job EXCEPT ![m].lapsed = TRUE]
     /\ IF call[w][m] = "none" \/ proc[w] = "off" THEN Fine
        ELSE call[w][m] # "call" /\ (IF call[w][m] = "orphan" THEN Fine ELSE Fault)
     /\ UNCHANGED <<proc, intake, call, fate, cleanupStops>>

\* Rows that have used all their attempts are discarded before the first claim.
Spent == {m \in Msgs : Queued(m) /\ job[m].attempts >= MaxDeleteAttempts}
Start(w) ==
  /\ proc[w] = "off" /\ proc' = [proc EXCEPT ![w] = "run"]
  /\ job' = [m \in Msgs |-> IF m \in Spent THEN NoJob ELSE job[m]]
  /\ fate' = [m \in Msgs |-> IF m \in Spent /\ fate[m] = "asked" THEN "abandoned" ELSE fate[m]]
  /\ UNCHANGED <<intake, call, cleanupFaults, cleanupStops>>

\* A shutdown: asked for, or because no more orphans can be tracked (fatal).
BeginStop(w) ==
  /\ proc[w] = "run" /\ proc' = [proc EXCEPT ![w] = "stopping"]
  /\ \/ Stops
     \/ Cardinality(Orphans(w)) >= MaxDeleteOrphans /\ UNCHANGED cleanupStops
  /\ UNCHANGED <<job, intake, call, fate, cleanupFaults>>

\* A worker that does not stop in time is cancelled: its call is handed over to
\* the orphans, its write is given up.
CancelWorker(w, m) ==
  /\ proc[w] = "stopping" /\ call[w][m] \in {"call", "drop", "retry"} /\ Fault
  /\ Step(w, m, IF call[w][m] = "call" THEN "orphan" ELSE "none")
  /\ UNCHANGED <<job, proc, intake, fate, cleanupStops>>

Ended(w) ==
  /\ proc' = [proc EXCEPT ![w] = "off"] /\ call' = [call EXCEPT ![w] = Idle]
  /\ intake' = [intake EXCEPT ![w] = Empty]

\* Mutant: a failed batch is not written again at the end.
StopUnflushed(w) ==
  /\ proc[w] \in {"failed", "stopping"} /\ ~Working(w) /\ Ended(w)
  /\ Fine /\ UNCHANGED <<job, fate, cleanupStops>>

\* The end of stop(): the batch left behind is written once more, the orphans
\* are cancelled and left to their leases.
Stop(w) ==
  /\ proc[w] \in {"failed", "stopping"} /\ ~Working(w) /\ Ended(w)
  /\ \/ Fine /\ job' = Flushed(w) /\ UNCHANGED fate
     \/ /\ intake[w] # Empty /\ Fault /\ UNCHANGED job
        /\ fate' = [m \in Msgs |-> IF intake[w][m] # "no" /\ fate[m] = "asked" /\ ~Queued(m)
                                   THEN "lost" ELSE fate[m]]
  /\ UNCHANGED cleanupStops

\* A crash loses the memory; a call under way may or may not have worked.
Crash(w) ==
  /\ proc[w] # "off" /\ Stops /\ Ended(w)
  /\ fate' \in {f \in [Msgs -> {"unsent", "asked", "deleted", "refused", "abandoned", "lost"}] :
       \A m \in Msgs :
         f[m] \in IF fate[m] # "asked" THEN {fate[m]}
                  ELSE IF intake[w][m] # "no" /\ ~Queued(m) THEN {"lost"}
                  ELSE IF call[w][m] \in {"call", "orphan"} THEN {"asked", "deleted"}
                  ELSE {"asked"}}
  /\ UNCHANGED <<job, cleanupFaults>>

Next ==
  \/ \E w \in Cleaners :
       \/ Persist(w) \/ Start(w) \/ BeginStop(w) \/ Stop(w) \/ Crash(w)
       \/ \E m \in Msgs :
            \/ \E due \in {"now", "later"} : EnqueueDurable(w, m, due) \/ Enqueue(w, m, due)
            \/ Claim(w, m) \/ Delete(w, m) \/ OrphanEnds(w, m) \/ Remove(w, m) \/ Retry(w, m)
            \/ CancelWorker(w, m)
  \/ \E m \in Msgs : DueComes(m) \/ LeaseLapses(m)

\* The worker loops, calls are bounded, orphans end, clocks run, and a process
\* that ended is started again.
Fairness ==
  /\ \A w \in Cleaners : /\ WF_cleanupVars(Start(w))
                         /\ WF_cleanupVars(Stop(w)) /\ WF_cleanupVars(Persist(w))
  /\ \A w \in Cleaners, m \in Msgs :
       /\ SF_cleanupVars(Claim(w, m))
       /\ WF_cleanupVars(Delete(w, m) \/ OrphanEnds(w, m) \/ Remove(w, m) \/ Retry(w, m))
  /\ \A m \in Msgs : WF_cleanupVars(DueComes(m) \/ LeaseLapses(m))

Spec == Init /\ [][Next]_cleanupVars /\ Fairness

-----------------------------------------------------------------------------
(* Properties *)

\* Whatever fails or restarts, an accepted request is settled: the message is
\* deleted, refused for good or given up after max_attempts (a request that is
\* only in memory may be lost with the process).
RequestsSettle == \A m \in Msgs : fate[m] = "asked" ~> fate[m] # "asked"

\* An acknowledged request that is not settled is never out of sight: it has a
\* row, or it waits in the memory of a live process (the failed batch is kept
\* and written again by stop()).
RequestsKept ==
  \A m \in Msgs : fate[m] = "asked" => Queued(m) \/ \E w \in Cleaners : intake[w][m] # "no"

\* A process never deletes a message in two calls at once: the claim passes over
\* the jobs of its orphans although their leases have run out.
OneCallEach ==
  [][\A w \in Cleaners, m \in Msgs : Claim(w, m) => call[w][m] = "none"]_cleanupVars

\* The bounded call of a worker for a request that is still open is covered by its lease
\* to the end: what a stale orphan or an overlapping process writes does not free the job
\* meanwhile.  (A start discards exhausted rows under a lease too, and gives their requests
\* up with them: telegram_cleanup.py:827.)
CallCovered ==
  \A w \in Cleaners, m \in Msgs :
    call[w][m] = "call" /\ fate[m] = "asked" => Queued(m) /\ Held(w, m) /\ ~job[m].lapsed

=============================================================================
