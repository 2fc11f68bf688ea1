----------------------------- MODULE ModelCalls -----------------------------
(***************************************************************************)
(* Requests to the language models (services/llm.py): the candidates of a  *)
(* role one after the other, several attempts each, a deadline for the     *)
(* whole, a circuit per model, and the permits of the process.  An attempt *)
(* is a task of its own that keeps its permit until the call has really    *)
(* ended, however long ago the request has stopped waiting for it; a       *)
(* watchdog restarts the process when such calls hold everything           *)
(* (services/resource_health.py).                                          *)
(*                                                                         *)
(* Times are events: an attempt's timeout, the request's deadline and a    *)
(* circuit's cooldown may come at any moment.  CapacityGate has the        *)
(* priorities of the queue before the permits.                             *)
(***************************************************************************)
EXTENDS Naturals, Sequences, FiniteSets

CONSTANTS
  Requests, Embeds,  \* callers; those of _embed_from_candidates
  Candidates,        \* models of the role: the first and its fallbacks
  Attempts,          \* retry_attempts
  Threshold,         \* _LLM_CIRCUIT_FAILURE_THRESHOLD
  Capacity,          \* _LLM_REQUEST_CAPACITY
  Threads,           \* _LLM_TOKENIZER_THREAD_CAPACITY
  FatalPasses,       \* _WATCHDOG_CONSECUTIVE_FATAL_PASSES
  MaxModelRequests   \* bound: requests altogether

ModelAssumption ==
  /\ IsFiniteSet(Requests) /\ Embeds \subseteq Requests
  /\ {Candidates, Attempts, Threshold, Capacity, Threads, FatalPasses} \subseteq Nat \ {0}
  /\ MaxModelRequests \in Nat

Models   == 1..Candidates
Circuits == {"chat", "embed"} \X Models

VARIABLES
  req,      \* request -> [st, model, attempt, dropped]
  task,     \* request -> its attempt's task: "none", "queued", "live"
  permits,  \* _LLM_REQUEST_SEMAPHORE
  orphans,  \* _LLM_ORPHAN_TASKS whose call goes on
  old,      \* the oldest is past _LLM_ORPHAN_MAX_AGE_SECONDS
  threads,  \* tokenizer threads still at work
  stale,    \* the oldest is past _LLM_TOKENIZER_STALE_SECONDS
  fails,    \* circuit -> its failures
  circuit,  \* circuit -> "closed", "open", "cooled" (open_until is over)
  seen,     \* history: circuit -> how its last Threshold requests ended
  passes,   \* fatal passes of the watchdog in a row
  asked     \* history: requests so far

vars == <<req, task, permits, orphans, old, threads, stale, fails, circuit, seen, passes, asked>>
calls    == <<task, permits, orphans, old>>
circuits == <<fails, circuit, seen>>
tokens   == <<threads, stale>>

Active == {"count", "admit", "send", "wait"}
Rest   == [st |-> "idle", model |-> 1, attempt |-> 1, dropped |-> FALSE]
Failures == 0..Threshold
Ends   == {"good", "bad"}

TypeOK ==
  /\ req \in [Requests -> [st : Active \cup {"idle"}, model : Models, attempt : 1..Attempts, dropped : BOOLEAN]]
  /\ task \in [Requests -> {"none", "queued", "live"}]
  /\ permits \in 0..Capacity /\ orphans \in Nat /\ old \in BOOLEAN /\ threads \in 0..Threads /\ stale \in BOOLEAN
  /\ fails \in [Circuits -> Failures] /\ circuit \in [Circuits -> {"closed", "open", "cooled"}]
  /\ \A c \in Circuits : Len(seen[c]) <= Threshold /\ \A i \in 1..Len(seen[c]) : seen[c][i] \in Ends
  /\ passes \in 0..FatalPasses /\ asked \in 0..MaxModelRequests

Init ==
  /\ req = [q \in Requests |-> Rest] /\ task = [q \in Requests |-> "none"]
  /\ permits = Capacity /\ orphans = 0 /\ old = FALSE /\ threads = 0 /\ stale = FALSE
  /\ fails = [c \in Circuits |-> 0] /\ circuit = [c \in Circuits |-> "closed"]
  /\ seen = [c \in Circuits |-> <<>>] /\ passes = 0 /\ asked = 0

St(q)    == req[q].st
Model(q) == req[q].model
Go(q, st) == req' = [req EXCEPT ![q].st = st]
Over(q)  == req' = [req EXCEPT ![q] = Rest]
Embedding(q) == q \in Embeds
\* _circuit_key
Key(q) == <<IF Embedding(q) THEN "embed" ELSE "chat", Model(q)>>

\* The next candidate, or None to the caller.
Fallback(q) ==
  IF Model(q) < Candidates
    THEN req' = [req EXCEPT ![q] = [Rest EXCEPT !.st = IF Embedding(q) THEN "admit" ELSE "count",
                                                !.model = Model(q) + 1]]
    ELSE Over(q)

-----------------------------------------------------------------------------
(* The circuit of a model *)

Note(c, end) == seen' = [seen EXCEPT ![c] = LET s == Append(@, end) IN
                                              IF Len(s) > Threshold THEN Tail(s) ELSE s]
\* A bug for the mutation runs: a success closes the circuit but keeps its count.
SuccessKeeps(c) == circuit' = [circuit EXCEPT ![c] = "closed"] /\ UNCHANGED fails /\ Note(c, "good")
RecordSuccess(c) ==
  fails' = [fails EXCEPT ![c] = 0] /\ circuit' = [circuit EXCEPT ![c] = "closed"] /\ Note(c, "good")

RecordFailure(c) ==
  LET n == IF fails[c] = Threshold THEN Threshold ELSE fails[c] + 1 IN
    /\ fails' = [fails EXCEPT ![c] = n]
    /\ circuit' = [circuit EXCEPT ![c] = IF n >= Threshold THEN "open" ELSE "closed"]
    /\ Note(c, "bad")

\* _circuit_is_open: a circuit that has cooled starts again from nothing
Looked(c) ==
  IF circuit[c] = "cooled"
    THEN fails' = [fails EXCEPT ![c] = 0] /\ circuit' = [circuit EXCEPT ![c] = "closed"] /\ UNCHANGED seen
    ELSE UNCHANGED circuits
Cools(c) ==
  /\ circuit[c] = "open" /\ circuit' = [circuit EXCEPT ![c] = "cooled"]
  /\ UNCHANGED <<req, calls, tokens, fails, seen, passes, asked>>

-----------------------------------------------------------------------------
(* A request: _chat_with_fallbacks, complete_with_tools, _embed_from_candidates *)

Ask(q) ==
  /\ St(q) = "idle" /\ asked < MaxModelRequests /\ asked' = asked + 1
  /\ Go(q, IF Embedding(q) THEN "admit" ELSE "count")
  /\ UNCHANGED <<calls, tokens, circuits, passes>>

\* The tokenizer's thread answers in time, is late and keeps its slot, or has none to run
\* in; only an exact count can rule the model out.
CountPrompt(q) ==
  /\ St(q) = "count"
  /\ \/ threads < Threads /\ UNCHANGED threads /\ (Go(q, "admit") \/ Fallback(q))
     \/ threads < Threads /\ threads' = threads + 1 /\ Go(q, "admit")
     \/ threads = Threads /\ UNCHANGED threads /\ Go(q, "admit")
  /\ UNCHANGED <<calls, stale, circuits, passes, asked>>
ThreadEnds ==
  /\ threads > 0 /\ threads' = threads - 1 /\ stale' = FALSE
  /\ UNCHANGED <<req, calls, circuits, passes, asked>>
ThreadsStuck ==
  /\ threads = Threads /\ ~stale /\ stale' = TRUE
  /\ UNCHANGED <<req, calls, threads, circuits, passes, asked>>

\* A model without a key is passed over, and one whose circuit is open.
Admit(q) ==
  /\ St(q) = "admit"
  /\ \/ ~Embedding(q) /\ Fallback(q) /\ UNCHANGED circuits
     \/ /\ Looked(Key(q))
        /\ IF circuit[Key(q)] = "open" THEN Fallback(q) ELSE Go(q, "send")
  /\ UNCHANGED <<calls, tokens, passes, asked>>

Send(q) ==
  /\ St(q) = "send" /\ Go(q, "wait") /\ task' = [task EXCEPT ![q] = "queued"]
  /\ UNCHANGED <<permits, orphans, old, tokens, circuits, passes, asked>>

\* The permit belongs to the attempt's task.
Permit(q) ==
  /\ task[q] = "queued" /\ permits > 0 /\ permits' = permits - 1
  /\ task' = [task EXCEPT ![q] = "live"]
  /\ UNCHANGED <<req, orphans, old, tokens, circuits, passes, asked>>

\* What a call comes to.  A stream that breaks after its completed response is an answer,
\* one without text or tool calls is empty.
Outcomes == {"answer", "failure", "unsupported"}

\* The same model again, or its failure and the next one.
Retry(q) ==
  IF req[q].attempt < Attempts
    THEN req' = [req EXCEPT ![q].st = "send", ![q].attempt = @ + 1] /\ UNCHANGED circuits
    ELSE Fallback(q) /\ RecordFailure(Key(q))

\* A parameter the provider refuses is left out, once, and the attempt not counted.
Dropped(q) == req[q].dropped \/ Embedding(q)

Answered(q) ==
  /\ task[q] = "live" /\ permits' = permits + 1 /\ task' = [task EXCEPT ![q] = "none"]
  /\ \E o \in Outcomes :
       CASE o = "answer" -> Over(q) /\ RecordSuccess(Key(q))
         [] o = "unsupported" /\ ~Dropped(q) ->
              req' = [req EXCEPT ![q].st = "send", ![q].dropped = TRUE] /\ UNCHANGED circuits
         [] OTHER -> Retry(q)
  /\ UNCHANGED <<orphans, old, tokens, passes, asked>>

\* A bug for the mutation runs: the permit is given back when the request stops waiting.
CutFreely(q) ==
  /\ task' = [task EXCEPT ![q] = "none"] /\ UNCHANGED old
  /\ \/ UNCHANGED orphans
     \/ task[q] = "live" /\ orphans' = orphans + 1
  /\ permits' = IF task[q] = "live" THEN permits + 1 ELSE permits
\* _await_with_timeout: the task is cancelled and not waited for; a call that does not
\* mind goes on with its permit.
Cut(q) ==
  /\ task' = [task EXCEPT ![q] = "none"] /\ UNCHANGED old
  /\ \/ /\ permits' = (IF task[q] = "live" THEN permits + 1 ELSE permits) /\ UNCHANGED orphans
     \/ task[q] = "live" /\ orphans' = orphans + 1 /\ UNCHANGED permits

Timeout(q) ==
  /\ St(q) = "wait" /\ Cut(q) /\ Retry(q)
  /\ UNCHANGED <<tokens, passes, asked>>

\* A bug for the mutation runs: a call is waited for until it has taken its cancellation.
DeadlineWaits(q) ==
  /\ St(q) \in Active /\ task[q] # "live" /\ Over(q) /\ Cut(q)
  /\ UNCHANGED <<tokens, circuits, passes, asked>>
\* The deadline of the whole, or the caller's cancellation.  An embedding's last attempt
\* that runs into it counts as a failure.
Deadline(q) ==
  /\ St(q) \in Active /\ Over(q) /\ Cut(q)
  /\ \/ UNCHANGED circuits
     \/ Embedding(q) /\ St(q) = "wait" /\ req[q].attempt = Attempts /\ RecordFailure(Key(q))
  /\ UNCHANGED <<tokens, passes, asked>>

OrphanEnds ==
  /\ orphans > 0 /\ orphans' = orphans - 1 /\ permits' = permits + 1
  /\ old' \in {FALSE, old /\ orphans > 1}
  /\ UNCHANGED <<req, task, tokens, circuits, passes, asked>>
OrphanAges ==
  /\ orphans > 0 /\ ~old /\ old' = TRUE
  /\ UNCHANGED <<req, task, permits, orphans, tokens, circuits, passes, asked>>

-----------------------------------------------------------------------------
(* run_resource_watchdog *)

\* A bug for the mutation runs: only the age of an orphan counts.
FatalByAge == old \/ stale
\* llm_resource_health_snapshot
Fatal == orphans >= Capacity \/ old \/ stale

\* Enough fatal passes in a row end the process, and the supervisor starts another.
Watch ==
  /\ Fatal \/ passes > 0
  /\ IF ~Fatal THEN passes' = 0 /\ UNCHANGED <<req, calls, tokens, circuits>>
     ELSE IF passes + 1 < FatalPasses THEN passes' = passes + 1 /\ UNCHANGED <<req, calls, tokens, circuits>>
     ELSE /\ req' = [q \in Requests |-> Rest] /\ task' = [q \in Requests |-> "none"]
          /\ permits' = Capacity /\ orphans' = 0 /\ old' = FALSE /\ threads' = 0 /\ stale' = FALSE
          /\ fails' = [c \in Circuits |-> 0] /\ circuit' = [c \in Circuits |-> "closed"]
          /\ seen' = [c \in Circuits |-> <<>>] /\ passes' = 0
  /\ UNCHANGED asked

Next ==
  \/ \E q \in Requests :
       Ask(q) \/ CountPrompt(q) \/ Admit(q) \/ Send(q) \/ Permit(q) \/ Answered(q) \/ Timeout(q) \/ Deadline(q)
  \/ (\E c \in Circuits : Cools(c)) \/ ThreadEnds \/ ThreadsStuck \/ OrphanEnds \/ OrphanAges \/ Watch

Fairness == (\A q \in Requests : WF_vars(Deadline(q))) /\ WF_vars(Watch)
Spec == Init /\ [][Next]_vars /\ Fairness

-----------------------------------------------------------------------------
\* The calls really in progress, those nobody waits for any more among them, never exceed
\* the capacity (_perform_attempt, _await_with_timeout).
RealCallsBounded == orphans + Cardinality({q \in Requests : task[q] = "live"}) <= Capacity

\* A circuit stays open only on failures: none of the model's last Threshold requests
\* that ran to their end was answered (_record_circuit_success, _record_circuit_failure).
CircuitEarned ==
  \A c \in Circuits : circuit[c] # "closed" => seen[c] = [i \in 1..Threshold |-> "bad"]

\* A request comes back by its deadline although its call never does.
RequestsReturn == \A q \in Requests : St(q) \in Active ~> St(q) = "idle"

\* When calls that never end hold every permit, the watchdog gives them back.
PermitsReturn == orphans = Capacity ~> permits > 0
=============================================================================
