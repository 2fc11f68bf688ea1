----------------------------- MODULE VerifyPage -----------------------------
(***************************************************************************)
(* The verification page and the administrator's buttons under a           *)
(* challenge: VerifyWebServer.handle_challenge_submit with its cache of    *)
(* running and finished verifications, its bounded calls to the captcha    *)
(* service and the shielded terminal task (services/verify_web.py), and    *)
(* _handle_verification_admin_callback (handlers/membership.py).           *)
(*                                                                         *)
(* One member of one group.  A challenge issued to him is a number; a      *)
(* deadline that is extended (/start, a broken captcha service) makes it   *)
(* the same row with another fingerprint, <<id, armed>>.  The sweeper is   *)
(* here one step that ends what is overdue: module JoinVerification has    *)
(* its detail, the reconciliations and the crashes.                        *)
(***************************************************************************)
EXTENDS Naturals, FiniteSets

CONSTANTS
  Requests,       \* submissions of the page
  Buttons,        \* presses of Pass or Reject
  NoOne,
  Slots,          \* _VERIFICATION_MAX_CONCURRENT_UPSTREAM
  MaxIssues,      \* bound: challenges issued to the member
  MaxArms,        \* bound: extensions of a deadline
  MaxPageFaults   \* bound: failed calls, cancelled requests, lapsed leases and cache entries

VerifyPageAssumption ==
  /\ NoOne \notin Requests \cup Buttons /\ Requests \cap Buttons = {} /\ IsFiniteSet(Requests)
  /\ Slots \in Nat \ {0} /\ MaxIssues \in Nat \ {0} /\ MaxArms \in Nat /\ MaxPageFaults \in Nat

VARIABLES
  issued,     \* challenges issued so far; their numbers are never used again
  row,        \* the join_verifications row: [id, armed, status, lease]
  member,     \* what Telegram does with the member
  barred,     \* a ban of the member is recorded
  current,    \* _active_verifications: challenge -> the request that opened the entry
  future,     \* what became of the entry a request opened
  completed,  \* _completed_verifications: challenge -> fingerprint
  slots,      \* _verification_upstream_slots in use
  req,        \* each request: where it is and the record it read
  task,       \* its terminal task, _finish_claimed_verification
  answer,     \* what the page was told
  button,     \* where each press is, and the challenge it owns
  released, rejected,  \* history: challenges passed and given a ban
  spent       \* faults, of MaxPageFaults

vars == <<issued, row, member, barred, current, future, completed, slots, req, task, answer,
          button, released, rejected, spent>>
cache == <<current, future, completed>>
desk  == <<req, answer>>
ledger == <<issued, row, member, barred, released, rejected>>

Issues == 1..MaxIssues
NoRow  == [id |-> 0, armed |-> 0, status |-> "none", lease |-> NoOne]
NoMark == <<0, 0>>
Mark(r) == <<req[r].id, req[r].armed>>

TypeOK ==
  /\ issued \in Issues
  /\ row \in [id : 0..MaxIssues, armed : 0..MaxArms, lease : Requests \cup Buttons \cup {NoOne},
              status : {"none", "pending", "releasing", "enforcing"}]
  /\ member \in {"muted", "free", "banned", "out"} /\ barred \in BOOLEAN
  /\ current \in [Issues -> Requests \cup {NoOne}]
  /\ future \in [Requests -> {"none", "open", "yes", "no"}]
  /\ completed \in [Issues -> (Issues \X (0..MaxArms)) \cup {NoMark}]
  /\ slots \in 0..Slots
  /\ req \in [Requests -> [at : {"new", "verify", "claim", "wait", "task", "aborted", "done"},
                           id : 0..MaxIssues, armed : 0..MaxArms, on : Requests \cup {NoOne}]]
  /\ task \in [Requests -> {"none", "restore", "complete", "mark", "close", "defer",
                            "again", "again.complete", "again.mark", "again.defer", "ended"}]
  /\ answer \in [Requests -> {"none", "ok", "retry", "terminal", "error"}]
  /\ button \in [Buttons -> [id : 0..MaxIssues, at : {"new", "restore", "release", "mark", "ban",
                             "finish", "policy", "unmute", "reban", "done"}]]
  /\ released \subseteq Issues /\ rejected \subseteq Issues /\ spent \in 0..MaxPageFaults

Init ==
  /\ issued = 1 /\ row = [NoRow EXCEPT !.id = 1, !.status = "pending"] /\ member = "muted" /\ barred = FALSE
  /\ current = [i \in Issues |-> NoOne] /\ future = [r \in Requests |-> "none"]
  /\ completed = [i \in Issues |-> NoMark] /\ slots = 0
  /\ req = [r \in Requests |-> [at |-> "new", id |-> 0, armed |-> 0, on |-> NoOne]]
  /\ task = [r \in Requests |-> "none"] /\ answer = [r \in Requests |-> "none"]
  /\ button = [b \in Buttons |-> [id |-> 0, at |-> "new"]]
  /\ released = {} /\ rejected = {} /\ spent = 0

Spend == spent < MaxPageFaults /\ spent' = spent + 1

-----------------------------------------------------------------------------
(* The cache of running verifications *)

Resolve(x, v) == [future EXCEPT ![x] = IF @ = "open" THEN v ELSE @]

\* The entry under a fingerprint, or none: _fail_verification_active and
\* _mark_verification_completed touch no other.
EntryOf(i, fp) ==
  IF current[i] # NoOne /\ Mark(current[i]) = fp THEN current[i] ELSE NoOne

Settle(r, v) ==
  LET x == EntryOf(req[r].id, Mark(r)) IN
  IF x = NoOne THEN UNCHANGED <<current, future>>
  ELSE current' = [current EXCEPT ![req[r].id] = NoOne] /\ future' = Resolve(x, v)

\* release_active of the request that opened the entry.
Release(r) ==
  IF current[req[r].id] = r
  THEN current' = [current EXCEPT ![req[r].id] = NoOne] /\ future' = Resolve(r, "no")
  ELSE UNCHANGED <<current, future>>

Reply(r, a) ==
  /\ req' = [req EXCEPT ![r].at = "done"] /\ answer' = [answer EXCEPT ![r] = a]
Goto(r, s) == req' = [req EXCEPT ![r].at = s] /\ UNCHANGED answer

-----------------------------------------------------------------------------
(* handle_challenge_submit *)

\* The page was opened for challenge p.  The pending row of that number is
\* taken, or, for want of it, the only one the member has.
Reads(r) == req[r].at = "new" /\ row.status = "pending" /\ ~barred

Running == EntryOf(row.id, <<row.id, row.armed>>)

\* A submission of a challenge that is being verified joins it.
Join(r) ==
  /\ Reads(r) /\ Running # NoOne
  /\ req' = [req EXCEPT ![r] = [at |-> "wait", id |-> row.id, armed |-> row.armed, on |-> Running]]
  /\ UNCHANGED <<answer, task, slots, button, spent>> /\ UNCHANGED cache /\ UNCHANGED ledger

Superseded == IF current[row.id] = NoOne THEN future ELSE Resolve(current[row.id], "no")

\* _try_acquire_verification_upstream
TakeSlot == slots < Slots /\ slots' = slots + 1

\* The first one of this fingerprint opens an entry, instead of an older one,
\* and takes a slot of the captcha service or gives up at once.
Open(r) ==
  /\ Reads(r) /\ Running = NoOne
  /\ \/ /\ TakeSlot
        /\ current' = [current EXCEPT ![row.id] = r]
        /\ future' = [Superseded EXCEPT ![r] = "open"]
        /\ req' = [req EXCEPT ![r] = [at |-> "verify", id |-> row.id, armed |-> row.armed, on |-> r]]
        /\ UNCHANGED answer
     \/ /\ slots = Slots /\ UNCHANGED slots
        /\ current' = [current EXCEPT ![row.id] = NoOne]
        /\ future' = [Superseded EXCEPT ![r] = "no"]
        /\ req' = [req EXCEPT ![r] = [at |-> "done", id |-> row.id, armed |-> row.armed, on |-> r]]
        /\ answer' = [answer EXCEPT ![r] = "retry"]
  /\ UNCHANGED <<completed, task, button, spent>> /\ UNCHANGED ledger

\* No pending row: it was passed a moment ago, is being passed, or is over.
Late(r) ==
  /\ req[r].at = "new"
  /\ \E p \in 1..issued :
       LET read == [req[r] EXCEPT !.id = p, !.at = "done"] IN
       \/ /\ row.status # "pending"
          /\ completed[p] # NoMark /\ member = "free"
          /\ req' = [req EXCEPT ![r] = read] /\ answer' = [answer EXCEPT ![r] = "ok"]
       \/ /\ row.status # "pending"
          /\ completed[p] = NoMark \/ member # "free"
          /\ IF current[p] = NoOne
             THEN req' = [req EXCEPT ![r] = read] /\ answer' = [answer EXCEPT ![r] = "terminal"]
             ELSE /\ req' = [req EXCEPT ![r] = [read EXCEPT !.at = "wait", !.on = current[p]]]
                  /\ UNCHANGED answer
       \/ /\ row.status = "pending" /\ barred
          /\ req' = [req EXCEPT ![r] = read] /\ answer' = [answer EXCEPT ![r] = "terminal"]
  /\ UNCHANGED <<slots, task, button, spent>> /\ UNCHANGED cache /\ UNCHANGED ledger

\* The captcha service answers, for a combined challenge both of them; the
\* settings may have changed meanwhile.
Verify(r) ==
  /\ req[r].at = "verify" /\ slots' = slots - 1
  /\ \/ Goto(r, "claim") /\ UNCHANGED <<current, future, spent>>
     \/ Reply(r, "retry") /\ Release(r) /\ Spend
  /\ UNCHANGED <<completed, task, button>> /\ UNCHANGED ledger

\* Mutant: what was read before the captcha service answered still counts.
ClaimAsRead(r) ==
  /\ req[r].at = "claim"
  /\ row.id = req[r].id /\ row.armed >= req[r].armed /\ ~barred
  /\ row' = [row EXCEPT !.status = "releasing", !.lease = r]
  /\ task' = [task EXCEPT ![r] = "restore"] /\ Goto(r, "task")
  /\ UNCHANGED <<issued, member, barred, released, rejected, completed, current, future, slots, button, spent>>

\* The row is read again.  Gone, taken or reissued: whoever finished it may
\* have told the entry.  A ban recorded meanwhile wins; else the row is leased.
Claim(r) ==
  /\ req[r].at = "claim"
  /\ \/ /\ row.id = req[r].id /\ row.status = "pending" /\ row.armed >= req[r].armed /\ ~barred
        /\ row' = [row EXCEPT !.status = "releasing", !.lease = r]
        /\ task' = [task EXCEPT ![r] = "restore"] /\ Goto(r, "task")
        /\ UNCHANGED <<current, future>>
     \/ /\ row.id = req[r].id /\ row.status = "pending" /\ row.armed >= req[r].armed /\ barred
        /\ row' \in {row, NoRow}
        /\ Settle(r, "no") /\ Reply(r, "terminal") /\ UNCHANGED task
     \/ /\ row.id # req[r].id \/ row.status # "pending"
        /\ Release(r) /\ Reply(r, IF future'[r] = "yes" THEN "ok" ELSE "terminal")
        /\ UNCHANGED <<row, task>>
  /\ UNCHANGED <<issued, member, barred, released, rejected, completed, slots, button, spent>>

\* A joined request hears what became of the entry, or waits long enough; told
\* that it passed it makes sure that the row is not pending.
Wait(r) ==
  /\ req[r].at = "wait"
  /\ \/ /\ future[req[r].on] = "yes" /\ UNCHANGED spent
        /\ Reply(r, IF row.status = "pending" /\ row.id = req[r].id THEN "retry" ELSE "ok")
     \/ future[req[r].on] = "no" /\ UNCHANGED spent /\ Reply(r, "retry")
     \/ future[req[r].on] = "open" /\ Spend /\ Reply(r, "retry")
  /\ UNCHANGED <<task, slots, button>> /\ UNCHANGED cache /\ UNCHANGED ledger

\* Mutant: a cancelled request leaves its entry behind.
CancelQuietly(r) ==
  /\ req[r].at \in {"verify", "claim", "wait"} /\ Spend
  /\ slots' = IF req[r].at = "verify" THEN slots - 1 ELSE slots
  /\ Reply(r, "error")
  /\ UNCHANGED <<completed, current, future, task, button>> /\ UNCHANGED ledger

\* The request is cancelled where it waits: the entry goes with it.  The
\* terminal task is shielded, twice.
Cancel(r) ==
  /\ Spend
  /\ \/ /\ req[r].at \in {"verify", "claim", "wait"}
        /\ slots' = IF req[r].at = "verify" THEN slots - 1 ELSE slots
        /\ Release(r) /\ Reply(r, "error")
     \/ req[r].at = "task" /\ Goto(r, "aborted") /\ UNCHANGED <<slots, current, future>>
     \/ req[r].at = "aborted" /\ Release(r) /\ Reply(r, "error") /\ UNCHANGED slots
  /\ UNCHANGED <<completed, task, button>> /\ UNCHANGED ledger

\* _prune_verification_caches: an entry older than two minutes is given up.
Prune ==
  /\ Spend
  /\ \E i \in Issues : /\ current[i] # NoOne
                       /\ current' = [current EXCEPT ![i] = NoOne]
                       /\ future' = Resolve(current[i], "no")
  /\ UNCHANGED <<completed, slots, task, button>> /\ UNCHANGED desk /\ UNCHANGED ledger

-----------------------------------------------------------------------------
(* The terminal task, and what is done when it raises *)

Owns(r, s) == row.id = req[r].id /\ row.status = s /\ row.lease = r

\* restore_member_permissions: no effect on a banned user.
Unmute(r, good, bad) ==
  \/ /\ member # "banned" /\ UNCHANGED spent
     /\ member' = (IF member = "muted" THEN "free" ELSE member)
     /\ released' = released \cup {req[r].id} /\ task' = [task EXCEPT ![r] = good]
  \/ /\ member # "banned" /\ Spend
     /\ member' \in {member, IF member = "muted" THEN "free" ELSE member}
     /\ UNCHANGED released /\ task' = [task EXCEPT ![r] = bad]
  \/ /\ member = "banned" /\ UNCHANGED <<member, released, spent>>
     /\ task' = [task EXCEPT ![r] = bad]

Restore(r) ==
  /\ \/ task[r] = "restore" /\ Unmute(r, "complete", "defer")
     \/ task[r] = "again" /\ Unmute(r, "again.complete", "again.defer")
  /\ UNCHANGED <<issued, row, barred, rejected, slots, button>> /\ UNCHANGED cache /\ UNCHANGED desk

\* An exception in the terminal task; a request that is still there recovers.
Raise(r) ==
  task' = [task EXCEPT ![r] = IF req[r].at = "done" THEN "ended" ELSE "again"]

\* The row is deleted if it is still leased to this request, else it is left.
Complete(r) ==
  /\ \/ /\ task[r] \in {"complete", "again.complete"} /\ UNCHANGED spent
        /\ row' = IF Owns(r, "releasing") THEN NoRow ELSE row
        /\ task' = [task EXCEPT ![r] = IF @ = "complete" THEN "mark" ELSE "again.mark"]
     \/ task[r] = "complete" /\ Raise(r) /\ Spend /\ UNCHANGED row
  /\ UNCHANGED <<issued, member, barred, released, rejected, slots, button>>
  /\ UNCHANGED cache /\ UNCHANGED desk

\* _mark_verification_completed
Done(r) ==
  /\ task[r] = "mark"
  /\ completed' = [completed EXCEPT ![req[r].id] = Mark(r)]
  /\ Settle(r, "yes")
  /\ task' = [task EXCEPT ![r] = "close"]
  /\ UNCHANGED <<slots, button, spent>> /\ UNCHANGED desk /\ UNCHANGED ledger

\* The request gets what its terminal task came to, unless it is gone.
Answered(r, a) ==
  IF req[r].at = "done" THEN UNCHANGED desk
  ELSE Reply(r, IF req[r].at = "aborted" THEN "error" ELSE a)

\* The private message is closed, the pass announced, the member welcomed.
Close(r) ==
  /\ task[r] = "close"
  /\ \/ task' = [task EXCEPT ![r] = "ended"] /\ Answered(r, "ok") /\ UNCHANGED spent
     \/ Raise(r) /\ Spend /\ UNCHANGED desk
  /\ UNCHANGED <<slots, button>> /\ UNCHANGED cache /\ UNCHANGED ledger

\* Not restored: the lease is renewed, the sweeper will retry.
Postpone(r) ==
  /\ task[r] = "defer"
  /\ task' = [task EXCEPT ![r] = "ended"]
  /\ Settle(r, "no") /\ Answered(r, "retry")
  /\ UNCHANGED <<completed, slots, button, spent>> /\ UNCHANGED ledger

\* The end of _recover_claimed_verification: the request raises all the same.
Recovered(r) ==
  /\ task[r] \in {"again.mark", "again.defer"}
  /\ task' = [task EXCEPT ![r] = "ended"]
  /\ completed' = IF task[r] = "again.mark"
                  THEN [completed EXCEPT ![req[r].id] = Mark(r)] ELSE completed
  /\ Settle(r, IF task[r] = "again.mark" THEN "yes" ELSE "no") /\ Answered(r, "error")
  /\ UNCHANGED <<slots, button, spent>> /\ UNCHANGED ledger

-----------------------------------------------------------------------------
(* Pass and Reject; one operation per prompt runs at a time *)

Step(b, s) == button' = [button EXCEPT ![b].at = s]
Presses(b, s) == button[b].at = s
Held(b, s) == row.id = button[b].id /\ row.status = s /\ row.lease = b

\* _verification_callback_record
Pressable(b) == Presses(b, "new") /\ row.status = "pending"

\* Pass is refused to a banned member.
Press(b) ==
  /\ Pressable(b)
  /\ \A c \in Buttons : button[c].at \in {"new", "done"}
  /\ \/ /\ ~barred
        /\ row' = [row EXCEPT !.status = "releasing", !.lease = b]
        /\ button' = [button EXCEPT ![b] = [id |-> row.id, at |-> "restore"]]
     \/ /\ row' = [row EXCEPT !.status = "enforcing", !.lease = b]
        /\ button' = [button EXCEPT ![b] = [id |-> row.id, at |-> "mark"]]
  /\ UNCHANGED <<issued, member, barred, released, rejected, slots, task, spent>>
  /\ UNCHANGED cache /\ UNCHANGED desk

\* A call to Telegram: done, or failed with or without effect; a lease that is
\* still held is renewed and the sweeper retries.
Tell(b, to, good, bad) ==
  \/ member' = to /\ Step(b, good) /\ UNCHANGED spent
  \/ member' \in {member, to} /\ Step(b, bad) /\ Spend

PassCall(b) ==
  /\ Presses(b, "restore")
  /\ IF member = "banned" THEN Step(b, "done") /\ UNCHANGED <<member, spent>>
     ELSE Tell(b, IF member = "muted" THEN "free" ELSE member, "release", "done")
  /\ released' = IF button'[b].at = "release" THEN released \cup {button[b].id} ELSE released
  /\ UNCHANGED <<issued, row, barred, rejected, slots, task>> /\ UNCHANGED cache /\ UNCHANGED desk

\* The row is deleted, or, when the lease is lost, the member is brought in
\* line with what the records ask for now.
PassEnd(b) ==
  /\ Presses(b, "release")
  /\ IF Held(b, "releasing") THEN row' = NoRow /\ Step(b, "done")
                             ELSE UNCHANGED row /\ Step(b, "policy")
  /\ UNCHANGED <<issued, member, barred, released, rejected, slots, task, spent>>
  /\ UNCHANGED cache /\ UNCHANGED desk

RejectMark(b) ==
  /\ Presses(b, "mark") /\ Step(b, "ban")
  /\ barred' = TRUE /\ rejected' = rejected \cup {button[b].id}
  /\ UNCHANGED <<issued, row, member, released, slots, task, spent>> /\ UNCHANGED cache /\ UNCHANGED desk

RejectBan(b) ==
  /\ \/ Presses(b, "ban") /\ Tell(b, "banned", "finish", "done")
     \/ Presses(b, "reban") /\ Tell(b, "banned", "done", "done")
  /\ UNCHANGED <<issued, row, barred, released, rejected, slots, task>>
  /\ UNCHANGED cache /\ UNCHANGED desk

RejectEnd(b) ==
  /\ Presses(b, "finish")
  /\ IF Held(b, "enforcing") THEN row' = NoRow /\ Step(b, "done")
                             ELSE UNCHANGED row /\ Step(b, "policy")
  /\ UNCHANGED <<issued, member, barred, released, rejected, slots, task, spent>>
  /\ UNCHANGED cache /\ UNCHANGED desk

\* _reconcile_stale_restriction
Policy(b) ==
  /\ Presses(b, "policy")
  /\ Step(b, IF barred THEN "reban"
             ELSE IF row.status \in {"pending", "enforcing"} THEN "done" ELSE "unmute")
  /\ UNCHANGED <<slots, task, spent>> /\ UNCHANGED ledger /\ UNCHANGED cache /\ UNCHANGED desk

PolicyCall(b) ==
  /\ Presses(b, "unmute")
  /\ IF member = "muted" THEN Tell(b, "free", "done", "done")
     ELSE Step(b, "done") /\ UNCHANGED <<member, spent>>
  /\ UNCHANGED <<issued, row, barred, released, rejected, slots, task>>
  /\ UNCHANGED cache /\ UNCHANGED desk

-----------------------------------------------------------------------------
(* Around them *)

\* The deadline is extended: /start, or a captcha service that is misconfigured.
Arm ==
  /\ row.status = "pending" /\ row.armed < MaxArms
  /\ row' = [row EXCEPT !.armed = @ + 1]
  /\ UNCHANGED <<issued, member, barred, released, rejected, slots, task, button, spent>>
  /\ UNCHANGED cache /\ UNCHANGED desk

\* A lease of 90 seconds lapses under the Telegram calls of its owner.
Lapse ==
  /\ row.lease # NoOne /\ Spend /\ row' = [row EXCEPT !.lease = NoOne]
  /\ UNCHANGED <<issued, member, barred, released, rejected, slots, task, button>>
  /\ UNCHANGED cache /\ UNCHANGED desk

\* The sweeper: an overdue challenge ends in a kick, a lapsed lease is carried
\* out; a recorded ban is kept.
Sweep ==
  /\ row.status = "pending" \/ (row.status \in {"releasing", "enforcing"} /\ row.lease = NoOne)
  /\ row' = NoRow
  /\ member' = IF barred THEN "banned" ELSE IF row.status # "releasing" THEN "out"
               ELSE IF member = "muted" THEN "free" ELSE member
  /\ UNCHANGED <<issued, barred, released, rejected, slots, task, button, spent>>
  /\ UNCHANGED cache /\ UNCHANGED desk

\* The member comes back, or is asked again: a new row.
Issue ==
  /\ row = NoRow /\ member # "banned" /\ issued < MaxIssues
  /\ issued' = issued + 1
  /\ row' = [NoRow EXCEPT !.id = issued', !.status = "pending"]
  /\ member' = "muted"
  /\ UNCHANGED <<barred, released, rejected, slots, task, button, spent>>
  /\ UNCHANGED cache /\ UNCHANGED desk

Next ==
  \/ \E r \in Requests :
       \/ Join(r) \/ Open(r) \/ Late(r) \/ Verify(r) \/ Claim(r) \/ Wait(r) \/ Cancel(r)
       \/ Restore(r) \/ Complete(r) \/ Done(r) \/ Close(r) \/ Postpone(r) \/ Recovered(r)
  \/ \E b \in Buttons :
       \/ Press(b) \/ PassCall(b) \/ PassEnd(b) \/ RejectMark(b) \/ RejectBan(b) \/ RejectEnd(b)
       \/ Policy(b) \/ PolicyCall(b)
  \/ Prune \/ Arm \/ Lapse \/ Sweep \/ Issue

Spec == Init /\ [][Next]_vars

-----------------------------------------------------------------------------
(* Properties *)

\* The page says "passed" only of a challenge for which the member was given
\* his permissions back, whichever of the paths the answer took: its own pass, another
\* submission's, the cache of finished ones; and never of one that an administrator
\* rejected (services/verify_web.py:4022-4051, 4114-4135, 4277-4279).
OkHonest ==
  \A r \in Requests : answer[r] = "ok" => req[r].id \in released \ rejected

\* Each open entry of the cache has a request or a terminal task that will
\* resolve it, and no other open one exists, whatever was cancelled, replaced or pruned: a
\* leaked entry would turn every further submission of the challenge away
\* (services/verify_web.py:3260-3335, 4097-4112).
EntriesLive ==
  /\ \A i \in Issues : current[i] # NoOne =>
       /\ req[current[i]].id = i /\ future[current[i]] = "open"
       /\ req[current[i]].at \in {"verify", "claim", "task", "aborted"}
  /\ \A r \in Requests : future[r] = "open" => current[req[r].id] = r

\* The slots in use are those of requests that wait for the captcha service.
SlotsReturned == slots = Cardinality({r \in Requests : req[r].at = "verify"})

CacheSound == EntriesLive /\ SlotsReturned
=============================================================================
