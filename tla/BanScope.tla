------------------------------ MODULE BanScope ------------------------------
(***************************************************************************)
(* The super administrator's choice of a scope for /ban or /unban:         *)
(* on_ban_scope_choice with its tokens in memory (handlers/admin.py).  The *)
(* bot's message has two buttons, this group and all groups; a press       *)
(* claims the message's token for its scope and queues a privileged task.  *)
(* A token that is gone is rebuilt from the message while it is recent.    *)
(*                                                                         *)
(* One message.  The task itself is one step here: JoinVerification and    *)
(* GlobalBans model the two operations, PrivilegedTasks the lanes.         *)
(***************************************************************************)
EXTENDS Naturals, FiniteSets

CONSTANTS
  Presses,        \* presses of the message's buttons
  Command,        \* a /ban or /spam of somebody else for the same member
  Nobody,
  MaxScopeFaults  \* bound: failed tasks, full queues, restarts

BanScopeAssumption ==
  /\ IsFiniteSet(Presses) /\ {Command, Nobody} \cap Presses = {} /\ Command # Nobody
  /\ MaxScopeFaults \in Nat

Scopes == {"group", "global"}

VARIABLES
  token,    \* _BAN_SCOPE_REQUESTS of the message: its number, 0 when there is none
  made,     \* tokens made so far
  claimed,  \* token -> request.claimed_scope
  recent,   \* the message is younger than _BAN_SCOPE_TTL_SECONDS
  press,    \* press -> where it is: [step, scope, token]
  task,     \* key -> the press or command whose task is queued or runs under it
  renewed,  \* history: the key's task was queued when its claim was no longer there
  borrowed, \* history: a claim found its key taken by a task of no claim of its token
  faults

vars == <<token, made, claimed, recent, press, task, renewed, borrowed, faults>>

Tokens == 1..(Cardinality(Presses) + 1)
Fresh  == [step |-> "idle", scope |-> "group", token |-> 0]

TypeOK ==
  /\ token \in Tokens \cup {0} /\ made \in Tokens /\ recent \in BOOLEAN
  /\ claimed \in [Tokens -> Scopes \cup {"none"}]
  /\ press \in [Presses -> [step : {"idle", "claimed", "over"}, scope : Scopes, token : Tokens \cup {0}]]
  /\ task \in [Scopes -> Presses \cup {Command, Nobody}] /\ renewed \in [Scopes -> BOOLEAN]
  /\ borrowed \in BOOLEAN /\ faults \in 0..MaxScopeFaults

\* _ask_super_admin_scope
Init ==
  /\ token = 1 /\ made = 1 /\ claimed = [t \in Tokens |-> "none"] /\ recent = TRUE
  /\ press = [p \in Presses |-> Fresh]
  /\ task = [s \in Scopes |-> Nobody] /\ renewed = [s \in Scopes |-> FALSE]
  /\ borrowed = FALSE /\ faults = 0

Fails == faults < MaxScopeFaults /\ faults' = faults + 1
Free(s) == task[s] = Nobody

\* The token is there and claimed for this press's scope.
Backs(t, s) == t = token /\ t # 0 /\ claimed[t] = s

\* _scope_request_from_durable_callback: a token that is gone is made anew
Current == IF token = 0 /\ recent THEN made + 1 ELSE token

\* A bug for the mutation runs: the scope another press has claimed is not looked at.
ClaimOver(p, s) ==
  /\ press[p].step = "idle" /\ Current # 0
  /\ LET t == Current IN
       /\ token' = t /\ made' = IF t > made THEN t ELSE made
       /\ claimed' = [claimed EXCEPT ![t] = s]
       /\ press' = [press EXCEPT ![p] = [step |-> "claimed", scope |-> s, token |-> t]]
  /\ UNCHANGED <<recent, task, renewed, borrowed, faults>>

\* Under _BAN_SCOPE_LOCK: the other scope's claim turns the press away, the same
\* scope's claim is shared.
Claim(p, s) ==
  /\ press[p].step = "idle" /\ Current # 0
  /\ LET t == Current IN
       /\ token' = t /\ made' = IF t > made THEN t ELSE made
       /\ IF claimed[t] \in {"none", s}
            THEN /\ claimed' = [claimed EXCEPT ![t] = s]
                 /\ press' = [press EXCEPT ![p] = [step |-> "claimed", scope |-> s, token |-> t]]
            ELSE press' = [press EXCEPT ![p].step = "over"] /\ UNCHANGED claimed
  /\ UNCHANGED <<recent, task, renewed, borrowed, faults>>

\* The message is too old, or its token too: the buttons go.
TurnedAway(p) ==
  /\ press[p].step = "idle" /\ Current = 0
  /\ press' = [press EXCEPT ![p].step = "over"]
  /\ UNCHANGED <<token, made, claimed, recent, task, renewed, borrowed, faults>>

\* claimed_scope = "" when the entry is still this request, claimed for this scope
Unclaim(t, s) == claimed' = IF Backs(t, s) THEN [claimed EXCEPT ![t] = "none"] ELSE claimed

\* The task does not belong to the token: a command's, or an earlier token's.
Foreign(w, t) == w = Command \/ (w \in Presses /\ press[w].token # t)

\* submit_privileged_task: one task per key; a second one is told of the first
Submit(p) ==
  /\ press[p].step = "claimed" /\ press' = [press EXCEPT ![p].step = "over"]
  /\ LET s == press[p].scope IN
       \/ /\ Free(s) /\ task' = [task EXCEPT ![s] = p]
          /\ renewed' = [renewed EXCEPT ![s] = ~Backs(press[p].token, s)]
          /\ UNCHANGED <<claimed, borrowed, faults>>
       \/ /\ ~Free(s) /\ borrowed' = (borrowed \/ Foreign(task[s], press[p].token))
          /\ UNCHANGED <<claimed, task, renewed, faults>>
       \/ /\ Free(s) /\ Fails /\ Unclaim(press[p].token, s)
          /\ UNCHANGED <<task, renewed, borrowed>>
  /\ UNCHANGED <<token, made, recent>>

\* cmd_ban, cmd_spam: a task under the same key that knows nothing of the token
Asked(s) ==
  /\ Free(s) /\ task' = [task EXCEPT ![s] = Command]
  /\ renewed' = [renewed EXCEPT ![s] = FALSE]
  /\ UNCHANGED <<token, made, claimed, recent, press, borrowed, faults>>

\* run_claimed_job: done, the request goes; failed or cancelled, it can be chosen again
Done(s) ==
  /\ ~Free(s) /\ task' = [task EXCEPT ![s] = Nobody]
  /\ renewed' = [renewed EXCEPT ![s] = FALSE]
  /\ token' = IF task[s] # Command /\ press[task[s]].token = token THEN 0 ELSE token
  /\ UNCHANGED <<made, claimed, recent, press, borrowed, faults>>
\* A bug for the mutation runs: a failed task leaves its claim.
FailedClaimed(s) ==
  /\ ~Free(s) /\ Fails /\ task' = [task EXCEPT ![s] = Nobody]
  /\ renewed' = [renewed EXCEPT ![s] = FALSE]
  /\ UNCHANGED <<token, made, claimed, recent, press, borrowed>>

Failed(s) ==
  /\ ~Free(s) /\ Fails /\ task' = [task EXCEPT ![s] = Nobody]
  /\ renewed' = [renewed EXCEPT ![s] = FALSE]
  /\ IF task[s] = Command THEN UNCHANGED claimed ELSE Unclaim(press[task[s]].token, s)
  /\ UNCHANGED <<token, made, recent, press, borrowed>>

\* Old tokens are dropped when another message asks; a token past its time is refused.
Ages ==
  /\ recent /\ recent' = FALSE /\ token' = 0
  /\ UNCHANGED <<made, claimed, press, task, renewed, borrowed, faults>>
\* _BAN_SCOPE_MAX_REQUESTS: newer messages push the token out
PushedOut ==
  /\ token # 0 /\ Fails /\ token' = 0
  /\ UNCHANGED <<made, claimed, recent, press, task, renewed, borrowed>>

Restart ==
  /\ Fails /\ token' = 0 /\ task' = [s \in Scopes |-> Nobody]
  /\ renewed' = [s \in Scopes |-> FALSE]
  /\ press' = [p \in Presses |-> IF press[p].step = "claimed" THEN [press[p] EXCEPT !.step = "over"] ELSE press[p]]
  /\ UNCHANGED <<made, claimed, recent, borrowed>>

Next ==
  \/ \E p \in Presses : (\E s \in Scopes : Claim(p, s)) \/ TurnedAway(p) \/ Submit(p)
  \/ \E s \in Scopes : Asked(s) \/ Done(s) \/ Failed(s)
  \/ Ages \/ PushedOut \/ Restart

Spec == Init /\ [][Next]_vars

-----------------------------------------------------------------------------
Chosen(s) == task[s] \in Presses

\* The two scopes of one message are not worked on together, but for a press that
\* claimed its scope before an earlier task of that scope ended and was queued after
\* it, and for a token that was pushed out of memory under its task
\* (admin.py:2801-2813, "the task of another scope was accepted").
ScopesApart ==
  (\A s \in Scopes : Chosen(s)) =>
    \/ \E s \in Scopes : renewed[s]
    \/ \E s \in Scopes : press[task[s]].token # token

\* A claim that turns the other scope away has work behind it: a task, or a press
\* about to queue one.  A task that failed gives it back.
ClaimBacked ==
  token # 0 /\ claimed[token] # "none" /\ ~borrowed =>
    \/ ~Free(claimed[token])
    \/ \E p \in Presses : press[p].step = "claimed" /\ press[p].token = token
                          /\ press[p].scope = claimed[token]
=============================================================================
