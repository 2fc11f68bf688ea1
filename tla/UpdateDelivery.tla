--------------------------- MODULE UpdateDelivery ---------------------------
(***************************************************************************)
(* bot/services/update_delivery.py: how updates come from Telegram into    *)
(* the durable inbox, over a webhook or by long polling, with the switch   *)
(* between them, the watchdog of the webhook and the restarts of the       *)
(* process.  What happens to an update in the inbox is UpdateInbox.        *)
(***************************************************************************)
EXTENDS Naturals

CONSTANTS
  MaxIds,              \* bound on the updates that Telegram creates
  CheckLimit,          \* _WEBHOOK_FAILURE_THRESHOLD
  UnhookLimit,         \* _DELETE_WEBHOOK_MAX_ATTEMPTS
  MaxDeliveryFaults    \* bound on failed calls and writes, outages and restarts

DeliveryAssumption ==
  /\ {CheckLimit, UnhookLimit} \subseteq Nat \ {0} /\ {MaxIds, MaxDeliveryFaults} \subseteq Nat

VARIABLES
  sent,        \* updates created so far are 1..sent
  backlog,     \* those that Telegram still keeps
  hook,        \* the webhook is registered
  hookError,   \* last_error_date: "none", "seen" by the watchdog, or "new"
  reachable,   \* the public endpoint leads to the bot
  inboxed,     \* updates in the durable inbox
  stage,       \* what run_update_delivery is doing
  misses,      \* consecutive_failures of the watchdog, or attempts to unhook
  offset,      \* offset of the next getUpdates, 0 for None
  batch,       \* updates of the last getUpdates, persisted or not
  landed,      \* those of them that are persisted
  deliveryFaults

deliveryVars == <<sent, backlog, hook, hookError, reachable, inboxed, stage, misses, offset, batch,
                  landed, deliveryFaults>>
remote == <<sent, backlog, hook, hookError, reachable>>
local  == <<misses, offset, batch, landed>>

Ids == 1..MaxIds

TypeOK ==
  /\ sent \in 0..MaxIds /\ backlog \subseteq Ids /\ hook \in BOOLEAN /\ reachable \in BOOLEAN
  /\ hookError \in {"none", "seen", "new"} /\ inboxed \subseteq Ids
  /\ stage \in {"down", "probe", "clear", "register", "confirm", "hooked", "unroute", "unhook",
                "poll", "persist"}
  /\ misses \in 0..(CheckLimit + UnhookLimit) /\ offset \in 0..(MaxIds + 1)
  /\ batch \subseteq Ids /\ landed \subseteq batch /\ deliveryFaults \in 0..MaxDeliveryFaults

Init ==
  /\ sent = 0 /\ backlog = {} /\ hook \in BOOLEAN /\ hookError = "none" /\ reachable = TRUE
  /\ inboxed = {} /\ stage \in {"down", "hooked"} /\ (stage = "hooked" => hook) /\ misses = 0 /\ offset = 0 /\ batch = {} /\ landed = {}
  /\ deliveryFaults = 0

Fine  == UNCHANGED deliveryFaults
Fault == deliveryFaults < MaxDeliveryFaults /\ deliveryFaults' = deliveryFaults + 1

Goto(s) == stage' = s /\ misses' = 0 /\ UNCHANGED <<offset, batch, landed>>
\* The HTTP route of the webhook is enabled around registration and service.
Routed == stage \in {"register", "confirm", "hooked"}

-----------------------------------------------------------------------------
(* Telegram *)

Create ==
  /\ sent < MaxIds /\ sent' = sent + 1 /\ backlog' = backlog \cup {sent + 1}
  /\ UNCHANGED <<hook, hookError, reachable, inboxed, stage, local, deliveryFaults>>

\* A webhook delivery is answered 200 after the commit, or 503.
Deliver(i) ==
  /\ hook /\ i \in backlog /\ Routed /\ reachable
  /\ \/ /\ Fine /\ inboxed' = inboxed \cup {i} /\ backlog' = backlog \ {i}
        /\ hookError' \in {hookError, "none"}
     \/ /\ Fault /\ inboxed' \in {inboxed, inboxed \cup {i}} /\ UNCHANGED backlog
        /\ hookError' = "new"
  /\ UNCHANGED <<sent, hook, reachable, stage, local>>

\* No route: Telegram keeps the update and tries again later.
DeliveryFails(i) ==
  /\ hook /\ i \in backlog /\ ~(Routed /\ reachable) /\ hookError' = "new"
  /\ UNCHANGED <<sent, backlog, hook, reachable, inboxed, stage, local, deliveryFaults>>

Outage ==
  /\ reachable /\ Fault /\ reachable' = FALSE
  /\ UNCHANGED <<sent, backlog, hook, hookError, inboxed, stage, local>>
Repaired ==
  /\ ~reachable /\ reachable' = TRUE
  /\ UNCHANGED <<sent, backlog, hook, hookError, inboxed, stage, local, deliveryFaults>>

\* Somebody else removes or replaces the registration.
Unregistered ==
  /\ hook /\ stage = "hooked" /\ Fault /\ hook' = FALSE
  /\ UNCHANGED <<sent, backlog, hookError, reachable, inboxed, stage, local>>

-----------------------------------------------------------------------------
(* Start, registration, fallback *)

\* With or without a valid webhook configuration.
Launch(s) ==
  /\ stage = "down" /\ s \in {"probe", "unhook"} /\ stage' = s /\ misses' = 0 /\ offset' = 0
  /\ batch' = {} /\ landed' = {} /\ UNCHANGED <<remote, inboxed, deliveryFaults>>

Probe ==
  /\ stage = "probe"
  /\ \/ reachable /\ Fine /\ Goto("clear")
     \/ ~reachable /\ Fine /\ Goto("unhook")
     \/ reachable /\ Fault /\ Goto("unhook")
  /\ UNCHANGED <<remote, inboxed>>

\* A control call of Telegram that fails may have had its effect.
Clear ==
  /\ stage = "clear"
  /\ \/ Fine /\ hook' = FALSE /\ Goto("register")
     \/ Fault /\ hook' \in {hook, FALSE} /\ Goto("unhook")
  /\ UNCHANGED <<sent, backlog, hookError, reachable, inboxed>>

\* setWebhook; a call that ignores its cancellation stops the process instead.
Register ==
  /\ stage = "register"
  /\ \/ Fine /\ hook' = TRUE /\ Goto("confirm")
     \/ Fault /\ hook' \in {hook, TRUE} /\ (Goto("unroute") \/ Goto("down"))
  /\ hookError' = "none" /\ UNCHANGED <<sent, backlog, reachable, inboxed>>

\* getWebhookInfo; an earlier error becomes the initial one of the watchdog.
Confirm ==
  /\ stage = "confirm"
  /\ \/ /\ Fine /\ Goto("hooked")
        /\ hookError' = IF hookError = "new" THEN "seen" ELSE hookError
     \/ Fault /\ Goto("unroute") /\ UNCHANGED hookError
  /\ UNCHANGED <<sent, backlog, hook, reachable, inboxed>>

\* disable_webhook_route waits for the requests in flight.
Unroute == stage = "unroute" /\ Goto("unhook") /\ UNCHANGED <<remote, inboxed, deliveryFaults>>

\* Mutant: polling starts without the deletion.
UnhookAssumed == stage = "unhook" /\ Goto("poll") /\ UNCHANGED <<remote, inboxed, deliveryFaults>>
\* deleteWebhook, a bounded number of times; then the process ends.
Unhook ==
  /\ stage = "unhook"
  /\ \/ Fine /\ hook' = FALSE /\ Goto("poll")
     \/ /\ Fault /\ hook' \in {hook, FALSE}
        /\ IF misses + 1 < UnhookLimit
           THEN misses' = misses + 1 /\ UNCHANGED <<stage, offset, batch, landed>>
           ELSE Goto("down")
  /\ UNCHANGED <<sent, backlog, hookError, reachable, inboxed>>

-----------------------------------------------------------------------------
(* The watchdog *)

Missed ==
  IF misses + 1 >= CheckLimit THEN Goto("unroute")
  ELSE misses' = misses + 1 /\ UNCHANGED <<stage, offset, batch, landed>>

\* Every 15 s: the local processor, the registration, the last error.
Check ==
  /\ stage = "hooked"
  /\ \/ Fault /\ Goto("unroute") /\ UNCHANGED hookError
     \/ Fault /\ Missed /\ UNCHANGED hookError
     \/ Fine /\ ~hook /\ Missed /\ UNCHANGED hookError
     \/ Fine /\ hook /\ hookError = "new" /\ Missed /\ hookError' = "seen"
     \/ /\ Fine /\ hook /\ hookError # "new" /\ misses' = 0
        /\ UNCHANGED <<stage, offset, batch, landed, hookError>>
  /\ UNCHANGED <<sent, backlog, hook, reachable, inboxed>>

-----------------------------------------------------------------------------
(* Durable polling *)

\* getUpdates confirms everything below the offset and returns a prefix of the
\* rest; it fails while a webhook is registered.  A request that ignores its
\* cancellation stops the process.
GetUpdates ==
  LET rest == {i \in backlog : i >= offset}
  IN /\ stage = "poll" /\ ~hook
     /\ \/ /\ Fine /\ rest # {} /\ backlog' = rest /\ landed' = {} /\ stage' = "persist"
           /\ \E n \in rest : batch' = {i \in rest : i <= n}
           /\ UNCHANGED <<misses, offset>>
        \/ Fault /\ backlog' \in {backlog, rest} /\ (Goto("poll") \/ Goto("down"))
     /\ UNCHANGED <<sent, hook, hookError, reachable, inboxed>>

\* Mutant: the offset follows whatever is persisted.
Reached(done) == done
\* The offset follows the persisted prefix of the batch, in Telegram's order.
Prefix(done) == {i \in batch : \A j \in batch : j <= i => j \in done}
Acknowledged(done) ==
  IF Prefix(done) = {} THEN offset ELSE 1 + CHOOSE i \in Prefix(done) : \A j \in Prefix(done) : j <= i

\* Urgent updates of the batch are persisted first, hence any order; a failure
\* gives the rest of the batch up.
Persist(i) ==
  /\ stage = "persist" /\ i \in batch \ landed
  /\ \/ /\ Fine /\ inboxed' = inboxed \cup {i} /\ landed' = landed \cup {i}
        /\ offset' = Acknowledged(landed \cup {i})
        /\ stage' = IF landed \cup {i} = batch THEN "poll" ELSE "persist"
     \/ /\ Fault /\ inboxed' \in {inboxed, inboxed \cup {i}} /\ stage' = "poll"
        /\ UNCHANGED <<landed, offset>>
  /\ UNCHANGED <<remote, misses, batch>>

\* A signal or a crash, at any point; the registration stays with Telegram.
Stop == stage # "down" /\ Fault /\ Goto("down") /\ UNCHANGED <<remote, inboxed>>

Start == \E s \in {"probe", "unhook"} : Launch(s)
Serve == Probe \/ Clear \/ Register \/ Confirm \/ Unroute \/ Unhook
Next ==
  \/ \E i \in Ids : Deliver(i) \/ DeliveryFails(i) \/ Persist(i)
  \/ Create \/ Outage \/ Repaired \/ Unregistered
  \/ Start \/ Serve \/ Check \/ GetUpdates \/ Stop

\* Bounded control calls, a periodic watchdog, a supervisor that restarts the
\* process, and Telegram's retries.
Service ==
  /\ WF_deliveryVars(Start) /\ WF_deliveryVars(Serve) /\ WF_deliveryVars(Check /\ Fine)
  /\ WF_deliveryVars(GetUpdates) /\ WF_deliveryVars(\E i \in Ids : Persist(i))
  /\ \A i \in Ids : WF_deliveryVars(Deliver(i)) /\ WF_deliveryVars(DeliveryFails(i))
\* Outages end.
Fairness == Service /\ WF_deliveryVars(Repaired)

Spec == Init /\ [][Next]_deliveryVars /\ Fairness
\* An outage may last.
BrokenSpec == Init /\ [][Next]_deliveryVars /\ Service

-----------------------------------------------------------------------------
(* Properties *)

\* Telegram is never told to forget an update that is not in the inbox, in
\* whatever order a batch is persisted and wherever the process stops.
NothingForgotten == \A i \in 1..sent : i \in backlog \cup inboxed

\* Every update reaches the inbox, through failed registrations, a webhook that
\* somebody removed, switches of the transport and restarts.
EveryUpdateArrives == \A i \in Ids : i <= sent ~> i \in inboxed

\* A delivery problem at run time makes the bot fall back to polling
\* (README.md:1013-1020).
BrokenWebhookLeft ==
  (stage = "hooked" /\ ~reachable /\ backlog # {}) ~>
    (reachable \/ stage # "hooked" \/ backlog = {})

=============================================================================
