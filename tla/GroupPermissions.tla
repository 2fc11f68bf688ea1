-------------------------- MODULE GroupPermissions --------------------------
(***************************************************************************)
(* bot/services/group_permissions.py for one group: its stored permission  *)
(* configuration, the pass that reconciles Telegram with it, and the saves *)
(* of the Mini App (web/settings_api.py put_group_settings) that apply a   *)
(* configuration at once.  Delivery state lives in memory: the fingerprint *)
(* applied last, the time of that success, the last error.                 *)
(***************************************************************************)
EXTENDS Naturals

CONSTANTS
  Saves,            \* requests of the Mini App
  MaxTurns,         \* bound on the openings and closings of a window
  MaxPermEdits,     \* bound on changes made directly in Telegram
  MaxPermFaults,    \* bound on failed calls, restarts and departures of the bot
  Pass, Free        \* the pass, and nobody, as holders of the group's lock

PermissionAssumption ==
  {MaxTurns, MaxPermEdits, MaxPermFaults} \subseteq Nat /\ Pass # Free /\ {Pass, Free} \cap Saves = {}

VARIABLES
  stored,     \* Group.settings: "none", "open", "night" (closed inside a window), "legacy"
  window,     \* the window is active
  present,    \* AuthorizedGroup.bot_present
  chat,       \* Telegram's default permissions
  edited,     \* history: they were changed in Telegram after the last success
  cut,        \* history: a pass was cut off in its call after the last success
  cache,      \* applied fingerprint, still fresh, last error, repaired legacy base
  permLock,   \* the group's asyncio lock
  work,       \* [Saves \cup {Pass} -> step, configuration in hand, permissions resolved]
  turns, permEdits, permFaults

permVars == <<stored, window, present, chat, edited, cut, cache, permLock, work, turns,
              permEdits, permFaults>>

Workers == Saves \cup {Pass}
Perms   == {"open", "closed"}
Configs == {"open", "night", "legacy"}
Forgotten == [fp |-> "none", fresh |-> FALSE, error |-> FALSE, base |-> "none"]
Resting == [st |-> "off", cfg |-> "none", perm |-> "none"]

TypeOK ==
  /\ stored \in Configs \cup {"none"} /\ window \in BOOLEAN /\ present \in BOOLEAN
  /\ chat \in Perms /\ {edited, cut} \subseteq BOOLEAN
  /\ cache \in [fp : Perms \cup {"none"}, fresh : BOOLEAN, error : BOOLEAN,
                base : Perms \cup {"none"}]
  /\ permLock \in Workers \cup {Free}
  /\ work \in [Workers -> [st : {"off", "wait", "apply", "call", "done"},
                           cfg : Configs \cup {"none"}, perm : Perms \cup {"none"}]]
  /\ turns \in 0..MaxTurns /\ permEdits \in 0..MaxPermEdits /\ permFaults \in 0..MaxPermFaults

Init ==
  /\ stored \in {"none", "legacy"} /\ window = FALSE /\ present = TRUE /\ chat = "open"
  /\ edited = FALSE /\ cut = FALSE /\ cache = Forgotten /\ permLock = Free
  /\ work = [w \in Workers |-> Resting] /\ turns = 0 /\ permEdits = 0 /\ permFaults = 0

Fine  == UNCHANGED permFaults
Fault == permFaults < MaxPermFaults /\ permFaults' = permFaults + 1
At(w, s) == work[w].st = s

\* resolve_group_permissions: the base, overridden while a window is active; a
\* document from an older API has the base it was repaired with.
Resolved(c, base) ==
  IF c = "night" THEN (IF window THEN "closed" ELSE "open")
  ELSE IF c = "legacy" THEN base ELSE "open"

-----------------------------------------------------------------------------
(* Taking the lock and choosing the configuration *)

\* The pass reads the stored configuration under the lock.
PassRead ==
  /\ At(Pass, "off") /\ permLock = Free
  /\ IF present /\ stored # "none"
     THEN /\ permLock' = Pass /\ UNCHANGED cache
          /\ work' = [work EXCEPT ![Pass] = [st |-> "apply", cfg |-> stored, perm |-> "none"]]
     ELSE cache' = Forgotten /\ UNCHANGED <<permLock, work>>
  /\ UNCHANGED <<stored, window, present, chat, edited, cut, turns, permEdits, permFaults>>

\* A save commits with a comparison of the whole document; then it applies its
\* own payload, or forgets the group when the configuration was removed.
Save(s, c) ==
  /\ At(s, "off") /\ present /\ c # stored /\ c # "legacy" /\ stored' = c
  /\ IF c = "none"
     THEN cache' = Forgotten /\ work' = [work EXCEPT ![s].st = "done"]
     ELSE work' = [work EXCEPT ![s] = [st |-> "wait", cfg |-> c, perm |-> "none"]]
          /\ UNCHANGED cache
  /\ UNCHANGED <<window, present, chat, edited, cut, permLock, turns, permEdits, permFaults>>

TakeLock(s) ==
  /\ At(s, "wait") /\ permLock = Free /\ permLock' = s /\ work' = [work EXCEPT ![s].st = "apply"]
  /\ UNCHANGED <<stored, window, present, chat, edited, cut, cache, turns, permEdits, permFaults>>

-----------------------------------------------------------------------------
(* _apply_config_locked *)

Leave(w) == permLock' = Free
            /\ work' = [work EXCEPT ![w] = [Resting EXCEPT !.st = IF w = Pass THEN "off" ELSE "done"]]

\* The deadline of the pass cancels the call it is in.  No handler of Exception sees
\* that: the lock is given back and nothing is recorded.
CutOff(w) == w = Pass /\ Fault /\ UNCHANGED cache

\* A legacy document is repaired from the live permissions, once.
Repair(w) ==
  /\ At(w, "apply") /\ work[w].cfg = "legacy" /\ cache.base = "none"
  /\ \/ Fine /\ cache' = [cache EXCEPT !.base = chat] /\ UNCHANGED <<permLock, work>>
     \/ Fault /\ cache' = [cache EXCEPT !.error = TRUE] /\ Leave(w)
     \/ CutOff(w) /\ Leave(w)
  /\ UNCHANGED <<stored, window, present, chat, edited, cut, turns, permEdits>>

\* Mutant: what was applied once is never looked at again.
KnownForever(p) == cache.fp = p
Known(p) == cache.fp = p /\ cache.fresh

\* A pass skips permissions it knows to be applied; a save never does.
Resolve(w) ==
  LET p == Resolved(work[w].cfg, cache.base)
  IN /\ At(w, "apply") /\ (work[w].cfg = "legacy" => cache.base # "none")
     /\ IF w = Pass /\ Known(p) THEN Leave(w)
        ELSE work' = [work EXCEPT ![w] = [@ EXCEPT !.st = "call", !.perm = p]] /\ UNCHANGED permLock
     /\ UNCHANGED <<stored, window, present, chat, edited, cut, cache, turns, permEdits,
                    permFaults>>

\* Mutant: a failed call is recorded like one that worked.
ApplyAssumed(w) ==
  /\ At(w, "call") /\ Leave(w)
  /\ \/ /\ (Fine /\ chat' = work[w].perm) \/ (Fault /\ UNCHANGED chat)
        /\ edited' = FALSE /\ cut' = FALSE
        /\ cache' = [cache EXCEPT !.fp = work[w].perm, !.fresh = TRUE, !.error = FALSE]
     \/ CutOff(w) /\ chat' \in {chat, work[w].perm} /\ cut' = TRUE /\ UNCHANGED edited
  /\ UNCHANGED <<stored, window, present, turns, permEdits>>

\* setChatPermissions: a call that fails may have worked; the fingerprint of the
\* last success stays.  One that is cut off may have worked too, and leaves no error.
Apply(w) ==
  /\ At(w, "call") /\ Leave(w)
  /\ \/ /\ Fine /\ chat' = work[w].perm /\ edited' = FALSE /\ cut' = FALSE
        /\ cache' = [cache EXCEPT !.fp = work[w].perm, !.fresh = TRUE, !.error = FALSE]
     \/ /\ Fault /\ chat' \in {chat, work[w].perm} /\ UNCHANGED <<edited, cut>>
        /\ cache' = [cache EXCEPT !.error = TRUE]
     \/ CutOff(w) /\ chat' \in {chat, work[w].perm} /\ cut' = TRUE /\ UNCHANGED edited
  /\ UNCHANGED <<stored, window, present, turns, permEdits>>

-----------------------------------------------------------------------------
(* Time, Telegram and restarts *)

\* A window opens or closes.
Turn ==
  /\ turns < MaxTurns /\ turns' = turns + 1 /\ window' = ~window
  /\ UNCHANGED <<stored, present, chat, edited, cut, cache, permLock, work, permEdits, permFaults>>

\* reconcile_interval_seconds after the last success.
GoStale ==
  /\ cache.fresh /\ cache' = [cache EXCEPT !.fresh = FALSE]
  /\ UNCHANGED <<stored, window, present, chat, edited, cut, permLock, work, turns, permEdits,
                 permFaults>>

EditInTelegram(p) ==
  /\ permEdits < MaxPermEdits /\ permEdits' = permEdits + 1 /\ chat' = p /\ edited' = TRUE
  /\ UNCHANGED <<stored, window, present, cut, cache, permLock, work, turns, permFaults>>

\* The bot is removed from the group, or comes back.
Authorize ==
  /\ present' = ~present /\ (IF present THEN Fault ELSE Fine)
  /\ UNCHANGED <<stored, window, chat, edited, cut, cache, permLock, work, turns, permEdits>>

Restart ==
  /\ Fault /\ cache' = Forgotten /\ permLock' = Free
  /\ work' = [w \in Workers |-> IF At(w, "off") THEN Resting
                               ELSE [Resting EXCEPT !.st = IF w = Pass THEN "off" ELSE "done"]]
  /\ UNCHANGED <<stored, window, present, chat, edited, cut, turns, permEdits>>

Next ==
  \/ \E w \in Workers : Repair(w) \/ Resolve(w) \/ Apply(w)
  \/ \E s \in Saves : TakeLock(s) \/ \E c \in Configs \cup {"none"} : Save(s, c)
  \/ \E p \in Perms : EditInTelegram(p)
  \/ PassRead \/ Turn \/ GoStale \/ Authorize \/ Restart

\* The pass runs every 15 s, calls are bounded, and the interval ends.
Fairness ==
  /\ SF_permVars(PassRead) /\ WF_permVars(GoStale)
  /\ \A w \in Workers : WF_permVars(Repair(w) \/ Resolve(w) \/ Apply(w))
  /\ \A s \in Saves : WF_permVars(TakeLock(s))

Spec == Init /\ [][Next]_permVars /\ Fairness

-----------------------------------------------------------------------------
(* Properties *)

\* In the end Telegram has what is configured, whatever failed, landed unseen,
\* was changed in Telegram or applied late by an older save: the periodic
\* reconciliation catches what the fingerprint hides.
PermissionsConverge ==
  <>[](present /\ stored \in {"open", "night"} => chat = Resolved(stored, "none"))

\* The status shown to administrators: "applied" without an error means that Telegram
\* has those permissions, unless somebody has changed them there, or a pass was cut off
\* in its call, since the last success.
StatusAccounted == cache.fp # "none" /\ ~cache.error /\ ~edited /\ ~cut => chat = cache.fp

\* "Conservative: after a newer apply failed ... the requested state is not confirmed"
\* (group_permissions.py:842).  A pass whose deadline cuts its call off records no
\* error: the status goes on saying "applied" of what the call may have replaced.
StatusConservative == cache.fp # "none" /\ ~cache.error /\ ~edited => chat = cache.fp

\* "Failures are retried on the next pass" (group_permissions.py:11).  The next
\* pass skips them when the window has meanwhile brought back the permissions of
\* the last success, although the failed call may have replaced those.
FailuresRetried ==
  [][Resolve(Pass) /\ cache.error /\ ~edited /\ chat # Resolved(work[Pass].cfg, cache.base) =>
       work'[Pass].st = "call"]_permVars
=============================================================================
