----------------------------- MODULE GlobalBans -----------------------------
(***************************************************************************)
(* Global bans of one user: /ban and /unban with the global scope and      *)
(* /spam (handlers/admin.py), the same operations of the panel and its     *)
(* bans of one group (web/settings_api.py), the enforcement of a recorded  *)
(* ban on a message or a join (middlewares/global_ban.py), and the sweeper *)
(* that carries out the journals they leave (services/join_verification).  *)
(*                                                                         *)
(* An operation changes the policy and leases a journal, the "unbanning"   *)
(* row, of every authorized group in one transaction; then it calls        *)
(* Telegram group by group and completes the journals it still owns.       *)
(***************************************************************************)
EXTENDS Naturals, FiniteSets

CONSTANTS
  Groups,        \* the authorized groups
  Ops,           \* operations; each is used once
  Panel,         \* those asked of the panel, which take no lock of the user
  Sweeper,       \* VerificationTimeoutService
  Enforcer,      \* GlobalBanEnforcementMiddleware, on_chat_member's ban of a rejoin
  NoLease,
  MaxBanFaults,  \* bound: failed calls and crashes
  MaxMessages    \* bound: messages and joins of the user the bot takes up

GlobalBansAssumption ==
  /\ IsFiniteSet(Ops) /\ Panel \subseteq Ops /\ {Sweeper, Enforcer, NoLease} \cap Ops = {}
  /\ Sweeper # Enforcer /\ NoLease \notin {Sweeper, Enforcer}
  /\ MaxBanFaults \in Nat /\ MaxMessages \in Nat

VARIABLES
  policy,    \* the GlobalBan row exists
  local,     \* group -> UserWarning.is_banned
  journal,   \* group -> who leased its "unbanning" row last, NoLease without a row
  due,       \* group -> that lease has run out
  present,   \* group -> AuthorizedGroup.bot_present
  banned,    \* group -> Telegram keeps the user banned
  op,        \* operation -> its kind, "idle" before it, "over" after it
  at,        \* worker -> group -> its step there
  snap,      \* operation -> the recorded ban /unban of a group has seen
  unseen,    \* history: groups an operation left as an earlier policy asked, nobody started since
  messages, faults  \* spent of MaxMessages and MaxBanFaults

vars == <<policy, local, journal, due, present, banned, op, at, snap, unseen, messages,
          faults>>
policies == <<policy, local>>
journals == <<journal, due>>
steady   == <<present, op, snap, messages>>
settled  == <<steady, unseen>>

Workers == Ops \cup {Sweeper, Enforcer}
Kinds   == {"gban", "gunban", "ban", "unban"}
BanSteps   == {"ban.read", "ban.call", "ban.again", "ban.lift", "ban.restore"}
UnbanSteps == {"unban.read", "unban.call", "unban.again", "unban.failed", "unban.reban", "unban.restore"}
LocalSteps == {"set.call", "set.record", "clear.call", "clear.record", "clear.reban", "clear.restore"}
FixSteps   == {"fix.read", "fix.ban", "fix.sure", "fix.lift", "fix.seen", "fix.restore", "fix.last"}
Steps      == {"idle", "done"} \cup BanSteps \cup UnbanSteps \cup LocalSteps \cup FixSteps

TypeOK ==
  /\ policy \in BOOLEAN /\ local \in [Groups -> BOOLEAN]
  /\ journal \in [Groups -> Ops \cup {Sweeper, NoLease}] /\ due \in [Groups -> BOOLEAN]
  /\ present \in [Groups -> BOOLEAN] /\ banned \in [Groups -> BOOLEAN]
  /\ op \in [Ops -> Kinds \cup {"idle", "over"}] /\ snap \in [Ops -> BOOLEAN]
  /\ at \in [Workers -> [Groups -> Steps]]
  /\ unseen \subseteq Groups /\ messages \in 0..MaxMessages /\ faults \in 0..MaxBanFaults

Init ==
  /\ policy \in BOOLEAN /\ local = [g \in Groups |-> FALSE]
  /\ journal = [g \in Groups |-> NoLease] /\ due = [g \in Groups |-> FALSE]
  /\ present \in [Groups -> BOOLEAN]
  /\ banned = [g \in Groups |-> policy]
  /\ op = [o \in Ops |-> "idle"] /\ snap = [o \in Ops |-> FALSE]
  /\ at = [w \in Workers |-> [g \in Groups |-> "idle"]]
  /\ unseen = {} /\ messages = 0 /\ faults = 0

\* verification_release_blocked_by_ban
Wanted(g) == policy \/ local[g]

Is(w, g, s) == at[w][g] = s
Go(w, g, s) == at' = [at EXCEPT ![w][g] = s]
Fails == faults < MaxBanFaults /\ faults' = faults + 1
Worked == UNCHANGED faults

\* The last call of an operation, when the policy it was made for is no longer recorded.
Overlooks(w, g, b) ==
  /\ at[w][g] \in {"ban.lift", "unban.reban", "clear.reban"}
  /\ IF b THEN ~Wanted(g) ELSE policy
Overlooked(g, missed) == unseen' = IF missed THEN unseen \cup {g} ELSE unseen

\* A call to Telegram that leaves the user banned or not (b).  It is applied and
\* confirmed (then good), or fails, applied or not, with the answer lost (then bad).
Call(w, g, b, good, bad) ==
  /\ \/ banned' = [banned EXCEPT ![g] = b] /\ Go(w, g, good) /\ Worked
     \/ (banned' = [banned EXCEPT ![g] = b] \/ UNCHANGED banned) /\ Go(w, g, bad) /\ Fails
  /\ Overlooked(g, Overlooks(w, g, b))
  /\ UNCHANGED <<policies, journals, steady>>
Ban(w, g, good, bad)     == Call(w, g, TRUE, good, bad)
Lift(w, g, good, bad)    == Call(w, g, FALSE, good, bad)
Restore(w, g, good, bad) == Call(w, g, banned[g], good, bad)

\* A read of the recorded policy.
Read(w, g, p, yes, no) ==
  /\ Go(w, g, IF p THEN yes ELSE no) /\ Worked
  /\ UNCHANGED <<policies, journals, settled, banned>>

\* complete_leased_join_verification: the row is deleted under the lease it was given
Owns(w, g) == journal[g] = w
Complete(w, g) == journal' = IF Owns(w, g) THEN [journal EXCEPT ![g] = NoLease] ELSE journal

-----------------------------------------------------------------------------
(* Starting                                                                *)

\* lease_join_verification_for_unban: whatever row the group has is taken over
Lease(o, gs) ==
  /\ journal' = [g \in Groups |-> IF g \in gs THEN o ELSE journal[g]]
  /\ due' = [g \in Groups |-> IF g \in gs THEN FALSE ELSE due[g]]

\* _MANUAL_BAN_LOCKS[(0, target)]: commands wait for each other, the panel for nobody
Locked(o) == /\ o \notin Panel
             /\ \E p \in Ops \ (Panel \cup {o}) : op[p] \in {"gban", "gunban"}

\* _authorized_group_ids
Targets(gs) == {g \in gs : present[g]}

Begin(o, kind, gs, first) ==
  /\ op[o] = "idle" /\ op' = [op EXCEPT ![o] = kind]
  /\ at' = [at EXCEPT ![o] = [g \in Groups |-> IF g \in Targets(gs) THEN first ELSE "done"]]
  /\ Lease(o, gs)
  /\ unseen' = unseen \ Targets(gs)
  /\ Worked /\ UNCHANGED <<present, banned, messages>>

StartBan(o) ==
  /\ ~Locked(o) /\ Begin(o, "gban", Groups, "ban.read")
  /\ policy' = TRUE /\ UNCHANGED <<local, snap>>
StartUnban(o) ==
  /\ ~Locked(o) /\ Begin(o, "gunban", Groups, "unban.read")
  /\ policy' = FALSE /\ local' = [g \in Groups |-> FALSE] /\ UNCHANGED snap
\* create_group_ban, delete_group_ban: not while the ban is global
StartGroupBan(o, g) ==
  /\ o \in Panel /\ present[g] /\ ~policy /\ Begin(o, "ban", {g}, "set.call")
  /\ UNCHANGED <<policies, snap>>
StartGroupUnban(o, g) ==
  /\ o \in Panel /\ present[g] /\ ~policy /\ Begin(o, "unban", {g}, "clear.call")
  /\ snap' = [snap EXCEPT ![o] = local[g]] /\ UNCHANGED policies

\* The groups are worked on by tasks of their own; the answer waits for all.
Over(o) ==
  /\ op[o] \in Kinds /\ \A g \in Groups : Is(o, g, "done")
  /\ op' = [op EXCEPT ![o] = "over"]
  /\ UNCHANGED <<policies, journals, present, banned, at, snap, unseen, messages, faults>>

-----------------------------------------------------------------------------
(* _perform_global_ban_locked.ban_one                                      *)

\* Bugs for the mutation runs: the journal is completed whatever the call did; the
\* policy is not read again after the call.
BanCallAnyway(o, g) ==
  /\ Is(o, g, "ban.call") /\ Complete(o, g) /\ UNCHANGED <<policies, due, settled>>
  /\ \/ banned' = [banned EXCEPT ![g] = TRUE] /\ Go(o, g, "done") /\ Worked
     \/ UNCHANGED banned /\ Go(o, g, "done") /\ Fails
BanAgainUnread(o, g) ==
  /\ Is(o, g, "ban.again") /\ Go(o, g, "done") /\ Complete(o, g)
  /\ Worked /\ UNCHANGED <<policies, due, settled, banned>>

BanRead(o, g)  == Is(o, g, "ban.read") /\ Read(o, g, policy, "ban.call", "ban.lift")
BanCall(o, g)  == Is(o, g, "ban.call") /\ Ban(o, g, "ban.again", "done")
BanAgain(o, g) ==
  /\ Is(o, g, "ban.again") /\ Go(o, g, IF policy THEN "done" ELSE "ban.lift")
  /\ IF policy THEN Complete(o, g) ELSE UNCHANGED journal
  /\ Worked /\ UNCHANGED <<policies, due, settled, banned>>
\* The group's own ban is not looked at: unban_member without preserve_ban.
BanLift(o, g) == Is(o, g, "ban.lift") /\ Lift(o, g, "ban.restore", "done")
\* The outcome of the restoration is not looked at.
BanRestore(o, g) ==
  /\ Is(o, g, "ban.restore") /\ Go(o, g, "done") /\ Complete(o, g)
  /\ Worked /\ UNCHANGED <<policies, due, settled, banned>>

(* _perform_global_unban_locked.unban_one with unban_member                *)

UnbanRead(o, g)  == Is(o, g, "unban.read") /\ Read(o, g, Wanted(g), "unban.reban", "unban.call")
UnbanCall(o, g)  == Is(o, g, "unban.call") /\ Lift(o, g, "unban.again", "unban.failed")
UnbanAgain(o, g) == \/ Is(o, g, "unban.again") /\ Read(o, g, Wanted(g), "unban.reban", "unban.restore")
                    \/ Is(o, g, "unban.failed") /\ Read(o, g, Wanted(g), "unban.reban", "done")
UnbanReban(o, g) == Is(o, g, "unban.reban") /\ Ban(o, g, "done", "done")
UnbanRestore(o, g) ==
  /\ Is(o, g, "unban.restore") /\ Go(o, g, "done")
  /\ \/ Complete(o, g) /\ Worked
     \/ UNCHANGED journal /\ Fails
  /\ UNCHANGED <<policies, due, settled, banned>>

-----------------------------------------------------------------------------
(* create_group_ban, delete_group_ban                                      *)

SetCall(o, g) == Is(o, g, "set.call") /\ Ban(o, g, "set.record", "done")
\* mark_group_banned
Mark(g, b) == local' = [local EXCEPT ![g] = @ \/ b]

SetRecord(o, g) ==
  /\ Is(o, g, "set.record") /\ Go(o, g, IF Owns(o, g) THEN "done" ELSE "fix.read")
  /\ Mark(g, Owns(o, g)) /\ Complete(o, g)
  /\ Worked /\ UNCHANGED <<policy, due, settled, banned>>

ClearCall(o, g) == Is(o, g, "clear.call") /\ Lift(o, g, "clear.record", "done")
\* The recorded ban is cleared when it is still the one that was seen; whether Telegram
\* still agrees, a message or a join having banned the user again, is not looked at.
Seen(o, g) == local[g] = snap[o]
ClearRecord(o, g) ==
  /\ Is(o, g, "clear.record")
  /\ LET claimed == ~policy /\ Seen(o, g) IN
       /\ local' = [local EXCEPT ![g] = @ /\ ~claimed]
       /\ Overlooked(g, claimed /\ banned[g])
       /\ Go(o, g, IF claimed THEN "clear.restore" ELSE IF Wanted(g) THEN "clear.reban" ELSE "done")
  /\ Worked /\ UNCHANGED <<policy, journals, steady, banned>>
ClearReban(o, g) == Is(o, g, "clear.reban") /\ Ban(o, g, "done", "done")
ClearRestore(o, g) ==
  /\ Is(o, g, "clear.restore") /\ Go(o, g, "done")
  /\ \/ Complete(o, g) /\ Worked
     \/ UNCHANGED journal /\ Fails
  /\ UNCHANGED <<policies, due, settled, banned>>

-----------------------------------------------------------------------------
(* reconcile_moderation_ban_after_lost_lease_result: the sweeper's, a      *)
(* message's or a join's, and the panel's after a lost lease               *)

Rest(w)     == IF w \in Ops THEN "done" ELSE "idle"
FixRead(w, g) == Is(w, g, "fix.read") /\ Read(w, g, Wanted(g), "fix.ban", "fix.lift")
FixBan(w, g)  == Is(w, g, "fix.ban") /\ Ban(w, g, "fix.sure", Rest(w))
FixLift(w, g) == Is(w, g, "fix.lift") /\ Lift(w, g, "fix.seen", Rest(w))
FixSeen(w, g) == Is(w, g, "fix.seen") /\ Read(w, g, Wanted(g), "fix.read", "fix.restore")
FixRestore(w, g) == Is(w, g, "fix.restore") /\ Restore(w, g, "fix.last", Rest(w))
\* The last mutation stands when the policy is still the one it was for.
Holds(w, g) == \/ Is(w, g, "fix.sure") /\ Wanted(g)
               \/ Is(w, g, "fix.last") /\ ~Wanted(g)
FixEnd(w, g) ==
  /\ at[w][g] \in {"fix.sure", "fix.last"}
  /\ Go(w, g, IF Holds(w, g) THEN Rest(w) ELSE "fix.read")
  /\ IF w = Sweeper /\ Holds(w, g) THEN Complete(w, g) ELSE UNCHANGED journal
  /\ Worked /\ UNCHANGED <<policies, due, settled, banned>>

\* lease_until <= now.  The lease outlives the calls of an operation on one group,
\* not the wait of a group for its turn in a fan-out over many.
LeaseEnds(g) ==
  /\ journal[g] # NoLease /\ ~due[g] /\ due' = [due EXCEPT ![g] = TRUE]
  /\ \A o \in Ops : Owns(o, g) /\ op[o] \in {"ban", "unban"} => Is(o, g, "done")
  /\ UNCHANGED <<policies, journal, settled, banned, at, faults>>

\* list_expired_verifications, _recover_unbanning
Sweep(g) ==
  /\ Is(Sweeper, g, "idle") /\ present[g] /\ journal[g] # NoLease /\ due[g]
  /\ Lease(Sweeper, {g}) /\ Go(Sweeper, g, "fix.read") /\ unseen' = unseen \ {g}
  /\ UNCHANGED <<policies, steady, banned, faults>>

\* A message or a join of a user a ban is recorded of.
Arrives(g) ==
  /\ Is(Enforcer, g, "idle") /\ present[g] /\ Wanted(g)
  /\ messages < MaxMessages /\ messages' = messages + 1
  /\ Go(Enforcer, g, "fix.read") /\ unseen' = unseen \ {g}
  /\ UNCHANGED <<policies, journals, present, op, snap, banned, faults>>

-----------------------------------------------------------------------------
\* The bot is back in the group: resume_group_verification_recovery
Return(g) ==
  /\ ~present[g] /\ present' = [present EXCEPT ![g] = TRUE]
  /\ UNCHANGED <<policies, journals, banned, op, at, snap, unseen, messages, faults>>

\* The process dies: what was running is gone, the rows stay.
Crash ==
  /\ Fails
  /\ op' = [o \in Ops |-> IF op[o] = "idle" THEN "idle" ELSE "over"]
  /\ at' = [w \in Workers |-> [g \in Groups |->
              IF w \in Ops /\ op[w] # "idle" THEN "done" ELSE "idle"]]
  /\ UNCHANGED <<policies, journals, present, banned, snap, unseen, messages>>

OfOp(o, g) ==
  \/ StartGroupBan(o, g) \/ StartGroupUnban(o, g)
  \/ BanRead(o, g) \/ BanCall(o, g) \/ BanAgain(o, g) \/ BanLift(o, g) \/ BanRestore(o, g)
  \/ UnbanRead(o, g) \/ UnbanCall(o, g) \/ UnbanAgain(o, g) \/ UnbanReban(o, g) \/ UnbanRestore(o, g)
  \/ SetCall(o, g) \/ SetRecord(o, g)
  \/ ClearCall(o, g) \/ ClearRecord(o, g) \/ ClearReban(o, g) \/ ClearRestore(o, g)
Fix(w, g) == FixRead(w, g) \/ FixBan(w, g) \/ FixLift(w, g) \/ FixSeen(w, g) \/ FixRestore(w, g) \/ FixEnd(w, g)

Next ==
  \/ \E o \in Ops : StartBan(o) \/ StartUnban(o) \/ Over(o) \/ \E g \in Groups : OfOp(o, g)
  \/ \E g \in Groups : LeaseEnds(g) \/ Sweep(g) \/ Arrives(g) \/ Return(g)
                       \/ \E w \in Workers : Fix(w, g)
  \/ Crash

Spec == Init /\ [][Next]_vars

-----------------------------------------------------------------------------
\* Nobody works on the group.
Quiet(g) == \A w \in Workers : at[w][g] \in {"idle", "done"}
Closed(g) == present[g] /\ Quiet(g) /\ journal[g] = NoLease
Started == {o \in Ops : op[o] # "idle"}

\* Operations that overtake each other, journals whose lease runs out under their
\* owner and the sweeper beside them leave each group as the last recorded global
\* policy says, when no call fails (admin.py:2044-2045, "the last durable policy wins"),
\* but for a group an operation has left as an outdated policy asked with a call after
\* which it reads nothing again, or whose ban delete_group_ban has forgotten while
\* Telegram kept it.
PolicyWins == \A g \in Groups :
  Closed(g) /\ faults = 0 /\ g \notin unseen =>
    /\ policy => banned[g]
    /\ banned[g] => Wanted(g)

\* A failed call or a crash costs nothing while the operation is the only one: the
\* group agrees with the policy, or its journal is there for the sweeper
\* (admin.py:1962-1966, "one idempotent reconciliation journal per authorized group").
JournalCovers == \A g \in Groups :
  Closed(g) /\ messages = 0 /\ Cardinality(Started) = 1 => (banned[g] <=> Wanted(g))
=============================================================================
