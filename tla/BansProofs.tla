----------------------------- MODULE BansProofs -----------------------------
(***************************************************************************)
(* Theorems about global bans and the choice of their scope, the patrol of  *)
(* members and the verification page, for any number of groups, operations, *)
(* presses, messages, members, submissions, failed calls and restarts.      *)
(***************************************************************************)
EXTENDS Enforcement, FiniteSetTheorems, TLAPS

-----------------------------------------------------------------------------
(* One user's bans: GlobalBans *)

\* The steps an operation of each kind may be at, and those of the two that reconcile.
OpSteps(k) ==
  CASE k = "idle"   -> {"idle"}
    [] k = "over"   -> {"done"}
    [] k = "gban"   -> G!BanSteps \cup {"done"}
    [] k = "gunban" -> G!UnbanSteps \cup {"done"}
    [] k = "ban"    -> {"set.call", "set.record", "done"} \cup G!FixSteps
    [] k = "unban"  -> {"clear.call", "clear.record", "clear.reban", "clear.restore", "done"}
StepsFit == \A g \in Groups :
  /\ \A o \in Ops : at[o][g] \in OpSteps(op[o])
  /\ \A w \in {Sweeper, Enforcer} : at[w][g] \in {"idle"} \cup G!FixSteps

\* The steps from which a worker, if nothing fails, still bans a user the policy bans, or
\* lifts a ban nobody wants.
BanAhead  == {"ban.read", "ban.call", "unban.read", "unban.call", "unban.again", "unban.reban",
              "set.call", "clear.call", "clear.record", "clear.reban", "fix.read", "fix.ban",
              "fix.lift", "fix.seen", "fix.restore", "fix.last"}
LiftAhead == {"ban.read", "ban.call", "ban.again", "ban.lift", "unban.read", "unban.call",
              "set.call", "set.record", "clear.call", "fix.read", "fix.ban", "fix.sure",
              "fix.lift"}

\* An operation that is through with the group has left its journal to the sweeper.
Left(g) == \E o \in Ops : banJournal[g] = o /\ at[o][g] = "done"

Unbanned(g) == banPolicy /\ ~banBanned[g]
Outlived(g) == banBanned[g] /\ ~G!Wanted(g)
TendedAt(g) ==
  banFaults = 0 /\ g \notin unseen =>
    /\ Unbanned(g) => Left(g) \/ \E w \in G!Workers : at[w][g] \in BanAhead
    /\ Outlived(g) => Left(g) \/ \E w \in G!Workers : at[w][g] \in LiftAhead
Tended == \A g \in Groups : TendedAt(g)

\* What holds of a group while o is the only operation and no message comes in: nobody else
\* works on it but the sweeper with o's journal; who bans, lifts or records finds what it
\* has just done; and without a journal Telegram agrees with the policy.
Alone(o, g) ==
  /\ at[Enforcer][g] = "idle" /\ \A p \in Ops \ {o} : at[p][g] = "idle"
  /\ banJournal[g] \in {o, Sweeper, NoLease}
  /\ at[Sweeper][g] # "idle" => banJournal[g] = Sweeper
  /\ at[o][g] \in G!LocalSteps => banJournal[g] = o /\ ~due[g]
  /\ at[o][g] \notin G!FixSteps
  /\ op[o] = "idle" => banJournal[g] = NoLease /\ ~local[g]
WhileBanned(o, g) ==
  banPolicy =>
    /\ ~local[g]
    /\ at[o][g] \in {"idle", "ban.read", "ban.call", "ban.again", "done"}
    /\ at[Sweeper][g] \in {"idle", "fix.read", "fix.ban", "fix.sure"}
    /\ at[o][g] = "ban.again" \/ at[Sweeper][g] = "fix.sure" => banBanned[g]
WhileLocal(o, g) ==
  local[g] =>
    banBanned[g] /\ banJournal[g] = NoLease /\ at[Sweeper][g] = "idle" /\ at[o][g] = "done"
WhileFree(o, g) ==
  ~G!Wanted(g) =>
    /\ at[o][g] \notin G!BanSteps \cup {"unban.reban", "clear.reban"}
    /\ at[Sweeper][g] \notin {"fix.ban", "fix.sure"}
    /\ at[o][g] \in {"unban.again", "unban.restore", "clear.record", "clear.restore"} =>
         ~banBanned[g]
    /\ at[Sweeper][g] \in {"fix.seen", "fix.restore", "fix.last"} => ~banBanned[g]
    /\ at[o][g] = "set.record" => banBanned[g]
Agrees(g) == banJournal[g] = NoLease => (banBanned[g] <=> G!Wanted(g))
Sole(o, g) ==
    /\ Alone(o, g) /\ Agrees(g)
    /\ WhileBanned(o, g) /\ WhileLocal(o, g) /\ WhileFree(o, g)
Covered ==
  messages = 0 => \A o \in Ops : G!Started \subseteq {o} => \A g \in Groups : Sole(o, g)

\* The inductive invariant.
BanInv == G!TypeOK /\ StepsFit /\ Tended /\ Covered

-----------------------------------------------------------------------------
(* One worker's step in one group *)

\* All that a worker's step may change: its own place in the group, what Telegram and the
\* group's rows say, and the history; what was missed stays missed.
Touches(w, g) ==
  /\ banPolicy' = banPolicy /\ op' = op /\ messages' = messages
  /\ \A v \in G!Workers, h \in Groups : v # w \/ h # g => at'[v][h] = at[v][h]
  /\ \A h \in Groups : h # g =>
       /\ banJournal'[h] = banJournal[h] /\ due'[h] = due[h] /\ banBanned'[h] = banBanned[h]
       /\ local'[h] = local[h] /\ (h \in unseen' <=> h \in unseen)
  /\ g \in unseen => g \in unseen'
  /\ banFaults' \in {banFaults, banFaults + 1}
  /\ banJournal'[g] = banJournal[g] \/ banJournal[g] = w
  /\ G!TypeOK'

\* The worker moves; everything else keeps its place.
LEMMA Moves ==
  ASSUME G!TypeOK, NEW w \in G!Workers, NEW g \in Groups, NEW s \in G!Steps, G!Go(w, g, s)
  PROVE  /\ at' \in [G!Workers -> [Groups -> G!Steps]] /\ at'[w][g] = s
         /\ \A v \in G!Workers, h \in Groups : v # w \/ h # g => at'[v][h] = at[v][h]
<1>1. at \in [G!Workers -> [Groups -> G!Steps]]  BY DEF G!TypeOK
<1>2. at' = [at EXCEPT ![w][g] = s]  BY DEF G!Go
<1>3. QED  BY <1>1, <1>2

\* A completed journal is the worker's own.
LEMMA Completes ==
  ASSUME G!TypeOK, NEW w \in G!Workers, NEW g \in Groups, G!Complete(w, g)
  PROVE  /\ banJournal' \in [Groups -> Ops \cup {Sweeper, NoLease}]
         /\ \A h \in Groups : h # g => banJournal'[h] = banJournal[h]
         /\ banJournal[g] = w => banJournal'[g] = NoLease
         /\ banJournal[g] # w => banJournal'[g] = banJournal[g]
<1>1. banJournal \in [Groups -> Ops \cup {Sweeper, NoLease}]  BY DEF G!TypeOK
<1>2. QED  BY <1>1 DEF G!Complete, G!Owns

\* A failure is counted.
LEMMA Counted ==
  ASSUME G!GlobalBansAssumption, G!TypeOK
  PROVE  /\ G!Fails => banFaults' = banFaults + 1 /\ banFaults' # 0
             /\ banFaults' \in 0..MaxBanFaults
         /\ G!Worked => banFaults' = banFaults /\ banFaults' \in 0..MaxBanFaults
         /\ banFaults \in Nat
  BY DEF G!GlobalBansAssumption, G!TypeOK, G!Fails, G!Worked

\* A read moves the worker and changes nothing.
LEMMA ReadDoes ==
  ASSUME G!GlobalBansAssumption, G!TypeOK, NEW w \in G!Workers, NEW g \in Groups,
         NEW p \in BOOLEAN, NEW yes \in G!Steps, NEW no \in G!Steps, G!Read(w, g, p, yes, no)
  PROVE  /\ Touches(w, g) /\ banFaults' = banFaults
         /\ banJournal' = banJournal /\ due' = due /\ local' = local /\ banBanned' = banBanned
         /\ unseen' = unseen
         /\ at'[w][g] = IF p THEN yes ELSE no
<1> DEFINE s == IF p THEN yes ELSE no
<1>1. s \in G!Steps /\ G!Go(w, g, s)  BY DEF G!Read
<1> HIDE DEF s
<1>2. /\ at' \in [G!Workers -> [Groups -> G!Steps]] /\ at'[w][g] = s
      /\ \A v \in G!Workers, h \in Groups : v # w \/ h # g => at'[v][h] = at[v][h]
  BY <1>1, Moves
<1>3. /\ banPolicy' = banPolicy /\ op' = op /\ messages' = messages
      /\ banJournal' = banJournal /\ due' = due
      /\ local' = local /\ banBanned' = banBanned /\ unseen' = unseen /\ present' = present
      /\ snap' = snap /\ banFaults' = banFaults
  BY DEF G!Read, G!Worked, G!policies, G!journals, G!settled, G!steady
<1>4. G!TypeOK'  BY <1>2, <1>3 DEF G!TypeOK
<1>5. QED  BY <1>2, <1>3, <1>4 DEF Touches, s

\* A call moves the worker and may change what Telegram has; it is counted when it fails.
LEMMA CallDoes ==
  ASSUME G!GlobalBansAssumption, G!TypeOK, NEW w \in G!Workers, NEW g \in Groups,
         NEW b \in BOOLEAN, NEW good \in G!Steps, NEW bad \in G!Steps,
         G!Call(w, g, b, good, bad)
  PROVE  /\ Touches(w, g) /\ banJournal' = banJournal /\ due' = due /\ local' = local
         /\ \/ banFaults' = banFaults /\ banBanned'[g] = b /\ at'[w][g] = good
            \/ banFaults' = banFaults + 1 /\ banFaults' # 0 /\ at'[w][g] = bad
               /\ banBanned'[g] \in {banBanned[g], b}
         /\ g \in unseen' <=> g \in unseen \/ G!Overlooks(w, g, b)
<1>1. /\ banPolicy' = banPolicy /\ op' = op /\ messages' = messages
      /\ banJournal' = banJournal /\ due' = due
      /\ local' = local /\ present' = present /\ snap' = snap
  BY DEF G!Call, G!policies, G!journals, G!steady
<1>2. /\ unseen' \subseteq Groups
      /\ g \in unseen' <=> g \in unseen \/ G!Overlooks(w, g, b)
      /\ \A h \in Groups : h # g => (h \in unseen' <=> h \in unseen)
  BY DEF G!Call, G!Overlooked, G!TypeOK
<1>3. banBanned \in [Groups -> BOOLEAN]  BY DEF G!TypeOK
<1>4. CASE banBanned' = [banBanned EXCEPT ![g] = b] /\ G!Go(w, g, good) /\ G!Worked
  <2>1. /\ at' \in [G!Workers -> [Groups -> G!Steps]] /\ at'[w][g] = good
        /\ \A v \in G!Workers, h \in Groups : v # w \/ h # g => at'[v][h] = at[v][h]
    BY <1>4, Moves
  <2>2. /\ banBanned' \in [Groups -> BOOLEAN] /\ banBanned'[g] = b
        /\ \A h \in Groups : h # g => banBanned'[h] = banBanned[h]
    BY <1>3, <1>4
  <2>3. banFaults' = banFaults /\ banFaults' \in 0..MaxBanFaults  BY <1>4, Counted
  <2>4. G!TypeOK'  BY <1>1, <1>2, <2>1, <2>2, <2>3 DEF G!TypeOK
  <2>5. QED  BY <1>1, <1>2, <2>1, <2>2, <2>3, <2>4 DEF Touches
<1>5. CASE /\ banBanned' = [banBanned EXCEPT ![g] = b] \/ UNCHANGED banBanned
           /\ G!Go(w, g, bad) /\ G!Fails
  <2>1. /\ at' \in [G!Workers -> [Groups -> G!Steps]] /\ at'[w][g] = bad
        /\ \A v \in G!Workers, h \in Groups : v # w \/ h # g => at'[v][h] = at[v][h]
    BY <1>5, Moves
  <2>2. /\ banBanned' \in [Groups -> BOOLEAN] /\ banBanned'[g] \in {banBanned[g], b}
        /\ \A h \in Groups : h # g => banBanned'[h] = banBanned[h]
    BY <1>3, <1>5
  <2>3. banFaults' = banFaults + 1 /\ banFaults' # 0 /\ banFaults' \in 0..MaxBanFaults
    BY <1>5, Counted
  <2>4. G!TypeOK'  BY <1>1, <1>2, <2>1, <2>2, <2>3 DEF G!TypeOK
  <2>5. QED  BY <1>1, <1>2, <2>1, <2>2, <2>3, <2>4 DEF Touches
<1>6. QED  BY <1>4, <1>5 DEF G!Call

\* A step on the rows alone: who owns the journal may complete it, the group's ban may be
\* recorded or cleared.
LEMMA WriteDoes ==
  ASSUME G!GlobalBansAssumption, G!TypeOK, NEW w \in G!Workers, NEW g \in Groups,
         NEW s \in G!Steps, G!Go(w, g, s), G!Complete(w, g)
             \/ banJournal' = banJournal, G!Worked \/ G!Fails,
         NEW b \in BOOLEAN, local' = [local EXCEPT ![g] = b],
         G!Overlooked(g, unseen' # unseen),
         UNCHANGED <<banPolicy, due, G!steady, banBanned>>
  PROVE  /\ Touches(w, g) /\ due' = due /\ banBanned' = banBanned /\ local'[g] = b
         /\ at'[w][g] = s
         /\ G!Fails => banFaults' # 0
         /\ G!Worked => banFaults' = banFaults
         /\ banJournal[g] # w => banJournal'[g] = banJournal[g]
         /\ G!Complete(w, g) /\ banJournal[g] = w => banJournal'[g] = NoLease
<1>1. /\ banPolicy' = banPolicy /\ op' = op /\ messages' = messages /\ due' = due
      /\ present' = present /\ snap' = snap /\ banBanned' = banBanned
  BY DEF G!steady
<1>2. /\ at' \in [G!Workers -> [Groups -> G!Steps]] /\ at'[w][g] = s
      /\ \A v \in G!Workers, h \in Groups : v # w \/ h # g => at'[v][h] = at[v][h]
  BY Moves
<1>3. /\ unseen' \subseteq Groups
      /\ g \in unseen => g \in unseen'
      /\ \A h \in Groups : h # g => (h \in unseen' <=> h \in unseen)
  BY DEF G!Overlooked, G!TypeOK
<1>4. local' \in [Groups -> BOOLEAN] /\ local'[g] = b
      /\ \A h \in Groups : h # g => local'[h] = local[h]
  BY DEF G!TypeOK
<1>5. /\ banJournal' \in [Groups -> Ops \cup {Sweeper, NoLease}]
      /\ \A h \in Groups : h # g => banJournal'[h] = banJournal[h]
      /\ banJournal'[g] = banJournal[g] \/ banJournal[g] = w
      /\ banJournal[g] # w => banJournal'[g] = banJournal[g]
      /\ G!Complete(w, g) /\ banJournal[g] = w => banJournal'[g] = NoLease
  BY Completes DEF G!TypeOK
<1>6. /\ banFaults' \in 0..MaxBanFaults /\ banFaults' \in {banFaults, banFaults + 1}
      /\ G!Fails => banFaults' # 0
      /\ G!Worked => banFaults' = banFaults
  BY Counted
<1>7. G!TypeOK'  BY <1>1, <1>2, <1>3, <1>4, <1>5, <1>6 DEF G!TypeOK
<1>8. QED  BY <1>1, <1>2, <1>3, <1>4, <1>5, <1>6, <1>7 DEF Touches

-----------------------------------------------------------------------------
(* The invariant, from one group to all *)

\* Nobody is two.
LEMMA Apart ==
  ASSUME G!GlobalBansAssumption
  PROVE  /\ Sweeper \notin Ops /\ Enforcer \notin Ops /\ NoLease \notin G!Workers
         /\ Sweeper # Enforcer /\ Ops \subseteq G!Workers
         /\ Sweeper \in G!Workers /\ Enforcer \in G!Workers
  BY DEF G!GlobalBansAssumption, G!Workers

\* Who is neither done nor idle there left its journal to nobody yet.
Busy(w, g) == at[w][g] \notin {"idle", "done"}

\* A worker's step keeps the invariant in every group when it does in its own.
LEMMA StepKeeps ==
  ASSUME G!GlobalBansAssumption, BanInv, NEW w \in G!Workers, NEW g \in Groups,
         Touches(w, g), Busy(w, g),
         w \in Ops => at'[w][g] \in OpSteps(op[w]),
         w \notin Ops => at'[w][g] \in {"idle"} \cup G!FixSteps,
         banFaults' = 0 /\ g \notin unseen' =>
           /\ Unbanned(g)' => \/ at'[w][g] \in BanAhead
                              \/ Unbanned(g) /\ at[w][g] \notin BanAhead
           /\ Outlived(g)' => \/ at'[w][g] \in LiftAhead
                              \/ Outlived(g) /\ at[w][g] \notin LiftAhead,
         \A o \in Ops :
           /\ Sole(o, g) /\ w \in {o, Sweeper} /\ messages = 0
           /\ at[o][g] \in OpSteps(op[o]) /\ op[o] # "idle"
           => Sole(o, g)'
  PROVE  BanInv'
<1> USE DEF BanInv
<1>1. StepsFit'
  <2>1. \A o \in Ops, h \in Groups : o # w \/ h # g => at'[o][h] \in OpSteps(op'[o])
    BY Apart DEF StepsFit, Touches
  <2>2. \A v \in {Sweeper, Enforcer}, h \in Groups :
          v # w \/ h # g => at'[v][h] \in {"idle"} \cup G!FixSteps
    BY Apart DEF StepsFit, Touches
  <2>3. w \in Ops => at'[w][g] \in OpSteps(op'[w])  BY DEF Touches
  <2>4. w \in {Sweeper, Enforcer} => at'[w][g] \in {"idle"} \cup G!FixSteps  BY Apart
  <2>5. QED  BY <2>1, <2>2, <2>3, <2>4 DEF StepsFit
<1>2. banFaults \in Nat /\ (banFaults' = 0 => banFaults = 0)
  BY Counted DEF Touches
<1>3. ASSUME NEW h \in Groups  PROVE TendedAt(h)'
  <2>1. CASE h # g
    <3>1. /\ \A v \in G!Workers : at'[v][h] = at[v][h]
          /\ banPolicy' = banPolicy /\ local'[h] = local[h] /\ banBanned'[h] = banBanned[h]
          /\ banJournal'[h] = banJournal[h]
          /\ h \in unseen' <=> h \in unseen
      BY <2>1 DEF Touches
    <3>2. /\ Unbanned(h)' <=> Unbanned(h)
          /\ Outlived(h)' <=> Outlived(h)
          /\ Left(h)' <=> Left(h)
      BY <3>1, Apart DEF Unbanned, Outlived, G!Wanted, Left
    <3>3. TendedAt(h)  BY DEF Tended
    <3>4. QED  BY <1>2, <3>1, <3>2, <3>3 DEF TendedAt
  <2>2. CASE h = g
    <3>1. ASSUME banFaults' = 0, g \notin unseen'  PROVE TendedAt(g)'
      <4>1. /\ Unbanned(g) => Left(g) \/ \E v \in G!Workers : at[v][g] \in BanAhead
            /\ Outlived(g) => Left(g) \/ \E v \in G!Workers : at[v][g] \in LiftAhead
        BY <1>2, <3>1 DEF Touches, Tended, TendedAt
      <4>2. \A v \in G!Workers : v # w => at'[v][g] = at[v][g]  BY DEF Touches
      <4>3. Left(g) => Left(g)'
        <5>1. ASSUME NEW o \in Ops, banJournal[g] = o, at[o][g] = "done"  PROVE Left(g)'
          <6>1. o # w  BY <5>1 DEF Busy
          <6>2. at'[o][g] = "done" /\ banJournal'[g] = o
            BY <4>2, <5>1, <6>1, Apart DEF Touches
          <6>3. QED  BY <6>2 DEF Left
        <5>2. QED  BY <5>1 DEF Left
      <4>4. Unbanned(g)' => Left(g)' \/ \E v \in G!Workers : at'[v][g] \in BanAhead
        BY <3>1, <4>1, <4>2, <4>3
      <4>5. Outlived(g)' => Left(g)' \/ \E v \in G!Workers : at'[v][g] \in LiftAhead
        BY <3>1, <4>1, <4>2, <4>3
      <4>6. QED  BY <4>4, <4>5 DEF TendedAt
    <3>2. QED  BY <2>2, <3>1 DEF TendedAt
  <2>3. QED  BY <2>1, <2>2
<1>4. ASSUME messages' = 0, NEW o \in Ops, G!Started' \subseteq {o}, NEW h \in Groups
      PROVE  Sole(o, h)'
  <2>0. op' = op /\ messages = 0 /\ G!Started \subseteq {o}  BY <1>4 DEF Touches, G!Started
  <2>1. \A k \in Groups : Sole(o, k)  BY <2>0 DEF Covered
  <2>2. w \in {o, Sweeper}
    BY <2>1, Apart DEF Sole, Alone, Busy, G!Workers
  <2>3. CASE h # g
    <3>1. /\ \A v \in G!Workers : at'[v][h] = at[v][h]
          /\ banPolicy' = banPolicy /\ local'[h] = local[h] /\ banBanned'[h] = banBanned[h]
          /\ banJournal'[h] = banJournal[h] /\ due'[h] = due[h]
      BY <2>3 DEF Touches
    <3>2. Sole(o, h)  BY <2>1
    <3> HIDE DEF BanInv
    <3>3. Alone(o, h)'  BY <2>0, <3>1, <3>2, Apart DEF Sole, Alone
    <3>4. WhileBanned(o, h)'  BY <3>1, <3>2, Apart DEF Sole, WhileBanned
    <3>5. WhileLocal(o, h)'  BY <3>1, <3>2, Apart DEF Sole, WhileLocal
    <3>6. WhileFree(o, h)'  BY <3>1, <3>2, Apart DEF Sole, WhileFree, G!Wanted
    <3>7. Agrees(h)'  BY <3>1, <3>2 DEF Sole, Agrees, G!Wanted
    <3>8. QED  BY <3>3, <3>4, <3>5, <3>6, <3>7 DEF Sole
  <2>4. CASE h = g
    <3>1. at[o][g] \in OpSteps(op[o])  BY DEF StepsFit
    <3>2. op[o] # "idle"
      <4>1. SUFFICES ASSUME op[o] = "idle"  PROVE FALSE  OBVIOUS
      <4>2. at[o][g] = "idle"  BY <3>1, <4>1 DEF OpSteps
      <4>3. w = Sweeper  BY <2>2, <4>2 DEF Busy
      <4>4. banJournal[g] = Sweeper /\ banJournal[g] = NoLease
        BY <2>1, <4>1, <4>3 DEF Sole, Alone, Busy
      <4>5. QED  BY <4>4, Apart
    <3>3. QED  BY <2>0, <2>1, <2>2, <2>4, <3>1, <3>2
  <2>5. QED  BY <2>3, <2>4
<1>5. QED  BY <1>1, <1>3, <1>4 DEF Tended, Covered, Touches

\* The same for a step of an operation: it is the only one or not alone.
LEMMA OpKeeps ==
  ASSUME G!GlobalBansAssumption, BanInv, NEW o \in Ops, NEW g \in Groups,
         Touches(o, g), Busy(o, g), at'[o][g] \in OpSteps(op[o]),
         banFaults' = 0 /\ g \notin unseen' =>
           /\ Unbanned(g)' => \/ at'[o][g] \in BanAhead
                              \/ Unbanned(g) /\ at[o][g] \notin BanAhead
           /\ Outlived(g)' => \/ at'[o][g] \in LiftAhead
                              \/ Outlived(g) /\ at[o][g] \notin LiftAhead,
         Sole(o, g) => Sole(o, g)'
  PROVE  BanInv'
<1>1. o \in G!Workers /\ o # Sweeper  BY Apart
<1>2. QED  BY <1>1, StepKeeps

-----------------------------------------------------------------------------
(* One step of an operation *)

\* What an operation is about is known by where it is.
LEMMA KindOf ==
  ASSUME G!TypeOK, StepsFit, NEW o \in Ops, NEW g \in Groups
  PROVE  /\ at[o][g] \in G!BanSteps => op[o] = "gban"
         /\ at[o][g] \in G!UnbanSteps => op[o] = "gunban"
         /\ at[o][g] \in {"set.call", "set.record"} \cup G!FixSteps => op[o] = "ban"
         /\ at[o][g] \in {"clear.call", "clear.record", "clear.reban", "clear.restore"} =>
              op[o] = "unban"
<1>1. op[o] \in G!Kinds \cup {"idle", "over"}  BY DEF G!TypeOK
<1>2. at[o][g] \in OpSteps(op[o])  BY DEF StepsFit
<1>3. QED
  BY <1>1, <1>2 DEF OpSteps, G!Kinds, G!BanSteps, G!UnbanSteps, G!FixSteps

\* Who works on the group, but for the operation, and what it owns stay.
LEMMA AloneKeeps ==
  ASSUME G!GlobalBansAssumption, NEW o \in Ops, NEW g \in Groups, Touches(o, g), Alone(o, g),
         op[o] # "idle", at'[o][g] \notin G!FixSteps, 
         banJournal'[g] \in {banJournal[g], NoLease},
         at'[o][g] \in G!LocalSteps => banJournal'[g] = o /\ ~due'[g]
  PROVE  Alone(o, g)'
<1>1. /\ at'[Sweeper][g] = at[Sweeper][g] /\ at'[Enforcer][g] = at[Enforcer][g]
      /\ \A p \in Ops \ {o} : at'[p][g] = at[p][g]
  BY Apart DEF Touches
<1>2. op' = op /\ (banJournal'[g] = banJournal[g] \/ banJournal[g] = o)  BY DEF Touches
<1>3. banJournal[g] = o => at[Sweeper][g] = "idle"  BY Apart DEF Alone
<1>4. QED  BY <1>1, <1>2, <1>3, Apart DEF Alone

\* The steps of the fan-outs, of the panel's operations on a group and of reconciliations.
LEMMA StepNames ==
  /\ G!BanSteps \subseteq G!Steps /\ G!UnbanSteps \subseteq G!Steps
      /\ G!LocalSteps \subseteq G!Steps
  /\ G!FixSteps \subseteq G!Steps /\ {"idle", "done"} \subseteq G!Steps
  BY DEF G!Steps

\* ban_one reads the policy before its call.
LEMMA BanReadKeeps ==
  ASSUME G!GlobalBansAssumption, BanInv, NEW o \in Ops, NEW g \in Groups, G!BanRead(o, g)
  PROVE  BanInv'
<1>1. at[o][g] = "ban.read" /\ op[o] = "gban"
  BY KindOf DEF G!BanRead, G!Is, BanInv, G!BanSteps, G!UnbanSteps, G!FixSteps
<1>2. /\ Touches(o, g)
      /\ banFaults' = banFaults
      /\ banJournal' = banJournal /\ due' = due /\ local' = local /\ banBanned' = banBanned
      /\ unseen' = unseen
      /\ at'[o][g] = IF banPolicy THEN "ban.call" ELSE "ban.lift"
  <2>1. banPolicy \in BOOLEAN  BY DEF BanInv, G!TypeOK, G!Wanted
  <2>2. "ban.call" \in G!Steps /\ "ban.lift" \in G!Steps  BY DEF G!Steps, G!BanSteps
  <2>3. G!Read(o, g, banPolicy, "ban.call", "ban.lift")  BY DEF G!BanRead
  <2>4. QED  BY <2>1, <2>2, <2>3, Apart, ReadDoes DEF BanInv
<1>3. /\ banPolicy' = banPolicy /\ banPolicy \in BOOLEAN /\ local[g] \in BOOLEAN
      /\ banBanned[g] \in BOOLEAN
  BY <1>2 DEF Touches, BanInv, G!TypeOK
<1>4. at'[o][g] \in OpSteps(op[o])  BY <1>1, <1>2 DEF OpSteps, G!BanSteps
<1>5. Busy(o, g)  BY <1>1 DEF Busy
<1>6. banFaults' = 0 /\ g \notin unseen' =>
        /\ Unbanned(g)' => \/ at'[o][g] \in BanAhead
                           \/ Unbanned(g) /\ at[o][g] \notin BanAhead
        /\ Outlived(g)' => \/ at'[o][g] \in LiftAhead
                           \/ Outlived(g) /\ at[o][g] \notin LiftAhead
  BY <1>1, <1>2, <1>3 DEF Unbanned, Outlived, G!Wanted, BanAhead, LiftAhead
<1>7. ASSUME Sole(o, g)  PROVE Sole(o, g)'
  <2>1. at'[Sweeper][g] = at[Sweeper][g]  BY <1>2, Apart DEF Touches
  <2>2. banPolicy
    BY <1>1, <1>2, <1>3, <1>7
    DEF Sole, WhileBanned, WhileFree, WhileLocal, G!Wanted, G!BanSteps
  <2>3. Alone(o, g)'
    BY <1>1, <1>2, <1>3, <1>7, <2>2, AloneKeeps, Apart DEF Sole, Alone, G!LocalSteps,
       G!FixSteps
  <2>4. WhileBanned(o, g)' /\ WhileLocal(o, g)'
    BY <1>1, <1>2, <1>3, <1>7, <2>1, <2>2, Apart
    DEF Sole, Alone, WhileBanned, WhileLocal, G!Wanted, G!LocalSteps
  <2>5. WhileFree(o, g)' /\ Agrees(g)'
    BY <1>1, <1>2, <1>3, <1>7, <2>1, <2>2, Apart
    DEF Sole, Alone, WhileFree, WhileBanned, Agrees, G!Wanted, G!BanSteps, G!LocalSteps
  <2>6. QED  BY <2>3, <2>4, <2>5 DEF Sole
<1>8. QED  BY <1>2, <1>4, <1>5, <1>6, <1>7, OpKeeps

\* ban_one bans, and reads the policy again.
LEMMA BanCallKeeps ==
  ASSUME G!GlobalBansAssumption, BanInv, NEW o \in Ops, NEW g \in Groups, G!BanCall(o, g)
  PROVE  BanInv'
<1>1. at[o][g] = "ban.call" /\ op[o] = "gban"
  BY KindOf DEF G!BanCall, G!Is, BanInv, G!BanSteps, G!UnbanSteps, G!FixSteps
<1>2. /\ Touches(o, g)
      /\ banJournal' = banJournal /\ due' = due /\ local' = local
      /\ \/ banFaults' = banFaults /\ banBanned'[g] = TRUE /\ at'[o][g] = "ban.again"
         \/ banFaults' # 0 /\ at'[o][g] = "done" /\ banBanned'[g] \in {banBanned[g], TRUE}
      /\ g \in unseen' <=> g \in unseen
  <2>1. "ban.again" \in G!Steps /\ "done" \in G!Steps  BY DEF G!Steps, G!BanSteps
  <2>2. G!Call(o, g, TRUE, "ban.again", "done")  BY DEF G!BanCall, G!Ban
  <2>3. G!Overlooks(o, g, TRUE) <=> FALSE  BY <1>1 DEF G!Overlooks
  <2>4. TRUE \in BOOLEAN /\ o \in G!Workers /\ G!TypeOK  BY Apart DEF BanInv
  <2>5. /\ Touches(o, g) /\ banJournal' = banJournal /\ due' = due /\ local' = local
        /\ \/ banFaults' = banFaults /\ banBanned'[g] = TRUE /\ at'[o][g] = "ban.again"
           \/ banFaults' = banFaults + 1 /\ banFaults' # 0 /\ at'[o][g] = "done"
              /\ banBanned'[g] \in {banBanned[g], TRUE}
        /\ g \in unseen' <=> g \in unseen \/ G!Overlooks(o, g, TRUE)
    BY <2>1, <2>2, <2>4, CallDoes
  <2>6. QED  BY <2>3, <2>5
<1>3. /\ banPolicy' = banPolicy /\ banPolicy \in BOOLEAN /\ local[g] \in BOOLEAN
      /\ banBanned[g] \in BOOLEAN
  BY <1>2 DEF Touches, BanInv, G!TypeOK
<1>4. at'[o][g] \in OpSteps(op[o])  BY <1>1, <1>2 DEF OpSteps, G!BanSteps
<1>5. Busy(o, g)  BY <1>1 DEF Busy
<1>6. banFaults' = 0 /\ g \notin unseen' =>
        /\ Unbanned(g)' => \/ at'[o][g] \in BanAhead
                           \/ Unbanned(g) /\ at[o][g] \notin BanAhead
        /\ Outlived(g)' => \/ at'[o][g] \in LiftAhead
                           \/ Outlived(g) /\ at[o][g] \notin LiftAhead
  BY <1>1, <1>2, <1>3 DEF Unbanned, Outlived, G!Wanted, BanAhead, LiftAhead
<1>7. ASSUME Sole(o, g)  PROVE Sole(o, g)'
  <2>1. at'[Sweeper][g] = at[Sweeper][g]  BY <1>2, Apart DEF Touches
  <2>2. banPolicy
    BY <1>1, <1>2, <1>3, <1>7
    DEF Sole, WhileBanned, WhileFree, WhileLocal, G!Wanted, G!BanSteps
  <2>3. Alone(o, g)'
    BY <1>1, <1>2, <1>3, <1>7, <2>2, AloneKeeps, Apart DEF Sole, Alone, G!LocalSteps,
       G!FixSteps
  <2>4. WhileBanned(o, g)' /\ WhileLocal(o, g)'
    BY <1>1, <1>2, <1>3, <1>7, <2>1, <2>2, Apart
    DEF Sole, Alone, WhileBanned, WhileLocal, G!Wanted, G!LocalSteps
  <2>5. WhileFree(o, g)' /\ Agrees(g)'
    BY <1>1, <1>2, <1>3, <1>7, <2>1, <2>2, Apart
    DEF Sole, Alone, WhileFree, WhileBanned, Agrees, G!Wanted, G!BanSteps, G!LocalSteps
  <2>6. QED  BY <2>3, <2>4, <2>5 DEF Sole
<1>8. QED  BY <1>2, <1>4, <1>5, <1>6, <1>7, OpKeeps

\* ban_one lifts what nobody wants any more; nothing is read after it.
LEMMA BanLiftKeeps ==
  ASSUME G!GlobalBansAssumption, BanInv, NEW o \in Ops, NEW g \in Groups, G!BanLift(o, g)
  PROVE  BanInv'
<1>1. at[o][g] = "ban.lift" /\ op[o] = "gban"
  BY KindOf DEF G!BanLift, G!Is, BanInv, G!BanSteps, G!UnbanSteps, G!FixSteps
<1>2. /\ Touches(o, g)
      /\ banJournal' = banJournal /\ due' = due /\ local' = local
      /\ \/ banFaults' = banFaults /\ banBanned'[g] = FALSE /\ at'[o][g] = "ban.restore"
         \/ banFaults' # 0 /\ at'[o][g] = "done" /\ banBanned'[g] \in {banBanned[g], FALSE}
      /\ g \in unseen' <=> g \in unseen \/ banPolicy
  <2>1. "ban.restore" \in G!Steps /\ "done" \in G!Steps  BY DEF G!Steps, G!BanSteps
  <2>2. G!Call(o, g, FALSE, "ban.restore", "done")  BY DEF G!BanLift, G!Lift
  <2>3. G!Overlooks(o, g, FALSE) <=> banPolicy  BY <1>1 DEF G!Overlooks
  <2>4. FALSE \in BOOLEAN /\ o \in G!Workers /\ G!TypeOK  BY Apart DEF BanInv
  <2>5. /\ Touches(o, g) /\ banJournal' = banJournal /\ due' = due /\ local' = local
        /\ \/ banFaults' = banFaults /\ banBanned'[g] = FALSE /\ at'[o][g] = "ban.restore"
           \/ banFaults' = banFaults + 1 /\ banFaults' # 0 /\ at'[o][g] = "done"
              /\ banBanned'[g] \in {banBanned[g], FALSE}
        /\ g \in unseen' <=> g \in unseen \/ G!Overlooks(o, g, FALSE)
    BY <2>1, <2>2, <2>4, CallDoes
  <2>6. QED  BY <2>3, <2>5
<1>3. /\ banPolicy' = banPolicy /\ banPolicy \in BOOLEAN /\ local[g] \in BOOLEAN
      /\ banBanned[g] \in BOOLEAN
  BY <1>2 DEF Touches, BanInv, G!TypeOK
<1>4. at'[o][g] \in OpSteps(op[o])  BY <1>1, <1>2 DEF OpSteps, G!BanSteps
<1>5. Busy(o, g)  BY <1>1 DEF Busy
<1>6. banFaults' = 0 /\ g \notin unseen' =>
        /\ Unbanned(g)' => \/ at'[o][g] \in BanAhead
                           \/ Unbanned(g) /\ at[o][g] \notin BanAhead
        /\ Outlived(g)' => \/ at'[o][g] \in LiftAhead
                           \/ Outlived(g) /\ at[o][g] \notin LiftAhead
  BY <1>1, <1>2, <1>3 DEF Unbanned, Outlived, G!Wanted, BanAhead, LiftAhead
<1>7. ~Sole(o, g)
  BY <1>1, <1>3 DEF Sole, WhileBanned, WhileLocal, WhileFree, G!Wanted, G!BanSteps
<1>8. QED  BY <1>2, <1>4, <1>5, <1>6, <1>7, OpKeeps

\* unban_one reads what is recorded before its call.
LEMMA UnbanReadKeeps ==
  ASSUME G!GlobalBansAssumption, BanInv, NEW o \in Ops, NEW g \in Groups, G!UnbanRead(o, g)
  PROVE  BanInv'
<1>1. at[o][g] = "unban.read" /\ op[o] = "gunban"
  BY KindOf DEF G!UnbanRead, G!Is, BanInv, G!BanSteps, G!UnbanSteps, G!FixSteps
<1>2. /\ Touches(o, g)
      /\ banFaults' = banFaults
      /\ banJournal' = banJournal /\ due' = due /\ local' = local /\ banBanned' = banBanned
      /\ unseen' = unseen
      /\ at'[o][g] = IF G!Wanted(g) THEN "unban.reban" ELSE "unban.call"
  <2>1. G!Wanted(g) \in BOOLEAN  BY DEF BanInv, G!TypeOK, G!Wanted
  <2>2. "unban.reban" \in G!Steps /\ "unban.call" \in G!Steps  BY DEF G!Steps, G!UnbanSteps
  <2>3. G!Read(o, g, G!Wanted(g), "unban.reban", "unban.call")  BY DEF G!UnbanRead
  <2>4. QED  BY <2>1, <2>2, <2>3, Apart, ReadDoes DEF BanInv
<1>3. /\ banPolicy' = banPolicy /\ banPolicy \in BOOLEAN /\ local[g] \in BOOLEAN
      /\ banBanned[g] \in BOOLEAN
  BY <1>2 DEF Touches, BanInv, G!TypeOK
<1>4. at'[o][g] \in OpSteps(op[o])  BY <1>1, <1>2 DEF OpSteps, G!UnbanSteps
<1>5. Busy(o, g)  BY <1>1 DEF Busy
<1>6. banFaults' = 0 /\ g \notin unseen' =>
        /\ Unbanned(g)' => \/ at'[o][g] \in BanAhead
                           \/ Unbanned(g) /\ at[o][g] \notin BanAhead
        /\ Outlived(g)' => \/ at'[o][g] \in LiftAhead
                           \/ Outlived(g) /\ at[o][g] \notin LiftAhead
  BY <1>1, <1>2, <1>3 DEF Unbanned, Outlived, G!Wanted, BanAhead, LiftAhead
<1>7. ASSUME Sole(o, g)  PROVE Sole(o, g)'
  <2>1. at'[Sweeper][g] = at[Sweeper][g]  BY <1>2, Apart DEF Touches
  <2>2. ~G!Wanted(g)
    BY <1>1, <1>2, <1>3, <1>7
    DEF Sole, WhileBanned, WhileFree, WhileLocal, G!Wanted, G!BanSteps
  <2>3. Alone(o, g)'
    BY <1>1, <1>2, <1>3, <1>7, <2>2, AloneKeeps, Apart DEF Sole, Alone, G!LocalSteps,
       G!FixSteps
  <2>4. WhileBanned(o, g)' /\ WhileLocal(o, g)'
    BY <1>1, <1>2, <1>3, <1>7, <2>1, <2>2, Apart
    DEF Sole, Alone, WhileBanned, WhileLocal, G!Wanted, G!LocalSteps
  <2>5. WhileFree(o, g)' /\ Agrees(g)'
    BY <1>1, <1>2, <1>3, <1>7, <2>1, <2>2, Apart
    DEF Sole, Alone, WhileFree, WhileBanned, Agrees, G!Wanted, G!BanSteps, G!LocalSteps
  <2>6. QED  BY <2>3, <2>4, <2>5 DEF Sole
<1>8. QED  BY <1>2, <1>4, <1>5, <1>6, <1>7, OpKeeps

\* unban_one lifts the ban, and reads what is recorded again.
LEMMA UnbanCallKeeps ==
  ASSUME G!GlobalBansAssumption, BanInv, NEW o \in Ops, NEW g \in Groups, G!UnbanCall(o, g)
  PROVE  BanInv'
<1>1. at[o][g] = "unban.call" /\ op[o] = "gunban"
  BY KindOf DEF G!UnbanCall, G!Is, BanInv, G!BanSteps, G!UnbanSteps, G!FixSteps
<1>2. /\ Touches(o, g)
      /\ banJournal' = banJournal /\ due' = due /\ local' = local
      /\ \/ banFaults' = banFaults /\ banBanned'[g] = FALSE /\ at'[o][g] = "unban.again"
         \/ banFaults' # 0 /\ at'[o][g] = "unban.failed"
             /\ banBanned'[g] \in {banBanned[g], FALSE}
      /\ g \in unseen' <=> g \in unseen
  <2>1. "unban.again" \in G!Steps /\ "unban.failed" \in G!Steps  BY DEF G!Steps, G!UnbanSteps
  <2>2. G!Call(o, g, FALSE, "unban.again", "unban.failed")  BY DEF G!UnbanCall, G!Lift
  <2>3. G!Overlooks(o, g, FALSE) <=> FALSE  BY <1>1 DEF G!Overlooks
  <2>4. FALSE \in BOOLEAN /\ o \in G!Workers /\ G!TypeOK  BY Apart DEF BanInv
  <2>5. /\ Touches(o, g) /\ banJournal' = banJournal /\ due' = due /\ local' = local
        /\ \/ banFaults' = banFaults /\ banBanned'[g] = FALSE /\ at'[o][g] = "unban.again"
           \/ banFaults' = banFaults + 1 /\ banFaults' # 0 /\ at'[o][g] = "unban.failed"
              /\ banBanned'[g] \in {banBanned[g], FALSE}
        /\ g \in unseen' <=> g \in unseen \/ G!Overlooks(o, g, FALSE)
    BY <2>1, <2>2, <2>4, CallDoes
  <2>6. QED  BY <2>3, <2>5
<1>3. /\ banPolicy' = banPolicy /\ banPolicy \in BOOLEAN /\ local[g] \in BOOLEAN
      /\ banBanned[g] \in BOOLEAN
  BY <1>2 DEF Touches, BanInv, G!TypeOK
<1>4. at'[o][g] \in OpSteps(op[o])  BY <1>1, <1>2 DEF OpSteps, G!UnbanSteps
<1>5. Busy(o, g)  BY <1>1 DEF Busy
<1>6. banFaults' = 0 /\ g \notin unseen' =>
        /\ Unbanned(g)' => \/ at'[o][g] \in BanAhead
                           \/ Unbanned(g) /\ at[o][g] \notin BanAhead
        /\ Outlived(g)' => \/ at'[o][g] \in LiftAhead
                           \/ Outlived(g) /\ at[o][g] \notin LiftAhead
  BY <1>1, <1>2, <1>3 DEF Unbanned, Outlived, G!Wanted, BanAhead, LiftAhead
<1>7. ASSUME Sole(o, g)  PROVE Sole(o, g)'
  <2>1. at'[Sweeper][g] = at[Sweeper][g]  BY <1>2, Apart DEF Touches
  <2>2. ~G!Wanted(g)
    BY <1>1, <1>2, <1>3, <1>7
    DEF Sole, WhileBanned, WhileFree, WhileLocal, G!Wanted, G!BanSteps
  <2>3. Alone(o, g)'
    BY <1>1, <1>2, <1>3, <1>7, <2>2, AloneKeeps, Apart DEF Sole, Alone, G!LocalSteps,
       G!FixSteps
  <2>4. WhileBanned(o, g)' /\ WhileLocal(o, g)'
    BY <1>1, <1>2, <1>3, <1>7, <2>1, <2>2, Apart
    DEF Sole, Alone, WhileBanned, WhileLocal, G!Wanted, G!LocalSteps
  <2>5. WhileFree(o, g)' /\ Agrees(g)'
    BY <1>1, <1>2, <1>3, <1>7, <2>1, <2>2, Apart
    DEF Sole, Alone, WhileFree, WhileBanned, Agrees, G!Wanted, G!BanSteps, G!LocalSteps
  <2>6. QED  BY <2>3, <2>4, <2>5 DEF Sole
<1>8. QED  BY <1>2, <1>4, <1>5, <1>6, <1>7, OpKeeps

\* unban_one bans again; nothing is read after it.
LEMMA UnbanRebanKeeps ==
  ASSUME G!GlobalBansAssumption, BanInv, NEW o \in Ops, NEW g \in Groups, G!UnbanReban(o, g)
  PROVE  BanInv'
<1>1. at[o][g] = "unban.reban" /\ op[o] = "gunban"
  BY KindOf DEF G!UnbanReban, G!Is, BanInv, G!BanSteps, G!UnbanSteps, G!FixSteps
<1>2. /\ Touches(o, g)
      /\ banJournal' = banJournal /\ due' = due /\ local' = local
      /\ \/ banFaults' = banFaults /\ banBanned'[g] = TRUE /\ at'[o][g] = "done"
         \/ banFaults' # 0 /\ at'[o][g] = "done" /\ banBanned'[g] \in {banBanned[g], TRUE}
      /\ g \in unseen' <=> g \in unseen \/ ~G!Wanted(g)
  <2>1. "done" \in G!Steps /\ "done" \in G!Steps  BY DEF G!Steps, G!BanSteps
  <2>2. G!Call(o, g, TRUE, "done", "done")  BY DEF G!UnbanReban, G!Ban
  <2>3. G!Overlooks(o, g, TRUE) <=> ~G!Wanted(g)  BY <1>1 DEF G!Overlooks
  <2>4. TRUE \in BOOLEAN /\ o \in G!Workers /\ G!TypeOK  BY Apart DEF BanInv
  <2>5. /\ Touches(o, g) /\ banJournal' = banJournal /\ due' = due /\ local' = local
        /\ \/ banFaults' = banFaults /\ banBanned'[g] = TRUE /\ at'[o][g] = "done"
           \/ banFaults' = banFaults + 1 /\ banFaults' # 0 /\ at'[o][g] = "done"
              /\ banBanned'[g] \in {banBanned[g], TRUE}
        /\ g \in unseen' <=> g \in unseen \/ G!Overlooks(o, g, TRUE)
    BY <2>1, <2>2, <2>4, CallDoes
  <2>6. QED  BY <2>3, <2>5
<1>3. /\ banPolicy' = banPolicy /\ banPolicy \in BOOLEAN /\ local[g] \in BOOLEAN
      /\ banBanned[g] \in BOOLEAN
  BY <1>2 DEF Touches, BanInv, G!TypeOK
<1>4. at'[o][g] \in OpSteps(op[o])  BY <1>1, <1>2 DEF OpSteps, G!UnbanSteps
<1>5. Busy(o, g)  BY <1>1 DEF Busy
<1>6. banFaults' = 0 /\ g \notin unseen' =>
        /\ Unbanned(g)' => \/ at'[o][g] \in BanAhead
                           \/ Unbanned(g) /\ at[o][g] \notin BanAhead
        /\ Outlived(g)' => \/ at'[o][g] \in LiftAhead
                           \/ Outlived(g) /\ at[o][g] \notin LiftAhead
  BY <1>1, <1>2, <1>3 DEF Unbanned, Outlived, G!Wanted, BanAhead, LiftAhead
<1>7. ~Sole(o, g)
  BY <1>1, <1>3 DEF Sole, WhileBanned, WhileLocal, WhileFree, G!Wanted, G!BanSteps
<1>8. QED  BY <1>2, <1>4, <1>5, <1>6, <1>7, OpKeeps

\* create_group_ban bans before it records the ban.
LEMMA SetCallKeeps ==
  ASSUME G!GlobalBansAssumption, BanInv, NEW o \in Ops, NEW g \in Groups, G!SetCall(o, g)
  PROVE  BanInv'
<1>1. at[o][g] = "set.call" /\ op[o] = "ban"
  BY KindOf DEF G!SetCall, G!Is, BanInv, G!BanSteps, G!UnbanSteps, G!FixSteps
<1>2. /\ Touches(o, g)
      /\ banJournal' = banJournal /\ due' = due /\ local' = local
      /\ \/ banFaults' = banFaults /\ banBanned'[g] = TRUE /\ at'[o][g] = "set.record"
         \/ banFaults' # 0 /\ at'[o][g] = "done" /\ banBanned'[g] \in {banBanned[g], TRUE}
      /\ g \in unseen' <=> g \in unseen
  <2>1. "set.record" \in G!Steps /\ "done" \in G!Steps  BY DEF G!Steps, G!LocalSteps
  <2>2. G!Call(o, g, TRUE, "set.record", "done")  BY DEF G!SetCall, G!Ban
  <2>3. G!Overlooks(o, g, TRUE) <=> FALSE  BY <1>1 DEF G!Overlooks
  <2>4. TRUE \in BOOLEAN /\ o \in G!Workers /\ G!TypeOK  BY Apart DEF BanInv
  <2>5. /\ Touches(o, g) /\ banJournal' = banJournal /\ due' = due /\ local' = local
        /\ \/ banFaults' = banFaults /\ banBanned'[g] = TRUE /\ at'[o][g] = "set.record"
           \/ banFaults' = banFaults + 1 /\ banFaults' # 0 /\ at'[o][g] = "done"
              /\ banBanned'[g] \in {banBanned[g], TRUE}
        /\ g \in unseen' <=> g \in unseen \/ G!Overlooks(o, g, TRUE)
    BY <2>1, <2>2, <2>4, CallDoes
  <2>6. QED  BY <2>3, <2>5
<1>3. /\ banPolicy' = banPolicy /\ banPolicy \in BOOLEAN /\ local[g] \in BOOLEAN
      /\ banBanned[g] \in BOOLEAN
  BY <1>2 DEF Touches, BanInv, G!TypeOK
<1>4. at'[o][g] \in OpSteps(op[o])  BY <1>1, <1>2 DEF OpSteps, G!FixSteps
<1>5. Busy(o, g)  BY <1>1 DEF Busy
<1>6. banFaults' = 0 /\ g \notin unseen' =>
        /\ Unbanned(g)' => \/ at'[o][g] \in BanAhead
                           \/ Unbanned(g) /\ at[o][g] \notin BanAhead
        /\ Outlived(g)' => \/ at'[o][g] \in LiftAhead
                           \/ Outlived(g) /\ at[o][g] \notin LiftAhead
  BY <1>1, <1>2, <1>3 DEF Unbanned, Outlived, G!Wanted, BanAhead, LiftAhead
<1>7. ASSUME Sole(o, g)  PROVE Sole(o, g)'
  <2>1. at'[Sweeper][g] = at[Sweeper][g]  BY <1>2, Apart DEF Touches
  <2>2. ~G!Wanted(g)
    BY <1>1, <1>2, <1>3, <1>7
    DEF Sole, WhileBanned, WhileFree, WhileLocal, G!Wanted, G!BanSteps
  <2>3. Alone(o, g)'
    BY <1>1, <1>2, <1>3, <1>7, <2>2, AloneKeeps, Apart DEF Sole, Alone, G!LocalSteps,
       G!FixSteps
  <2>4. WhileBanned(o, g)' /\ WhileLocal(o, g)'
    BY <1>1, <1>2, <1>3, <1>7, <2>1, <2>2, Apart
    DEF Sole, Alone, WhileBanned, WhileLocal, G!Wanted, G!LocalSteps
  <2>5. WhileFree(o, g)' /\ Agrees(g)'
    BY <1>1, <1>2, <1>3, <1>7, <2>1, <2>2, Apart
    DEF Sole, Alone, WhileFree, WhileBanned, Agrees, G!Wanted, G!BanSteps, G!LocalSteps
  <2>6. QED  BY <2>3, <2>4, <2>5 DEF Sole
<1>8. QED  BY <1>2, <1>4, <1>5, <1>6, <1>7, OpKeeps

\* delete_group_ban lifts before it clears the record.
LEMMA ClearCallKeeps ==
  ASSUME G!GlobalBansAssumption, BanInv, NEW o \in Ops, NEW g \in Groups, G!ClearCall(o, g)
  PROVE  BanInv'
<1>1. at[o][g] = "clear.call" /\ op[o] = "unban"
  BY KindOf DEF G!ClearCall, G!Is, BanInv, G!BanSteps, G!UnbanSteps, G!FixSteps
<1>2. /\ Touches(o, g)
      /\ banJournal' = banJournal /\ due' = due /\ local' = local
      /\ \/ banFaults' = banFaults /\ banBanned'[g] = FALSE /\ at'[o][g] = "clear.record"
         \/ banFaults' # 0 /\ at'[o][g] = "done" /\ banBanned'[g] \in {banBanned[g], FALSE}
      /\ g \in unseen' <=> g \in unseen
  <2>1. "clear.record" \in G!Steps /\ "done" \in G!Steps  BY DEF G!Steps, G!LocalSteps
  <2>2. G!Call(o, g, FALSE, "clear.record", "done")  BY DEF G!ClearCall, G!Lift
  <2>3. G!Overlooks(o, g, FALSE) <=> FALSE  BY <1>1 DEF G!Overlooks
  <2>4. FALSE \in BOOLEAN /\ o \in G!Workers /\ G!TypeOK  BY Apart DEF BanInv
  <2>5. /\ Touches(o, g) /\ banJournal' = banJournal /\ due' = due /\ local' = local
        /\ \/ banFaults' = banFaults /\ banBanned'[g] = FALSE /\ at'[o][g] = "clear.record"
           \/ banFaults' = banFaults + 1 /\ banFaults' # 0 /\ at'[o][g] = "done"
              /\ banBanned'[g] \in {banBanned[g], FALSE}
        /\ g \in unseen' <=> g \in unseen \/ G!Overlooks(o, g, FALSE)
    BY <2>1, <2>2, <2>4, CallDoes
  <2>6. QED  BY <2>3, <2>5
<1>3. /\ banPolicy' = banPolicy /\ banPolicy \in BOOLEAN /\ local[g] \in BOOLEAN
      /\ banBanned[g] \in BOOLEAN
  BY <1>2 DEF Touches, BanInv, G!TypeOK
<1>4. at'[o][g] \in OpSteps(op[o])  BY <1>1, <1>2 DEF OpSteps
<1>5. Busy(o, g)  BY <1>1 DEF Busy
<1>6. banFaults' = 0 /\ g \notin unseen' =>
        /\ Unbanned(g)' => \/ at'[o][g] \in BanAhead
                           \/ Unbanned(g) /\ at[o][g] \notin BanAhead
        /\ Outlived(g)' => \/ at'[o][g] \in LiftAhead
                           \/ Outlived(g) /\ at[o][g] \notin LiftAhead
  BY <1>1, <1>2, <1>3 DEF Unbanned, Outlived, G!Wanted, BanAhead, LiftAhead
<1>7. ASSUME Sole(o, g)  PROVE Sole(o, g)'
  <2>1. at'[Sweeper][g] = at[Sweeper][g]  BY <1>2, Apart DEF Touches
  <2>2. ~G!Wanted(g)
    BY <1>1, <1>2, <1>3, <1>7
    DEF Sole, WhileBanned, WhileFree, WhileLocal, G!Wanted, G!BanSteps
  <2>3. Alone(o, g)'
    BY <1>1, <1>2, <1>3, <1>7, <2>2, AloneKeeps, Apart DEF Sole, Alone, G!LocalSteps,
       G!FixSteps
  <2>4. WhileBanned(o, g)' /\ WhileLocal(o, g)'
    BY <1>1, <1>2, <1>3, <1>7, <2>1, <2>2, Apart
    DEF Sole, Alone, WhileBanned, WhileLocal, G!Wanted, G!LocalSteps
  <2>5. WhileFree(o, g)' /\ Agrees(g)'
    BY <1>1, <1>2, <1>3, <1>7, <2>1, <2>2, Apart
    DEF Sole, Alone, WhileFree, WhileBanned, Agrees, G!Wanted, G!BanSteps, G!LocalSteps
  <2>6. QED  BY <2>3, <2>4, <2>5 DEF Sole
<1>8. QED  BY <1>2, <1>4, <1>5, <1>6, <1>7, OpKeeps

\* delete_group_ban bans again; nothing is read after it.
LEMMA ClearRebanKeeps ==
  ASSUME G!GlobalBansAssumption, BanInv, NEW o \in Ops, NEW g \in Groups, G!ClearReban(o, g)
  PROVE  BanInv'
<1>1. at[o][g] = "clear.reban" /\ op[o] = "unban"
  BY KindOf DEF G!ClearReban, G!Is, BanInv, G!BanSteps, G!UnbanSteps, G!FixSteps
<1>2. /\ Touches(o, g)
      /\ banJournal' = banJournal /\ due' = due /\ local' = local
      /\ \/ banFaults' = banFaults /\ banBanned'[g] = TRUE /\ at'[o][g] = "done"
         \/ banFaults' # 0 /\ at'[o][g] = "done" /\ banBanned'[g] \in {banBanned[g], TRUE}
      /\ g \in unseen' <=> g \in unseen \/ ~G!Wanted(g)
  <2>1. "done" \in G!Steps /\ "done" \in G!Steps  BY DEF G!Steps, G!BanSteps
  <2>2. G!Call(o, g, TRUE, "done", "done")  BY DEF G!ClearReban, G!Ban
  <2>3. G!Overlooks(o, g, TRUE) <=> ~G!Wanted(g)  BY <1>1 DEF G!Overlooks
  <2>4. TRUE \in BOOLEAN /\ o \in G!Workers /\ G!TypeOK  BY Apart DEF BanInv
  <2>5. /\ Touches(o, g) /\ banJournal' = banJournal /\ due' = due /\ local' = local
        /\ \/ banFaults' = banFaults /\ banBanned'[g] = TRUE /\ at'[o][g] = "done"
           \/ banFaults' = banFaults + 1 /\ banFaults' # 0 /\ at'[o][g] = "done"
              /\ banBanned'[g] \in {banBanned[g], TRUE}
        /\ g \in unseen' <=> g \in unseen \/ G!Overlooks(o, g, TRUE)
    BY <2>1, <2>2, <2>4, CallDoes
  <2>6. QED  BY <2>3, <2>5
<1>3. /\ banPolicy' = banPolicy /\ banPolicy \in BOOLEAN /\ local[g] \in BOOLEAN
      /\ banBanned[g] \in BOOLEAN
  BY <1>2 DEF Touches, BanInv, G!TypeOK
<1>4. at'[o][g] \in OpSteps(op[o])  BY <1>1, <1>2 DEF OpSteps
<1>5. Busy(o, g)  BY <1>1 DEF Busy
<1>6. banFaults' = 0 /\ g \notin unseen' =>
        /\ Unbanned(g)' => \/ at'[o][g] \in BanAhead
                           \/ Unbanned(g) /\ at[o][g] \notin BanAhead
        /\ Outlived(g)' => \/ at'[o][g] \in LiftAhead
                           \/ Outlived(g) /\ at[o][g] \notin LiftAhead
  BY <1>1, <1>2, <1>3 DEF Unbanned, Outlived, G!Wanted, BanAhead, LiftAhead
<1>7. ~Sole(o, g)
  BY <1>1, <1>3 DEF Sole, WhileBanned, WhileLocal, WhileFree, G!Wanted, G!BanSteps
<1>8. QED  BY <1>2, <1>4, <1>5, <1>6, <1>7, OpKeeps

\* A call the policy still wants completes the journal.
LEMMA BanAgainKeeps ==
  ASSUME G!GlobalBansAssumption, BanInv, NEW o \in Ops, NEW g \in Groups, G!BanAgain(o, g)
  PROVE  BanInv'
<1>1. at[o][g] = "ban.again" /\ op[o] = "gban"
  BY KindOf DEF G!BanAgain, G!Is, BanInv, G!BanSteps, G!UnbanSteps, G!FixSteps
<1>2. /\ Touches(o, g)
      /\ due' = due /\ banBanned' = banBanned /\ local'[g] = (local[g])
      /\ at'[o][g] = IF banPolicy THEN "done" ELSE "ban.lift"
      /\ banFaults' = banFaults
      /\ banJournal[g] # o \/ ~banPolicy => banJournal'[g] = banJournal[g]
      /\ banJournal[g] = o /\ banPolicy => banJournal'[g] = NoLease
      /\ g \in unseen' <=> g \in unseen
  <2>1. /\ banPolicy \in BOOLEAN /\ (local[g]) \in BOOLEAN /\ local \in [Groups -> BOOLEAN]
        /\ unseen \subseteq Groups
    BY DEF BanInv, G!TypeOK, G!Owns, G!Seen
  <2> DEFINE s == IF banPolicy THEN "done" ELSE "ban.lift"
             b == local[g]
  <2>2. s \in G!Steps  BY DEF G!Steps, G!BanSteps
  <2>3. /\ G!Go(o, g, s) /\ local' = [local EXCEPT ![g] = b]
        /\ UNCHANGED <<banPolicy, due, G!steady, banBanned>>
    BY <1>1, <2>1 DEF G!BanAgain, G!Mark, G!policies, G!settled
  <2>4. G!Overlooked(g, unseen' # unseen) /\ (g \in unseen' <=> g \in unseen)
    BY <1>1, <2>1 DEF G!BanAgain, G!Overlooked, G!settled
  <2>5. /\ G!Worked \/ G!Fails
        /\ G!Complete(o, g) \/ banJournal' = banJournal
    BY <1>1 DEF G!BanAgain, G!Is, G!journals, G!Worked
  <2>6. G!TypeOK /\ o \in G!Workers /\ b \in BOOLEAN  BY <2>1, Apart DEF BanInv
  <2> HIDE DEF s, b
  <2>7. /\ Touches(o, g) /\ due' = due /\ banBanned' = banBanned /\ local'[g] = b
        /\ at'[o][g] = s
        /\ G!Fails => banFaults' # 0
        /\ G!Worked => banFaults' = banFaults
        /\ banJournal[g] # o => banJournal'[g] = banJournal[g]
        /\ G!Complete(o, g) /\ banJournal[g] = o => banJournal'[g] = NoLease
    BY <2>2, <2>3, <2>4, <2>5, <2>6, WriteDoes
  <2>8. QED  BY <1>1, <2>4, <2>7 DEF G!BanAgain, s, b, G!journals, G!Owns
<1>3. /\ banPolicy' = banPolicy /\ banPolicy \in BOOLEAN /\ local[g] \in BOOLEAN
      /\ banBanned[g] \in BOOLEAN
  BY <1>2 DEF Touches, BanInv, G!TypeOK
<1>4. at'[o][g] \in OpSteps(op[o])  BY <1>1, <1>2 DEF OpSteps, G!BanSteps
<1>5. Busy(o, g)  BY <1>1 DEF Busy
<1>6. banFaults' = 0 /\ g \notin unseen' =>
        /\ Unbanned(g)' => \/ at'[o][g] \in BanAhead
                           \/ Unbanned(g) /\ at[o][g] \notin BanAhead
        /\ Outlived(g)' => \/ at'[o][g] \in LiftAhead
                           \/ Outlived(g) /\ at[o][g] \notin LiftAhead
  BY <1>1, <1>2, <1>3 DEF Unbanned, Outlived, G!Wanted, BanAhead, LiftAhead
<1>7. ASSUME Sole(o, g)  PROVE Sole(o, g)'
  <2>1. at'[Sweeper][g] = at[Sweeper][g]  BY <1>2, Apart DEF Touches
  <2>2. banPolicy
    BY <1>1, <1>2, <1>3, <1>7
    DEF Sole, WhileBanned, WhileFree, WhileLocal, G!Wanted, G!BanSteps
  <2>3. Alone(o, g)'
    BY <1>1, <1>2, <1>3, <1>7, <2>2, AloneKeeps, Apart DEF Sole, Alone, G!LocalSteps,
       G!FixSteps
  <2>4. WhileBanned(o, g)' /\ WhileLocal(o, g)'
    BY <1>1, <1>2, <1>3, <1>7, <2>1, <2>2, Apart
    DEF Sole, Alone, WhileBanned, WhileLocal, G!Wanted, G!LocalSteps
  <2>5. WhileFree(o, g)' /\ Agrees(g)'
    BY <1>1, <1>2, <1>3, <1>7, <2>1, <2>2, Apart
    DEF Sole, Alone, WhileFree, WhileBanned, Agrees, G!Wanted, G!BanSteps, G!LocalSteps
  <2>6. QED  BY <2>3, <2>4, <2>5 DEF Sole
<1>8. QED  BY <1>2, <1>4, <1>5, <1>6, <1>7, OpKeeps

\* The journal is completed whatever the restoration did.
LEMMA BanRestoreKeeps ==
  ASSUME G!GlobalBansAssumption, BanInv, NEW o \in Ops, NEW g \in Groups, G!BanRestore(o, g)
  PROVE  BanInv'
<1>1. at[o][g] = "ban.restore" /\ op[o] = "gban"
  BY KindOf DEF G!BanRestore, G!Is, BanInv, G!BanSteps, G!UnbanSteps, G!FixSteps
<1>2. /\ Touches(o, g)
      /\ due' = due /\ banBanned' = banBanned /\ local'[g] = (local[g])
      /\ at'[o][g] = "done"
      /\ banJournal[g] # o => banJournal'[g] = banJournal[g]
      /\ banJournal[g] = o => banJournal'[g] = NoLease
      /\ g \in unseen' <=> g \in unseen
  <2>1. /\ banPolicy \in BOOLEAN /\ (local[g]) \in BOOLEAN /\ local \in [Groups -> BOOLEAN]
        /\ unseen \subseteq Groups
    BY DEF BanInv, G!TypeOK, G!Owns, G!Seen
  <2> DEFINE s == "done"
             b == local[g]
  <2>2. s \in G!Steps  BY DEF G!Steps, G!BanSteps
  <2>3. /\ G!Go(o, g, s) /\ local' = [local EXCEPT ![g] = b]
        /\ UNCHANGED <<banPolicy, due, G!steady, banBanned>>
    BY <1>1, <2>1 DEF G!BanRestore, G!Mark, G!policies, G!settled
  <2>4. G!Overlooked(g, unseen' # unseen) /\ (g \in unseen' <=> g \in unseen)
    BY <1>1, <2>1 DEF G!BanRestore, G!Overlooked, G!settled
  <2>5. /\ G!Worked \/ G!Fails
        /\ G!Complete(o, g) \/ banJournal' = banJournal
    BY <1>1 DEF G!BanRestore, G!Is, G!journals, G!Worked
  <2>6. G!TypeOK /\ o \in G!Workers /\ b \in BOOLEAN  BY <2>1, Apart DEF BanInv
  <2> HIDE DEF s, b
  <2>7. /\ Touches(o, g) /\ due' = due /\ banBanned' = banBanned /\ local'[g] = b
        /\ at'[o][g] = s
        /\ G!Fails => banFaults' # 0
        /\ G!Worked => banFaults' = banFaults
        /\ banJournal[g] # o => banJournal'[g] = banJournal[g]
        /\ G!Complete(o, g) /\ banJournal[g] = o => banJournal'[g] = NoLease
    BY <2>2, <2>3, <2>4, <2>5, <2>6, WriteDoes
  <2>8. QED  BY <1>1, <2>4, <2>7 DEF G!BanRestore, s, b, G!journals, G!Owns
<1>3. /\ banPolicy' = banPolicy /\ banPolicy \in BOOLEAN /\ local[g] \in BOOLEAN
      /\ banBanned[g] \in BOOLEAN
  BY <1>2 DEF Touches, BanInv, G!TypeOK
<1>4. at'[o][g] \in OpSteps(op[o])  BY <1>1, <1>2 DEF OpSteps, G!BanSteps
<1>5. Busy(o, g)  BY <1>1 DEF Busy
<1>6. banFaults' = 0 /\ g \notin unseen' =>
        /\ Unbanned(g)' => \/ at'[o][g] \in BanAhead
                           \/ Unbanned(g) /\ at[o][g] \notin BanAhead
        /\ Outlived(g)' => \/ at'[o][g] \in LiftAhead
                           \/ Outlived(g) /\ at[o][g] \notin LiftAhead
  BY <1>1, <1>2, <1>3 DEF Unbanned, Outlived, G!Wanted, BanAhead, LiftAhead
<1>7. ~Sole(o, g)
  BY <1>1, <1>3 DEF Sole, WhileBanned, WhileLocal, WhileFree, G!Wanted, G!BanSteps
<1>8. QED  BY <1>2, <1>4, <1>5, <1>6, <1>7, OpKeeps

\* The journal is completed when the restoration succeeded.
LEMMA UnbanRestoreKeeps ==
  ASSUME G!GlobalBansAssumption, BanInv, NEW o \in Ops, NEW g \in Groups, G!UnbanRestore(o, g)
  PROVE  BanInv'
<1>1. at[o][g] = "unban.restore" /\ op[o] = "gunban"
  BY KindOf DEF G!UnbanRestore, G!Is, BanInv, G!BanSteps, G!UnbanSteps, G!FixSteps
<1>2. /\ Touches(o, g)
      /\ due' = due /\ banBanned' = banBanned /\ local'[g] = (local[g])
      /\ at'[o][g] = "done"
      /\ banJournal[g] # o => banJournal'[g] = banJournal[g]
      /\ banJournal[g] = o => banJournal'[g] \in {o, NoLease}
      /\ g \in unseen' <=> g \in unseen
  <2>1. /\ banPolicy \in BOOLEAN /\ (local[g]) \in BOOLEAN /\ local \in [Groups -> BOOLEAN]
        /\ unseen \subseteq Groups
    BY DEF BanInv, G!TypeOK, G!Owns, G!Seen
  <2> DEFINE s == "done"
             b == local[g]
  <2>2. s \in G!Steps  BY DEF G!Steps, G!UnbanSteps
  <2>3. /\ G!Go(o, g, s) /\ local' = [local EXCEPT ![g] = b]
        /\ UNCHANGED <<banPolicy, due, G!steady, banBanned>>
    BY <1>1, <2>1 DEF G!UnbanRestore, G!Mark, G!policies, G!settled
  <2>4. G!Overlooked(g, unseen' # unseen) /\ (g \in unseen' <=> g \in unseen)
    BY <1>1, <2>1 DEF G!UnbanRestore, G!Overlooked, G!settled
  <2>5. /\ G!Worked \/ G!Fails
        /\ G!Complete(o, g) \/ banJournal' = banJournal
    BY <1>1 DEF G!UnbanRestore, G!Is, G!journals, G!Worked
  <2>6. G!TypeOK /\ o \in G!Workers /\ b \in BOOLEAN  BY <2>1, Apart DEF BanInv
  <2> HIDE DEF s, b
  <2>7. /\ Touches(o, g) /\ due' = due /\ banBanned' = banBanned /\ local'[g] = b
        /\ at'[o][g] = s
        /\ G!Fails => banFaults' # 0
        /\ G!Worked => banFaults' = banFaults
        /\ banJournal[g] # o => banJournal'[g] = banJournal[g]
        /\ G!Complete(o, g) /\ banJournal[g] = o => banJournal'[g] = NoLease
    BY <2>2, <2>3, <2>4, <2>5, <2>6, WriteDoes
  <2>8. QED  BY <1>1, <2>4, <2>7 DEF G!UnbanRestore, s, b, G!journals, G!Owns
<1>3. /\ banPolicy' = banPolicy /\ banPolicy \in BOOLEAN /\ local[g] \in BOOLEAN
      /\ banBanned[g] \in BOOLEAN
  BY <1>2 DEF Touches, BanInv, G!TypeOK
<1>4. at'[o][g] \in OpSteps(op[o])  BY <1>1, <1>2 DEF OpSteps, G!UnbanSteps
<1>5. Busy(o, g)  BY <1>1 DEF Busy
<1>6. banFaults' = 0 /\ g \notin unseen' =>
        /\ Unbanned(g)' => \/ at'[o][g] \in BanAhead
                           \/ Unbanned(g) /\ at[o][g] \notin BanAhead
        /\ Outlived(g)' => \/ at'[o][g] \in LiftAhead
                           \/ Outlived(g) /\ at[o][g] \notin LiftAhead
  BY <1>1, <1>2, <1>3 DEF Unbanned, Outlived, G!Wanted, BanAhead, LiftAhead
<1>7. ASSUME Sole(o, g)  PROVE Sole(o, g)'
  <2>1. at'[Sweeper][g] = at[Sweeper][g]  BY <1>2, Apart DEF Touches
  <2>2. ~G!Wanted(g)
    BY <1>1, <1>2, <1>3, <1>7
    DEF Sole, WhileBanned, WhileFree, WhileLocal, G!Wanted, G!BanSteps
  <2>3. Alone(o, g)'
    BY <1>1, <1>2, <1>3, <1>7, <2>2, AloneKeeps, Apart DEF Sole, Alone, G!LocalSteps,
       G!FixSteps
  <2>4. WhileBanned(o, g)' /\ WhileLocal(o, g)'
    BY <1>1, <1>2, <1>3, <1>7, <2>1, <2>2, Apart
    DEF Sole, Alone, WhileBanned, WhileLocal, G!Wanted, G!LocalSteps
  <2>5. WhileFree(o, g)' /\ Agrees(g)'
    BY <1>1, <1>2, <1>3, <1>7, <2>1, <2>2, Apart
    DEF Sole, Alone, WhileFree, WhileBanned, Agrees, G!Wanted, G!BanSteps, G!LocalSteps
  <2>6. QED  BY <2>3, <2>4, <2>5 DEF Sole
<1>8. QED  BY <1>2, <1>4, <1>5, <1>6, <1>7, OpKeeps

\* create_group_ban records the ban while the journal is its own.
LEMMA SetRecordKeeps ==
  ASSUME G!GlobalBansAssumption, BanInv, NEW o \in Ops, NEW g \in Groups, G!SetRecord(o, g)
  PROVE  BanInv'
<1>1. at[o][g] = "set.record" /\ op[o] = "ban"
  BY KindOf DEF G!SetRecord, G!Is, BanInv, G!BanSteps, G!UnbanSteps, G!FixSteps
<1>2. /\ Touches(o, g)
      /\ due' = due /\ banBanned' = banBanned /\ local'[g] = (local[g] \/ G!Owns(o, g))
      /\ at'[o][g] = IF G!Owns(o, g) THEN "done" ELSE "fix.read"
      /\ banJournal[g] # o => banJournal'[g] = banJournal[g]
      /\ banJournal[g] = o => banJournal'[g] = NoLease
      /\ g \in unseen' <=> g \in unseen
  <2>1. /\ banPolicy \in BOOLEAN /\ (local[g] \/ G!Owns(o, g)) \in BOOLEAN
        /\ local \in [Groups -> BOOLEAN]
        /\ unseen \subseteq Groups
    BY DEF BanInv, G!TypeOK, G!Owns, G!Seen
  <2> DEFINE s == IF G!Owns(o, g) THEN "done" ELSE "fix.read"
             b == local[g] \/ G!Owns(o, g)
  <2>2. s \in G!Steps  BY DEF G!Steps, G!FixSteps
  <2>3. /\ G!Go(o, g, s) /\ local' = [local EXCEPT ![g] = b]
        /\ UNCHANGED <<banPolicy, due, G!steady, banBanned>>
    BY <1>1, <2>1 DEF G!SetRecord, G!Mark, G!policies, G!settled
  <2>4. G!Overlooked(g, unseen' # unseen) /\ (g \in unseen' <=> g \in unseen)
    BY <1>1, <2>1 DEF G!SetRecord, G!Overlooked, G!settled
  <2>5. /\ G!Worked \/ G!Fails
        /\ G!Complete(o, g) \/ banJournal' = banJournal
    BY <1>1 DEF G!SetRecord, G!Is, G!journals, G!Worked
  <2>6. G!TypeOK /\ o \in G!Workers /\ b \in BOOLEAN  BY <2>1, Apart DEF BanInv
  <2> HIDE DEF s, b
  <2>7. /\ Touches(o, g) /\ due' = due /\ banBanned' = banBanned /\ local'[g] = b
        /\ at'[o][g] = s
        /\ G!Fails => banFaults' # 0
        /\ G!Worked => banFaults' = banFaults
        /\ banJournal[g] # o => banJournal'[g] = banJournal[g]
        /\ G!Complete(o, g) /\ banJournal[g] = o => banJournal'[g] = NoLease
    BY <2>2, <2>3, <2>4, <2>5, <2>6, WriteDoes
  <2>8. QED  BY <1>1, <2>4, <2>7 DEF G!SetRecord, s, b, G!journals, G!Owns
<1>3. /\ banPolicy' = banPolicy /\ banPolicy \in BOOLEAN /\ local[g] \in BOOLEAN
      /\ banBanned[g] \in BOOLEAN
  BY <1>2 DEF Touches, BanInv, G!TypeOK
<1>4. at'[o][g] \in OpSteps(op[o])  BY <1>1, <1>2 DEF OpSteps, G!FixSteps
<1>5. Busy(o, g)  BY <1>1 DEF Busy
<1>6. banFaults' = 0 /\ g \notin unseen' =>
        /\ Unbanned(g)' => \/ at'[o][g] \in BanAhead
                           \/ Unbanned(g) /\ at[o][g] \notin BanAhead
        /\ Outlived(g)' => \/ at'[o][g] \in LiftAhead
                           \/ Outlived(g) /\ at[o][g] \notin LiftAhead
  BY <1>1, <1>2, <1>3 DEF Unbanned, Outlived, G!Wanted, BanAhead, LiftAhead
<1>7. ASSUME Sole(o, g)  PROVE Sole(o, g)'
  <2>1. at'[Sweeper][g] = at[Sweeper][g]  BY <1>2, Apart DEF Touches
  <2>2. /\ ~G!Wanted(g) /\ banBanned[g]
        /\ banJournal[g] = o /\ banJournal'[g] = NoLease /\ at'[o][g] = "done" /\ local'[g]
    BY <1>1, <1>2, <1>3, <1>7
    DEF Sole, WhileBanned, WhileFree, WhileLocal, G!Wanted, G!BanSteps, Alone, G!LocalSteps,
    G!Owns
  <2>3. Alone(o, g)'
    BY <1>1, <1>2, <1>3, <1>7, <2>2, AloneKeeps, Apart DEF Sole, Alone, G!LocalSteps,
       G!FixSteps
  <2>4. WhileBanned(o, g)' /\ WhileLocal(o, g)'
    BY <1>1, <1>2, <1>3, <1>7, <2>1, <2>2, Apart
    DEF Sole, Alone, WhileBanned, WhileLocal, G!Wanted, G!LocalSteps
  <2>5. WhileFree(o, g)' /\ Agrees(g)'
    BY <1>1, <1>2, <1>3, <1>7, <2>1, <2>2, Apart
    DEF Sole, Alone, WhileFree, WhileBanned, Agrees, G!Wanted, G!BanSteps, G!LocalSteps
  <2>6. QED  BY <2>3, <2>4, <2>5 DEF Sole
<1>8. QED  BY <1>2, <1>4, <1>5, <1>6, <1>7, OpKeeps

\* The step clears the record: the policy still forbids the channel and nobody has claimed
\* the record since it was read.
Cleared(o, g) == ~banPolicy /\ G!Seen(o, g)

\* delete_group_ban clears the record it has seen.
LEMMA ClearRecordKeeps ==
  ASSUME G!GlobalBansAssumption, BanInv, NEW o \in Ops, NEW g \in Groups, G!ClearRecord(o, g)
  PROVE  BanInv'
<1>1. at[o][g] = "clear.record" /\ op[o] = "unban"
  BY KindOf DEF G!ClearRecord, G!Is, BanInv, G!BanSteps, G!UnbanSteps, G!FixSteps
<1>2. /\ Touches(o, g)
      /\ due' = due /\ banBanned' = banBanned /\ local'[g] = (local[g] /\ ~Cleared(o, g))
      /\ at'[o][g] = (IF Cleared(o, g) THEN "clear.restore"
                      ELSE IF G!Wanted(g) THEN "clear.reban" ELSE "done")
      /\ banJournal' = banJournal
      /\ (g \in unseen' <=> g \in unseen \/ (Cleared(o, g) /\ banBanned[g]))
  <2>1. /\ banPolicy \in BOOLEAN /\ (local[g] /\ ~Cleared(o, g)) \in BOOLEAN
        /\ local \in [Groups -> BOOLEAN] /\ unseen \subseteq Groups
    BY DEF BanInv, G!TypeOK, G!Owns, G!Seen, Cleared
  <2> DEFINE s == IF Cleared(o, g) THEN "clear.restore"
             ELSE IF G!Wanted(g) THEN "clear.reban" ELSE "done"
             b == local[g] /\ ~Cleared(o, g)
  <2>2. s \in G!Steps  BY DEF G!Steps, G!LocalSteps
  <2>3. /\ G!Go(o, g, s) /\ local' = [local EXCEPT ![g] = b]
        /\ UNCHANGED <<banPolicy, due, G!steady, banBanned>>
    <3>1. G!Go(o, g, s) /\ UNCHANGED <<banPolicy, due, G!steady, banBanned>>
      BY <1>1 DEF G!ClearRecord, G!journals, Cleared, s
    <3>2. local' = [local EXCEPT ![g] = local[g] /\ ~Cleared(o, g)]
      BY DEF G!ClearRecord, Cleared
    <3>3. QED  BY <3>1, <3>2
  <2>4. /\ G!Overlooked(g, unseen' # unseen)
        /\ (g \in unseen' <=> g \in unseen \/ (Cleared(o, g) /\ banBanned[g]))
    BY <1>1, <2>1 DEF G!ClearRecord, G!Overlooked, G!settled, Cleared
  <2>5. /\ G!Worked \/ G!Fails
        /\ G!Complete(o, g) \/ banJournal' = banJournal
    BY <1>1 DEF G!ClearRecord, G!Is, G!journals, G!Worked
  <2>6. G!TypeOK /\ o \in G!Workers /\ b \in BOOLEAN  BY <2>1, Apart DEF BanInv
  <2> HIDE DEF s, b
  <2>7. /\ Touches(o, g) /\ due' = due /\ banBanned' = banBanned /\ local'[g] = b
        /\ at'[o][g] = s
        /\ G!Fails => banFaults' # 0
        /\ G!Worked => banFaults' = banFaults
        /\ banJournal[g] # o => banJournal'[g] = banJournal[g]
        /\ G!Complete(o, g) /\ banJournal[g] = o => banJournal'[g] = NoLease
    BY <2>2, <2>3, <2>4, <2>5, <2>6, WriteDoes
  <2>8. QED  BY <1>1, <2>4, <2>7 DEF G!ClearRecord, s, b, G!journals, G!Owns
<1>3. /\ banPolicy' = banPolicy /\ banPolicy \in BOOLEAN /\ local[g] \in BOOLEAN
      /\ banBanned[g] \in BOOLEAN
  BY <1>2 DEF Touches, BanInv, G!TypeOK
<1>4. at'[o][g] \in OpSteps(op[o])  BY <1>1, <1>2 DEF OpSteps
<1>5. Busy(o, g)  BY <1>1 DEF Busy
<1>6. banFaults' = 0 /\ g \notin unseen' =>
        /\ Unbanned(g)' => \/ at'[o][g] \in BanAhead
                           \/ Unbanned(g) /\ at[o][g] \notin BanAhead
        /\ Outlived(g)' => \/ at'[o][g] \in LiftAhead
                           \/ Outlived(g) /\ at[o][g] \notin LiftAhead
  BY <1>1, <1>2, <1>3 DEF Unbanned, Outlived, G!Wanted, BanAhead, LiftAhead, Cleared
<1>7. ASSUME Sole(o, g)  PROVE Sole(o, g)'
  <2>1. at'[Sweeper][g] = at[Sweeper][g]  BY <1>2, Apart DEF Touches
  <2>2. ~G!Wanted(g)
    BY <1>1, <1>2, <1>3, <1>7
    DEF Sole, WhileBanned, WhileFree, WhileLocal, G!Wanted, G!BanSteps
  <2>3. Alone(o, g)'
    BY <1>1, <1>2, <1>3, <1>7, <2>2, AloneKeeps, Apart
    DEF Sole, Alone, G!LocalSteps, G!FixSteps, Cleared
  <2>4. WhileBanned(o, g)' /\ WhileLocal(o, g)'
    BY <1>1, <1>2, <1>3, <1>7, <2>1, <2>2, Apart
    DEF Sole, Alone, WhileBanned, WhileLocal, G!Wanted, G!LocalSteps, Cleared
  <2>5. WhileFree(o, g)' /\ Agrees(g)'
    BY <1>1, <1>2, <1>3, <1>7, <2>1, <2>2, Apart
    DEF Sole, Alone, WhileFree, WhileBanned, Agrees, G!Wanted, G!BanSteps, G!LocalSteps,
    Cleared
  <2>6. QED  BY <2>3, <2>4, <2>5 DEF Sole
<1>8. QED  BY <1>2, <1>4, <1>5, <1>6, <1>7, OpKeeps

\* delete_group_ban completes its journal when the restoration succeeded.
LEMMA ClearRestoreKeeps ==
  ASSUME G!GlobalBansAssumption, BanInv, NEW o \in Ops, NEW g \in Groups, G!ClearRestore(o, g)
  PROVE  BanInv'
<1>1. at[o][g] = "clear.restore" /\ op[o] = "unban"
  BY KindOf DEF G!ClearRestore, G!Is, BanInv, G!BanSteps, G!UnbanSteps, G!FixSteps
<1>2. /\ Touches(o, g)
      /\ due' = due /\ banBanned' = banBanned /\ local'[g] = (local[g])
      /\ at'[o][g] = "done"
      /\ banJournal[g] # o => banJournal'[g] = banJournal[g]
      /\ banJournal[g] = o => banJournal'[g] \in {o, NoLease}
      /\ g \in unseen' <=> g \in unseen
  <2>1. /\ banPolicy \in BOOLEAN /\ (local[g]) \in BOOLEAN /\ local \in [Groups -> BOOLEAN]
        /\ unseen \subseteq Groups
    BY DEF BanInv, G!TypeOK, G!Owns, G!Seen
  <2> DEFINE s == "done"
             b == local[g]
  <2>2. s \in G!Steps  BY DEF G!Steps, G!LocalSteps
  <2>3. /\ G!Go(o, g, s) /\ local' = [local EXCEPT ![g] = b]
        /\ UNCHANGED <<banPolicy, due, G!steady, banBanned>>
    BY <1>1, <2>1 DEF G!ClearRestore, G!Mark, G!policies, G!settled
  <2>4. G!Overlooked(g, unseen' # unseen) /\ (g \in unseen' <=> g \in unseen)
    BY <1>1, <2>1 DEF G!ClearRestore, G!Overlooked, G!settled
  <2>5. /\ G!Worked \/ G!Fails
        /\ G!Complete(o, g) \/ banJournal' = banJournal
    BY <1>1 DEF G!ClearRestore, G!Is, G!journals, G!Worked
  <2>6. G!TypeOK /\ o \in G!Workers /\ b \in BOOLEAN  BY <2>1, Apart DEF BanInv
  <2> HIDE DEF s, b
  <2>7. /\ Touches(o, g) /\ due' = due /\ banBanned' = banBanned /\ local'[g] = b
        /\ at'[o][g] = s
        /\ G!Fails => banFaults' # 0
        /\ G!Worked => banFaults' = banFaults
        /\ banJournal[g] # o => banJournal'[g] = banJournal[g]
        /\ G!Complete(o, g) /\ banJournal[g] = o => banJournal'[g] = NoLease
    BY <2>2, <2>3, <2>4, <2>5, <2>6, WriteDoes
  <2>8. QED  BY <1>1, <2>4, <2>7 DEF G!ClearRestore, s, b, G!journals, G!Owns
<1>3. /\ banPolicy' = banPolicy /\ banPolicy \in BOOLEAN /\ local[g] \in BOOLEAN
      /\ banBanned[g] \in BOOLEAN
  BY <1>2 DEF Touches, BanInv, G!TypeOK
<1>4. at'[o][g] \in OpSteps(op[o])  BY <1>1, <1>2 DEF OpSteps
<1>5. Busy(o, g)  BY <1>1 DEF Busy
<1>6. banFaults' = 0 /\ g \notin unseen' =>
        /\ Unbanned(g)' => \/ at'[o][g] \in BanAhead
                           \/ Unbanned(g) /\ at[o][g] \notin BanAhead
        /\ Outlived(g)' => \/ at'[o][g] \in LiftAhead
                           \/ Outlived(g) /\ at[o][g] \notin LiftAhead
  BY <1>1, <1>2, <1>3 DEF Unbanned, Outlived, G!Wanted, BanAhead, LiftAhead
<1>7. ASSUME Sole(o, g)  PROVE Sole(o, g)'
  <2>1. at'[Sweeper][g] = at[Sweeper][g]  BY <1>2, Apart DEF Touches
  <2>2. ~G!Wanted(g)
    BY <1>1, <1>2, <1>3, <1>7
    DEF Sole, WhileBanned, WhileFree, WhileLocal, G!Wanted, G!BanSteps
  <2>3. Alone(o, g)'
    BY <1>1, <1>2, <1>3, <1>7, <2>2, AloneKeeps, Apart DEF Sole, Alone, G!LocalSteps,
       G!FixSteps
  <2>4. WhileBanned(o, g)' /\ WhileLocal(o, g)'
    BY <1>1, <1>2, <1>3, <1>7, <2>1, <2>2, Apart
    DEF Sole, Alone, WhileBanned, WhileLocal, G!Wanted, G!LocalSteps
  <2>5. WhileFree(o, g)' /\ Agrees(g)'
    BY <1>1, <1>2, <1>3, <1>7, <2>1, <2>2, Apart
    DEF Sole, Alone, WhileFree, WhileBanned, Agrees, G!Wanted, G!BanSteps, G!LocalSteps
  <2>6. QED  BY <2>3, <2>4, <2>5 DEF Sole
<1>8. QED  BY <1>2, <1>4, <1>5, <1>6, <1>7, OpKeeps

\* unban_member reads what is recorded after its call, also after one that failed.
LEMMA UnbanAgainKeeps ==
  ASSUME G!GlobalBansAssumption, BanInv, NEW o \in Ops, NEW g \in Groups, G!UnbanAgain(o, g)
  PROVE  BanInv'
<1>1. at[o][g] \in {"unban.again", "unban.failed"} /\ op[o] = "gunban"
  BY KindOf DEF G!UnbanAgain, G!Is, BanInv, G!BanSteps, G!UnbanSteps, G!FixSteps
<1>2. /\ Touches(o, g)
      /\ banFaults' = banFaults
      /\ banJournal' = banJournal /\ due' = due /\ local' = local /\ banBanned' = banBanned
      /\ unseen' = unseen
      /\ at'[o][g] = IF G!Wanted(g) THEN "unban.reban"
                     ELSE IF at[o][g] = "unban.again" THEN "unban.restore" ELSE "done"
  <2>1. G!Wanted(g) \in BOOLEAN  BY DEF BanInv, G!TypeOK, G!Wanted
  <2>2. {"unban.reban", "unban.restore", "done"} \subseteq G!Steps
    BY DEF G!Steps, G!UnbanSteps
  <2>3. CASE at[o][g] = "unban.again"
    <3>1. G!Read(o, g, G!Wanted(g), "unban.reban", "unban.restore")
      BY <2>3 DEF G!UnbanAgain, G!Is
    <3>2. QED  BY <2>1, <2>2, <2>3, <3>1, Apart, ReadDoes DEF BanInv
  <2>4. CASE at[o][g] = "unban.failed"
    <3>1. G!Read(o, g, G!Wanted(g), "unban.reban", "done")
      BY <2>4 DEF G!UnbanAgain, G!Is
    <3>2. QED  BY <2>1, <2>2, <2>4, <3>1, Apart, ReadDoes DEF BanInv
  <2>5. QED  BY <1>1, <2>3, <2>4
<1>3. /\ banPolicy' = banPolicy /\ banPolicy \in BOOLEAN /\ local[g] \in BOOLEAN
      /\ banBanned[g] \in BOOLEAN
  BY <1>2 DEF Touches, BanInv, G!TypeOK
<1>4. at'[o][g] \in OpSteps(op[o])  BY <1>1, <1>2 DEF OpSteps, G!UnbanSteps
<1>5. Busy(o, g)  BY <1>1 DEF Busy
<1>6. banFaults' = 0 /\ g \notin unseen' =>
        /\ Unbanned(g)' => \/ at'[o][g] \in BanAhead
                           \/ Unbanned(g) /\ at[o][g] \notin BanAhead
        /\ Outlived(g)' => \/ at'[o][g] \in LiftAhead
                           \/ Outlived(g) /\ at[o][g] \notin LiftAhead
  BY <1>1, <1>2, <1>3 DEF Unbanned, Outlived, G!Wanted, BanAhead, LiftAhead
<1>7. ASSUME Sole(o, g)  PROVE Sole(o, g)'
  <2>1. at'[Sweeper][g] = at[Sweeper][g]  BY <1>2, Apart DEF Touches
  <2>2. ~G!Wanted(g)
    BY <1>1, <1>2, <1>3, <1>7
    DEF Sole, WhileBanned, WhileFree, WhileLocal, G!Wanted, G!BanSteps
  <2>3. Alone(o, g)'
    BY <1>1, <1>2, <1>3, <1>7, <2>2, AloneKeeps, Apart DEF Sole, Alone, G!LocalSteps,
       G!FixSteps
  <2>4. WhileBanned(o, g)' /\ WhileLocal(o, g)'
    BY <1>1, <1>2, <1>3, <1>7, <2>1, <2>2, Apart
    DEF Sole, Alone, WhileBanned, WhileLocal, G!Wanted, G!LocalSteps
  <2>5. WhileFree(o, g)' /\ Agrees(g)'
    BY <1>1, <1>2, <1>3, <1>7, <2>1, <2>2, Apart
    DEF Sole, Alone, WhileFree, WhileBanned, Agrees, G!Wanted, G!BanSteps, G!LocalSteps
  <2>6. QED  BY <2>3, <2>4, <2>5 DEF Sole
<1>8. QED  BY <1>2, <1>4, <1>5, <1>6, <1>7, OpKeeps

-----------------------------------------------------------------------------
(* One step of a reconciliation *)

\* Who reconciles is through with the group where its kind of worker rests.
LEMMA RestFits ==
  ASSUME G!GlobalBansAssumption, BanInv, NEW w \in G!Workers, NEW g \in Groups,
         at[w][g] \in G!FixSteps
  PROVE  /\ G!Rest(w) \in {"idle", "done"} /\ Busy(w, g)
         /\ w \in Ops => G!FixSteps \cup {G!Rest(w)} \subseteq OpSteps(op[w])
         /\ w \notin Ops => G!FixSteps \cup {G!Rest(w)} \subseteq {"idle"} \cup G!FixSteps
<1>1. Busy(w, g) /\ "idle" \notin G!FixSteps /\ "done" \notin G!FixSteps
  BY DEF Busy, G!FixSteps
<1>2. w \in Ops => op[w] = "ban"  BY KindOf DEF BanInv
<1>3. w \in Ops => G!FixSteps \cup {G!Rest(w)} \subseteq OpSteps(op[w])
  BY <1>2 DEF G!Rest, OpSteps
<1>4. QED  BY <1>1, <1>3 DEF G!Rest

\* The sweeper holds the journal of the group it works on, and gives it up at its end.
LEMMA SweptAlone ==
  ASSUME G!GlobalBansAssumption, BanInv, NEW p \in Ops, NEW g \in Groups,
         Touches(Sweeper, g), Alone(p, g), at[Sweeper][g] \in G!FixSteps,
         due' = due, local' = local,
         banJournal'[g] = Sweeper \/ (banJournal'[g] = NoLease /\ at'[Sweeper][g] = "idle")
  PROVE  /\ Alone(p, g)' /\ banJournal[g] = Sweeper /\ at'[p][g] = at[p][g]
         /\ at[p][g] \notin G!LocalSteps
<1>1. banJournal[g] = Sweeper  BY RestFits, Apart DEF Alone, Busy
<1>2. /\ at'[Enforcer][g] = at[Enforcer][g] /\ op' = op
      /\ \A q \in Ops : at'[q][g] = at[q][g]
  BY Apart DEF Touches
<1>3. at[p][g] \notin G!LocalSteps /\ op[p] # "idle"  BY <1>1, Apart DEF Alone
<1>4. QED  BY <1>1, <1>2, <1>3, Apart DEF Alone

\* A step of a reconciliation keeps the invariant when it does in its group.
LEMMA FixKeeps ==
  ASSUME G!GlobalBansAssumption, BanInv, NEW w \in G!Workers, NEW g \in Groups,
         Touches(w, g), at[w][g] \in G!FixSteps, at'[w][g] \in G!FixSteps \cup {G!Rest(w)},
         banFaults' = 0 /\ g \notin unseen' =>
           /\ Unbanned(g)' => \/ at'[w][g] \in BanAhead
                              \/ Unbanned(g) /\ at[w][g] \notin BanAhead
           /\ Outlived(g)' => \/ at'[w][g] \in LiftAhead
                              \/ Outlived(g) /\ at[w][g] \notin LiftAhead,
         \A p \in Ops : w = Sweeper /\ Sole(p, g) => Sole(p, g)'
  PROVE  BanInv'
<1>1. /\ Busy(w, g)
      /\ w \in Ops => at'[w][g] \in OpSteps(op[w])
      /\ w \notin Ops => at'[w][g] \in {"idle"} \cup G!FixSteps
  BY RestFits
<1>2. \A p \in Ops : Sole(p, g) => w # p  BY DEF Sole, Alone
<1>3. QED  BY <1>1, <1>2, StepKeeps

\* A reconciliation reads what is recorded.
LEMMA FixReadKeeps ==
  ASSUME G!GlobalBansAssumption, BanInv, NEW w \in G!Workers, NEW g \in Groups, G!FixRead(w, g)
  PROVE  BanInv'
<1>1. at[w][g] = "fix.read" /\ at[w][g] \in G!FixSteps /\ G!Rest(w) \in {"idle", "done"}
  BY DEF G!FixRead, G!Is, G!FixSteps, G!Rest
<1>2. /\ Touches(w, g) /\ due' = due /\ local' = local
      /\ banJournal' = banJournal /\ banBanned' = banBanned /\ unseen' = unseen
      /\ at'[w][g] = IF G!Wanted(g) THEN "fix.ban" ELSE "fix.lift"
  <2>1. G!Wanted(g) \in BOOLEAN  BY DEF BanInv, G!TypeOK, G!Wanted
  <2>2. "fix.ban" \in G!Steps /\ "fix.lift" \in G!Steps  BY DEF G!Steps, G!FixSteps
  <2>3. G!Read(w, g, G!Wanted(g), "fix.ban", "fix.lift")  BY DEF G!FixRead
  <2>4. QED  BY <2>1, <2>2, <2>3, ReadDoes DEF BanInv
<1>3. /\ banPolicy' = banPolicy /\ banPolicy \in BOOLEAN /\ local[g] \in BOOLEAN
      /\ banBanned[g] \in BOOLEAN
  BY <1>2 DEF Touches, BanInv, G!TypeOK
<1>4. at'[w][g] \in G!FixSteps \cup {G!Rest(w)}  BY <1>2 DEF G!FixSteps
<1>5. banFaults' = 0 /\ g \notin unseen' =>
        /\ Unbanned(g)' => \/ at'[w][g] \in BanAhead
                           \/ Unbanned(g) /\ at[w][g] \notin BanAhead
        /\ Outlived(g)' => \/ at'[w][g] \in LiftAhead
                           \/ Outlived(g) /\ at[w][g] \notin LiftAhead
  BY <1>1, <1>2, <1>3 DEF Unbanned, Outlived, G!Wanted, G!Holds, G!Is, BanAhead, LiftAhead
<1>6. ASSUME NEW p \in Ops, w = Sweeper, Sole(p, g)  PROVE Sole(p, g)'
  <2>1. ~local[g] /\ TRUE
    BY <1>1, <1>3, <1>6 DEF Sole, WhileBanned, WhileFree, WhileLocal, G!Wanted
  <2>2. banJournal[g] = Sweeper
    BY <1>1, <1>6, Apart DEF Sole, Alone
  <2>3. G!Rest(Sweeper) = "idle"  BY Apart DEF G!Rest
  <2>4. /\ Alone(p, g)' /\ at'[p][g] = at[p][g] /\ at[p][g] \notin G!LocalSteps
    BY <1>1, <1>2, <1>6, <2>2, <2>3, SweptAlone, Apart DEF Sole
  <2>5. (WhileBanned(p, g) /\ WhileLocal(p, g) /\ WhileFree(p, g))'
    BY <1>1, <1>2, <1>3, <1>6, <2>1, <2>3, <2>4
    DEF Sole, WhileBanned, WhileLocal, WhileFree, G!Wanted, G!LocalSteps, G!Holds, G!Is
  <2>6. Agrees(g)'
    BY <1>1, <1>2, <1>3, <1>6, <2>1, <2>2, Apart
    DEF Sole, WhileBanned, WhileFree, Agrees, G!Wanted, G!Holds, G!Is
  <2>7. QED  BY <2>4, <2>5, <2>6 DEF Sole
<1>7. QED  BY <1>1, <1>2, <1>4, <1>5, <1>6, FixKeeps

\* It bans, and looks again.
LEMMA FixBanKeeps ==
  ASSUME G!GlobalBansAssumption, BanInv, NEW w \in G!Workers, NEW g \in Groups, G!FixBan(w, g)
  PROVE  BanInv'
<1>1. at[w][g] = "fix.ban" /\ at[w][g] \in G!FixSteps /\ G!Rest(w) \in {"idle", "done"}
  BY DEF G!FixBan, G!Is, G!FixSteps, G!Rest
<1>2. /\ Touches(w, g) /\ due' = due /\ local' = local
      /\ banJournal' = banJournal /\ (g \in unseen' <=> g \in unseen)
      /\ \/ banFaults' = banFaults /\ banBanned'[g] = TRUE /\ at'[w][g] = "fix.sure"
         \/ banFaults' # 0 /\ at'[w][g] = G!Rest(w) /\ banBanned'[g] \in {banBanned[g], TRUE}
  <2>1. "fix.sure" \in G!Steps /\ G!Rest(w) \in G!Steps  BY DEF G!Steps, G!FixSteps, G!Rest
  <2>2. G!Call(w, g, TRUE, "fix.sure", G!Rest(w))  BY DEF G!FixBan, G!Ban
  <2>3. ~G!Overlooks(w, g, TRUE)  BY <1>1 DEF G!Overlooks
  <2>4. TRUE \in BOOLEAN /\ G!TypeOK  BY DEF BanInv, G!TypeOK
  <2>5. /\ Touches(w, g) /\ banJournal' = banJournal /\ due' = due /\ local' = local
        /\ \/ banFaults' = banFaults /\ banBanned'[g] = TRUE /\ at'[w][g] = "fix.sure"
           \/ banFaults' = banFaults + 1 /\ banFaults' # 0 /\ at'[w][g] = G!Rest(w)
              /\ banBanned'[g] \in {banBanned[g], TRUE}
        /\ g \in unseen' <=> g \in unseen \/ G!Overlooks(w, g, TRUE)
    BY <2>1, <2>2, <2>4, CallDoes
  <2>6. QED  BY <2>3, <2>5
<1>3. /\ banPolicy' = banPolicy /\ banPolicy \in BOOLEAN /\ local[g] \in BOOLEAN
      /\ banBanned[g] \in BOOLEAN
  BY <1>2 DEF Touches, BanInv, G!TypeOK
<1>4. at'[w][g] \in G!FixSteps \cup {G!Rest(w)}  BY <1>2 DEF G!FixSteps
<1>5. banFaults' = 0 /\ g \notin unseen' =>
        /\ Unbanned(g)' => \/ at'[w][g] \in BanAhead
                           \/ Unbanned(g) /\ at[w][g] \notin BanAhead
        /\ Outlived(g)' => \/ at'[w][g] \in LiftAhead
                           \/ Outlived(g) /\ at[w][g] \notin LiftAhead
  BY <1>1, <1>2, <1>3 DEF Unbanned, Outlived, G!Wanted, G!Holds, G!Is, BanAhead, LiftAhead
<1>6. ASSUME NEW p \in Ops, w = Sweeper, Sole(p, g)  PROVE Sole(p, g)'
  <2>1. ~local[g] /\ banPolicy
    BY <1>1, <1>3, <1>6 DEF Sole, WhileBanned, WhileFree, WhileLocal, G!Wanted
  <2>2. banJournal[g] = Sweeper
    BY <1>1, <1>6, Apart DEF Sole, Alone
  <2>3. G!Rest(Sweeper) = "idle"  BY Apart DEF G!Rest
  <2>4. /\ Alone(p, g)' /\ at'[p][g] = at[p][g] /\ at[p][g] \notin G!LocalSteps
    BY <1>1, <1>2, <1>6, <2>2, <2>3, SweptAlone, Apart DEF Sole
  <2>5. (WhileBanned(p, g) /\ WhileLocal(p, g) /\ WhileFree(p, g))'
    BY <1>1, <1>2, <1>3, <1>6, <2>1, <2>3, <2>4
    DEF Sole, WhileBanned, WhileLocal, WhileFree, G!Wanted, G!LocalSteps, G!Holds, G!Is
  <2>6. Agrees(g)'
    BY <1>1, <1>2, <1>3, <1>6, <2>1, <2>2, Apart
    DEF Sole, WhileBanned, WhileFree, Agrees, G!Wanted, G!Holds, G!Is
  <2>7. QED  BY <2>4, <2>5, <2>6 DEF Sole
<1>7. QED  BY <1>1, <1>2, <1>4, <1>5, <1>6, FixKeeps

\* It lifts, and looks again.
LEMMA FixLiftKeeps ==
  ASSUME G!GlobalBansAssumption, BanInv, NEW w \in G!Workers, NEW g \in Groups, G!FixLift(w, g)
  PROVE  BanInv'
<1>1. at[w][g] = "fix.lift" /\ at[w][g] \in G!FixSteps /\ G!Rest(w) \in {"idle", "done"}
  BY DEF G!FixLift, G!Is, G!FixSteps, G!Rest
<1>2. /\ Touches(w, g) /\ due' = due /\ local' = local
      /\ banJournal' = banJournal /\ (g \in unseen' <=> g \in unseen)
      /\ \/ banFaults' = banFaults /\ banBanned'[g] = FALSE /\ at'[w][g] = "fix.seen"
         \/ banFaults' # 0 /\ at'[w][g] = G!Rest(w) /\ banBanned'[g] \in {banBanned[g], FALSE}
  <2>1. "fix.seen" \in G!Steps /\ G!Rest(w) \in G!Steps  BY DEF G!Steps, G!FixSteps, G!Rest
  <2>2. G!Call(w, g, FALSE, "fix.seen", G!Rest(w))  BY DEF G!FixLift, G!Lift
  <2>3. ~G!Overlooks(w, g, FALSE)  BY <1>1 DEF G!Overlooks
  <2>4. FALSE \in BOOLEAN /\ G!TypeOK  BY DEF BanInv, G!TypeOK
  <2>5. /\ Touches(w, g) /\ banJournal' = banJournal /\ due' = due /\ local' = local
        /\ \/ banFaults' = banFaults /\ banBanned'[g] = FALSE /\ at'[w][g] = "fix.seen"
           \/ banFaults' = banFaults + 1 /\ banFaults' # 0 /\ at'[w][g] = G!Rest(w)
              /\ banBanned'[g] \in {banBanned[g], FALSE}
        /\ g \in unseen' <=> g \in unseen \/ G!Overlooks(w, g, FALSE)
    BY <2>1, <2>2, <2>4, CallDoes
  <2>6. QED  BY <2>3, <2>5
<1>3. /\ banPolicy' = banPolicy /\ banPolicy \in BOOLEAN /\ local[g] \in BOOLEAN
      /\ banBanned[g] \in BOOLEAN
  BY <1>2 DEF Touches, BanInv, G!TypeOK
<1>4. at'[w][g] \in G!FixSteps \cup {G!Rest(w)}  BY <1>2 DEF G!FixSteps
<1>5. banFaults' = 0 /\ g \notin unseen' =>
        /\ Unbanned(g)' => \/ at'[w][g] \in BanAhead
                           \/ Unbanned(g) /\ at[w][g] \notin BanAhead
        /\ Outlived(g)' => \/ at'[w][g] \in LiftAhead
                           \/ Outlived(g) /\ at[w][g] \notin LiftAhead
  BY <1>1, <1>2, <1>3 DEF Unbanned, Outlived, G!Wanted, G!Holds, G!Is, BanAhead, LiftAhead
<1>6. ASSUME NEW p \in Ops, w = Sweeper, Sole(p, g)  PROVE Sole(p, g)'
  <2>1. ~local[g] /\ ~banPolicy
    BY <1>1, <1>3, <1>6 DEF Sole, WhileBanned, WhileFree, WhileLocal, G!Wanted
  <2>2. banJournal[g] = Sweeper
    BY <1>1, <1>6, Apart DEF Sole, Alone
  <2>3. G!Rest(Sweeper) = "idle"  BY Apart DEF G!Rest
  <2>4. /\ Alone(p, g)' /\ at'[p][g] = at[p][g] /\ at[p][g] \notin G!LocalSteps
    BY <1>1, <1>2, <1>6, <2>2, <2>3, SweptAlone, Apart DEF Sole
  <2>5. (WhileBanned(p, g) /\ WhileLocal(p, g) /\ WhileFree(p, g))'
    BY <1>1, <1>2, <1>3, <1>6, <2>1, <2>3, <2>4
    DEF Sole, WhileBanned, WhileLocal, WhileFree, G!Wanted, G!LocalSteps, G!Holds, G!Is
  <2>6. Agrees(g)'
    BY <1>1, <1>2, <1>3, <1>6, <2>1, <2>2, Apart
    DEF Sole, WhileBanned, WhileFree, Agrees, G!Wanted, G!Holds, G!Is
  <2>7. QED  BY <2>4, <2>5, <2>6 DEF Sole
<1>7. QED  BY <1>1, <1>2, <1>4, <1>5, <1>6, FixKeeps

\* After a lift it starts anew or restores.
LEMMA FixSeenKeeps ==
  ASSUME G!GlobalBansAssumption, BanInv, NEW w \in G!Workers, NEW g \in Groups, G!FixSeen(w, g)
  PROVE  BanInv'
<1>1. at[w][g] = "fix.seen" /\ at[w][g] \in G!FixSteps /\ G!Rest(w) \in {"idle", "done"}
  BY DEF G!FixSeen, G!Is, G!FixSteps, G!Rest
<1>2. /\ Touches(w, g) /\ due' = due /\ local' = local
      /\ banJournal' = banJournal /\ banBanned' = banBanned /\ unseen' = unseen
      /\ at'[w][g] = IF G!Wanted(g) THEN "fix.read" ELSE "fix.restore"
  <2>1. G!Wanted(g) \in BOOLEAN  BY DEF BanInv, G!TypeOK, G!Wanted
  <2>2. "fix.read" \in G!Steps /\ "fix.restore" \in G!Steps  BY DEF G!Steps, G!FixSteps
  <2>3. G!Read(w, g, G!Wanted(g), "fix.read", "fix.restore")  BY DEF G!FixSeen
  <2>4. QED  BY <2>1, <2>2, <2>3, ReadDoes DEF BanInv
<1>3. /\ banPolicy' = banPolicy /\ banPolicy \in BOOLEAN /\ local[g] \in BOOLEAN
      /\ banBanned[g] \in BOOLEAN
  BY <1>2 DEF Touches, BanInv, G!TypeOK
<1>4. at'[w][g] \in G!FixSteps \cup {G!Rest(w)}  BY <1>2 DEF G!FixSteps
<1>5. banFaults' = 0 /\ g \notin unseen' =>
        /\ Unbanned(g)' => \/ at'[w][g] \in BanAhead
                           \/ Unbanned(g) /\ at[w][g] \notin BanAhead
        /\ Outlived(g)' => \/ at'[w][g] \in LiftAhead
                           \/ Outlived(g) /\ at[w][g] \notin LiftAhead
  BY <1>1, <1>2, <1>3 DEF Unbanned, Outlived, G!Wanted, G!Holds, G!Is, BanAhead, LiftAhead
<1>6. ASSUME NEW p \in Ops, w = Sweeper, Sole(p, g)  PROVE Sole(p, g)'
  <2>1. ~local[g] /\ ~banPolicy
    BY <1>1, <1>3, <1>6 DEF Sole, WhileBanned, WhileFree, WhileLocal, G!Wanted
  <2>2. banJournal[g] = Sweeper
    BY <1>1, <1>6, Apart DEF Sole, Alone
  <2>3. G!Rest(Sweeper) = "idle"  BY Apart DEF G!Rest
  <2>4. /\ Alone(p, g)' /\ at'[p][g] = at[p][g] /\ at[p][g] \notin G!LocalSteps
    BY <1>1, <1>2, <1>6, <2>2, <2>3, SweptAlone, Apart DEF Sole
  <2>5. (WhileBanned(p, g) /\ WhileLocal(p, g) /\ WhileFree(p, g))'
    BY <1>1, <1>2, <1>3, <1>6, <2>1, <2>3, <2>4
    DEF Sole, WhileBanned, WhileLocal, WhileFree, G!Wanted, G!LocalSteps, G!Holds, G!Is
  <2>6. Agrees(g)'
    BY <1>1, <1>2, <1>3, <1>6, <2>1, <2>2, Apart
    DEF Sole, WhileBanned, WhileFree, Agrees, G!Wanted, G!Holds, G!Is
  <2>7. QED  BY <2>4, <2>5, <2>6 DEF Sole
<1>7. QED  BY <1>1, <1>2, <1>4, <1>5, <1>6, FixKeeps

\* It restores, and looks a last time.
LEMMA FixRestoreKeeps ==
  ASSUME G!GlobalBansAssumption, BanInv, NEW w \in G!Workers, NEW g \in Groups,
         G!FixRestore(w, g)
  PROVE  BanInv'
<1>1. at[w][g] = "fix.restore" /\ at[w][g] \in G!FixSteps /\ G!Rest(w) \in {"idle", "done"}
  BY DEF G!FixRestore, G!Is, G!FixSteps, G!Rest
<1>2. /\ Touches(w, g) /\ due' = due /\ local' = local
      /\ banJournal' = banJournal /\ (g \in unseen' <=> g \in unseen)
      /\ \/ banFaults' = banFaults /\ banBanned'[g] = banBanned[g] /\ at'[w][g] = "fix.last"
         \/ banFaults' # 0 /\ at'[w][g] = G!Rest(w)
             /\ banBanned'[g] \in {banBanned[g], banBanned[g]}
  <2>1. "fix.last" \in G!Steps /\ G!Rest(w) \in G!Steps  BY DEF G!Steps, G!FixSteps, G!Rest
  <2>2. G!Call(w, g, banBanned[g], "fix.last", G!Rest(w))  BY DEF G!FixRestore, G!Restore
  <2>3. ~G!Overlooks(w, g, banBanned[g])  BY <1>1 DEF G!Overlooks
  <2>4. banBanned[g] \in BOOLEAN /\ G!TypeOK  BY DEF BanInv, G!TypeOK
  <2>5. /\ Touches(w, g) /\ banJournal' = banJournal /\ due' = due /\ local' = local
        /\ \/ banFaults' = banFaults /\ banBanned'[g] = banBanned[g] /\ at'[w][g] = "fix.last"
           \/ banFaults' = banFaults + 1 /\ banFaults' # 0 /\ at'[w][g] = G!Rest(w)
              /\ banBanned'[g] \in {banBanned[g], banBanned[g]}
        /\ g \in unseen' <=> g \in unseen \/ G!Overlooks(w, g, banBanned[g])
    BY <2>1, <2>2, <2>4, CallDoes
  <2>6. QED  BY <2>3, <2>5
<1>3. /\ banPolicy' = banPolicy /\ banPolicy \in BOOLEAN /\ local[g] \in BOOLEAN
      /\ banBanned[g] \in BOOLEAN
  BY <1>2 DEF Touches, BanInv, G!TypeOK
<1>4. at'[w][g] \in G!FixSteps \cup {G!Rest(w)}  BY <1>2 DEF G!FixSteps
<1>5. banFaults' = 0 /\ g \notin unseen' =>
        /\ Unbanned(g)' => \/ at'[w][g] \in BanAhead
                           \/ Unbanned(g) /\ at[w][g] \notin BanAhead
        /\ Outlived(g)' => \/ at'[w][g] \in LiftAhead
                           \/ Outlived(g) /\ at[w][g] \notin LiftAhead
  BY <1>1, <1>2, <1>3 DEF Unbanned, Outlived, G!Wanted, G!Holds, G!Is, BanAhead, LiftAhead
<1>6. ASSUME NEW p \in Ops, w = Sweeper, Sole(p, g)  PROVE Sole(p, g)'
  <2>1. ~local[g] /\ ~banPolicy
    BY <1>1, <1>3, <1>6 DEF Sole, WhileBanned, WhileFree, WhileLocal, G!Wanted
  <2>2. banJournal[g] = Sweeper
    BY <1>1, <1>6, Apart DEF Sole, Alone
  <2>3. G!Rest(Sweeper) = "idle"  BY Apart DEF G!Rest
  <2>4. /\ Alone(p, g)' /\ at'[p][g] = at[p][g] /\ at[p][g] \notin G!LocalSteps
    BY <1>1, <1>2, <1>6, <2>2, <2>3, SweptAlone, Apart DEF Sole
  <2>5. (WhileBanned(p, g) /\ WhileLocal(p, g) /\ WhileFree(p, g))'
    BY <1>1, <1>2, <1>3, <1>6, <2>1, <2>3, <2>4
    DEF Sole, WhileBanned, WhileLocal, WhileFree, G!Wanted, G!LocalSteps, G!Holds, G!Is
  <2>6. Agrees(g)'
    BY <1>1, <1>2, <1>3, <1>6, <2>1, <2>2, Apart
    DEF Sole, WhileBanned, WhileFree, Agrees, G!Wanted, G!Holds, G!Is
  <2>7. QED  BY <2>4, <2>5, <2>6 DEF Sole
<1>7. QED  BY <1>1, <1>2, <1>4, <1>5, <1>6, FixKeeps

\* It is over when what it did still stands; the sweeper completes the journal then.
LEMMA FixEndKeeps ==
  ASSUME G!GlobalBansAssumption, BanInv, NEW w \in G!Workers, NEW g \in Groups, G!FixEnd(w, g)
  PROVE  BanInv'
<1>1. /\ at[w][g] \in {"fix.sure", "fix.last"} /\ at[w][g] \in G!FixSteps
      /\ G!Rest(w) \in {"idle", "done"}
  BY DEF G!FixEnd, G!Is, G!FixSteps, G!Rest
<1>2. /\ Touches(w, g) /\ due' = due /\ local' = local
      /\ banBanned' = banBanned /\ unseen' = unseen
      /\ at'[w][g] = IF G!Holds(w, g) THEN G!Rest(w) ELSE "fix.read"
      /\ w # Sweeper \/ ~G!Holds(w, g) => banJournal' = banJournal
      /\ w = Sweeper /\ G!Holds(w, g) /\ banJournal[g] = w => banJournal'[g] = NoLease
  <2> DEFINE s == IF G!Holds(w, g) THEN G!Rest(w) ELSE "fix.read"
  <2>1. /\ s \in G!Steps /\ G!TypeOK /\ local[g] \in BOOLEAN
        /\ local = [local EXCEPT ![g] = local[g]]
    BY DEF G!Steps, G!FixSteps, G!Rest, BanInv, G!TypeOK
  <2>2. /\ G!Go(w, g, s) /\ local' = [local EXCEPT ![g] = local[g]] /\ local' = local
        /\ unseen' = unseen /\ UNCHANGED <<banPolicy, due, G!steady, banBanned>>
        /\ G!Overlooked(g, unseen' # unseen) /\ G!Worked
        /\ G!Complete(w, g) \/ banJournal' = banJournal
        /\ IF w = Sweeper /\ G!Holds(w, g) THEN G!Complete(w, g) ELSE banJournal' = banJournal
    BY <2>1 DEF G!FixEnd, G!policies, G!settled, G!Overlooked
  <2> HIDE DEF s
  <2>3. /\ Touches(w, g) /\ due' = due /\ banBanned' = banBanned
        /\ at'[w][g] = s
        /\ G!Complete(w, g) /\ banJournal[g] = w => banJournal'[g] = NoLease
    BY <2>1, <2>2, WriteDoes
  <2>4. QED  BY <2>2, <2>3 DEF s
<1>3. /\ banPolicy' = banPolicy /\ banPolicy \in BOOLEAN /\ local[g] \in BOOLEAN
      /\ banBanned[g] \in BOOLEAN
  BY <1>2 DEF Touches, BanInv, G!TypeOK
<1>4. at'[w][g] \in G!FixSteps \cup {G!Rest(w)}  BY <1>2 DEF G!FixSteps
<1>5. banFaults' = 0 /\ g \notin unseen' =>
        /\ Unbanned(g)' => \/ at'[w][g] \in BanAhead
                           \/ Unbanned(g) /\ at[w][g] \notin BanAhead
        /\ Outlived(g)' => \/ at'[w][g] \in LiftAhead
                           \/ Outlived(g) /\ at[w][g] \notin LiftAhead
  BY <1>1, <1>2, <1>3 DEF Unbanned, Outlived, G!Wanted, G!Holds, G!Is, BanAhead, LiftAhead
<1>6. ASSUME NEW p \in Ops, w = Sweeper, Sole(p, g)  PROVE Sole(p, g)'
  <2>1. ~local[g] /\ TRUE
    BY <1>1, <1>3, <1>6 DEF Sole, WhileBanned, WhileFree, WhileLocal, G!Wanted
  <2>2. banJournal[g] = Sweeper
    BY <1>1, <1>6, Apart DEF Sole, Alone
  <2>3. G!Rest(Sweeper) = "idle"  BY Apart DEF G!Rest
  <2>4. /\ Alone(p, g)' /\ at'[p][g] = at[p][g] /\ at[p][g] \notin G!LocalSteps
    BY <1>1, <1>2, <1>6, <2>2, <2>3, SweptAlone, Apart DEF Sole
  <2>5. (WhileBanned(p, g) /\ WhileLocal(p, g) /\ WhileFree(p, g))'
    BY <1>1, <1>2, <1>3, <1>6, <2>1, <2>3, <2>4
    DEF Sole, WhileBanned, WhileLocal, WhileFree, G!Wanted, G!LocalSteps, G!Holds, G!Is
  <2>6. Agrees(g)'
    BY <1>1, <1>2, <1>3, <1>6, <2>1, <2>2, Apart
    DEF Sole, WhileBanned, WhileFree, Agrees, G!Wanted, G!Holds, G!Is
  <2>7. QED  BY <2>4, <2>5, <2>6 DEF Sole
<1>7. QED  BY <1>1, <1>2, <1>4, <1>5, <1>6, FixKeeps

-----------------------------------------------------------------------------
(* Starting, and what the surroundings do *)

\* Before an operation nobody has anything to do, and no group has a ban of its own.
LEMMA Before ==
  ASSUME G!GlobalBansAssumption, BanInv, NEW o \in Ops, op[o] = "idle", NEW g \in Groups
  PROVE  /\ at[o][g] = "idle"
         /\ Sole(o, g) => /\ banJournal[g] = NoLease /\ ~local[g] /\ at[Sweeper][g] = "idle"
                          /\ banBanned[g] <=> banPolicy
<1>1. at[o][g] \in OpSteps(op[o])  BY DEF BanInv, StepsFit
<1>2. at[o][g] = "idle"  BY <1>1 DEF OpSteps
<1>3. QED  BY <1>2, Apart DEF Sole, Alone, Agrees, G!Wanted

\* An operation leases the journals and starts in the groups the bot is in; where it is
\* not, the journal is left at once.
LEMMA BeginKeeps ==
  ASSUME G!GlobalBansAssumption, BanInv, NEW o \in Ops, NEW kind \in G!Kinds,
         NEW gs \in SUBSET Groups, NEW first, G!Begin(o, kind, gs, first),
         first \in {"ban.read", "unban.read", "set.call", "clear.call"},
         {first, "done"} \subseteq OpSteps(kind),
         banPolicy' \in BOOLEAN, local' \in [Groups -> BOOLEAN], snap' \in [Ops -> BOOLEAN],
         \A h \in Groups : local'[h] => local[h],
         gs # Groups => banPolicy' = banPolicy /\ local' = local,
         banPolicy' <=> first = "ban.read"
  PROVE  BanInv'
<1> DEFINE T == G!Targets(gs)
<1>1. /\ op[o] = "idle" /\ op' = [op EXCEPT ![o] = kind] /\ unseen' = unseen \ T
      /\ at' = [at EXCEPT ![o] = [h \in Groups |-> IF h \in T THEN first ELSE "done"]]
      /\ banJournal' = [h \in Groups |-> IF h \in gs THEN o ELSE banJournal[h]]
      /\ due' = [h \in Groups |-> IF h \in gs THEN FALSE ELSE due[h]]
      /\ present' = present /\ banBanned' = banBanned /\ messages' = messages
          /\ banFaults' = banFaults
  BY DEF G!Begin, G!Lease, G!Worked
<1>2. T \subseteq gs  BY DEF G!Targets
<1> HIDE DEF T
<1>3. /\ at \in [G!Workers -> [Groups -> G!Steps]] /\ op \in [Ops -> G!Kinds
          \cup {"idle", "over"}]
      /\ banJournal \in [Groups -> Ops \cup {Sweeper, NoLease}] /\ due \in [Groups -> BOOLEAN]
      /\ unseen \subseteq Groups
  BY DEF BanInv, G!TypeOK
<1>4. first \in G!Steps /\ "done" \in G!Steps
  BY DEF G!Steps, G!BanSteps, G!UnbanSteps, G!LocalSteps
<1>5. /\ at' \in [G!Workers -> [Groups -> G!Steps]]
      /\ \A h \in Groups : at'[o][h] = IF h \in T THEN first ELSE "done"
      /\ \A v \in G!Workers, h \in Groups : v # o => at'[v][h] = at[v][h]
  BY <1>1, <1>3, <1>4, Apart
<1>6. /\ op' \in [Ops -> G!Kinds \cup {"idle", "over"}] /\ op'[o] = kind
      /\ \A p \in Ops : p # o => op'[p] = op[p]
  BY <1>1, <1>3
<1>7. /\ banJournal' \in [Groups -> Ops \cup {Sweeper, NoLease}]
          /\ due' \in [Groups -> BOOLEAN]
  BY <1>1, <1>3
<1>8. G!TypeOK'
  BY <1>1, <1>3, <1>5, <1>6, <1>7 DEF BanInv, G!TypeOK
<1>9. StepsFit'
  <2>1. \A p \in Ops, h \in Groups : at'[p][h] \in OpSteps(op'[p])
    BY <1>5, <1>6, Apart DEF BanInv, StepsFit
  <2>2. \A w \in {Sweeper, Enforcer}, h \in Groups : at'[w][h] \in {"idle"} \cup G!FixSteps
    BY <1>5, Apart DEF BanInv, StepsFit
  <2>3. QED  BY <2>1, <2>2 DEF StepsFit
<1>10. ASSUME NEW h \in Groups  PROVE TendedAt(h)'
  <2>1. CASE h \in T
    <3>1. at'[o][h] \in BanAhead /\ at'[o][h] \in LiftAhead
      BY <1>5, <2>1 DEF BanAhead, LiftAhead
    <3>2. QED  BY <3>1, Apart DEF TendedAt
  <2>2. CASE h \in gs \ T
    <3>1. banJournal'[h] = o /\ at'[o][h] = "done"  BY <1>1, <1>5, <2>2
    <3>2. QED  BY <3>1 DEF TendedAt, Left
  <2>3. CASE h \notin gs
    <3>1. /\ banPolicy' = banPolicy /\ local' = local /\ banBanned' = banBanned
          /\ banJournal'[h] = banJournal[h] /\ h \notin T
      BY <1>1, <1>2, <2>3
    <3>2. at[o][h] = "idle"  BY <1>1, Before
    <3>3. "idle" \notin BanAhead /\ "idle" \notin LiftAhead  BY DEF BanAhead, LiftAhead
    <3>4. /\ (\E w \in G!Workers : at[w][h] \in BanAhead) =>
               \E w \in G!Workers : at'[w][h] \in BanAhead
          /\ (\E w \in G!Workers : at[w][h] \in LiftAhead) =>
               \E w \in G!Workers : at'[w][h] \in LiftAhead
      BY <1>5, <3>2, <3>3
    <3>5. Left(h) => Left(h)'  BY <1>5, <3>1, <3>2, Apart DEF Left
    <3>6. (Unbanned(h)' => Unbanned(h)) /\ (Outlived(h)' => Outlived(h))
      BY <3>1 DEF Unbanned, Outlived, G!Wanted
    <3>7. TendedAt(h)  BY DEF BanInv, Tended
    <3>8. QED  BY <1>1, <3>1, <3>4, <3>5, <3>6, <3>7 DEF TendedAt
  <2>4. QED  BY <1>2, <2>1, <2>2, <2>3
<1>11. ASSUME messages' = 0, NEW p \in Ops, G!Started' \subseteq {p}, NEW h \in Groups
       PROVE  Sole(p, h)'
  <2>1. p = o /\ G!Started \subseteq {o}
    <3>1. o \in G!Started'  BY <1>6 DEF G!Started, G!Kinds
    <3>2. \A q \in Ops : q # o /\ op[q] # "idle" => q \in G!Started'  BY <1>6 DEF G!Started
    <3>3. QED  BY <1>1, <1>11, <3>1, <3>2 DEF G!Started
  <2>2. Sole(o, h)  BY <1>1, <1>11, <2>1 DEF BanInv, Covered
  <2>3. /\ banJournal[h] = NoLease /\ ~local[h] /\ at[Sweeper][h] = "idle"
        /\ banBanned[h] <=> banPolicy
    BY <1>1, <2>2, Before
  <2>4. /\ ~local'[h] /\ at'[Sweeper][h] = "idle" /\ banBanned' = banBanned
        /\ at'[o][h] \in {first, "done"} /\ op'[o] # "idle"
        /\ h \in gs => banJournal'[h] = o /\ ~due'[h]
        /\ h \notin gs => banJournal'[h] = NoLease /\ at'[o][h] = "done"
            /\ banPolicy' = banPolicy
    BY <1>1, <1>2, <1>5, <1>6, <2>3, Apart DEF G!Kinds
  <2>5. Alone(o, h)'
    <3>1. /\ at'[Enforcer][h] = "idle"
          /\ \A q \in Ops \ {o} : at'[q][h] = "idle"
      BY <1>5, <2>2, Apart DEF Sole, Alone
    <3>2. QED  BY <2>4, <3>1, Apart DEF Alone, G!LocalSteps, G!FixSteps
  <2>6. (WhileBanned(o, h) /\ WhileLocal(o, h) /\ WhileFree(o, h))'
    BY <2>4 DEF WhileBanned, WhileLocal, WhileFree, G!Wanted, G!BanSteps
  <2>7. Agrees(h)'  BY <2>3, <2>4, Apart DEF Agrees, G!Wanted
  <2>8. QED  BY <2>1, <2>5, <2>6, <2>7 DEF Sole
<1>12. QED  BY <1>8, <1>9, <1>10, <1>11 DEF BanInv, Tended, Covered

\* A global ban or its lifting starts.
LEMMA StartGlobalKeeps ==
  ASSUME G!GlobalBansAssumption, BanInv, NEW o \in Ops, G!StartBan(o) \/ G!StartUnban(o)
  PROVE  BanInv'
<1>1. /\ banPolicy \in BOOLEAN /\ local \in [Groups -> BOOLEAN] /\ snap \in [Ops -> BOOLEAN]
  BY DEF BanInv, G!TypeOK
<1>2. CASE G!StartBan(o)
  <2>1. /\ G!Begin(o, "gban", Groups, "ban.read")
        /\ banPolicy' = TRUE /\ local' = local /\ snap' = snap
    BY <1>2 DEF G!StartBan
  <2>2. "gban" \in G!Kinds /\ {"ban.read", "done"} \subseteq OpSteps("gban")
    BY DEF G!Kinds, OpSteps, G!BanSteps
  <2>3. QED  BY <1>1, <2>1, <2>2, BeginKeeps
<1>3. CASE G!StartUnban(o)
  <2>1. /\ G!Begin(o, "gunban", Groups, "unban.read")
        /\ banPolicy' = FALSE /\ local' = [h \in Groups |-> FALSE] /\ snap' = snap
    BY <1>3 DEF G!StartUnban
  <2>2. "gunban" \in G!Kinds /\ {"unban.read", "done"} \subseteq OpSteps("gunban")
    BY DEF G!Kinds, OpSteps, G!UnbanSteps
  <2>3. local' \in [Groups -> BOOLEAN] /\ \A h \in Groups : ~local'[h]  BY <2>1
  <2>4. banPolicy' \in BOOLEAN /\ ~banPolicy' /\ Groups \in SUBSET Groups  BY <2>1
  <2>5. snap' \in [Ops -> BOOLEAN]  BY <1>1, <2>1
  <2>6. QED  BY <2>1, <2>2, <2>3, <2>4, <2>5, BeginKeeps
<1>4. QED  BY <1>2, <1>3

\* The panel's ban of one group or its lifting starts.
LEMMA StartGroupKeeps ==
  ASSUME G!GlobalBansAssumption, BanInv, NEW o \in Ops, NEW g \in Groups,
         G!StartGroupBan(o, g) \/ G!StartGroupUnban(o, g)
  PROVE  BanInv'
<1>1. /\ banPolicy \in BOOLEAN /\ local \in [Groups -> BOOLEAN] /\ snap \in [Ops -> BOOLEAN]
  BY DEF BanInv, G!TypeOK
<1>2. CASE G!StartGroupBan(o, g)
  <2>1. /\ G!Begin(o, "ban", {g}, "set.call") /\ ~banPolicy
        /\ banPolicy' = banPolicy /\ local' = local /\ snap' = snap
    BY <1>2 DEF G!StartGroupBan, G!policies
  <2>2. "ban" \in G!Kinds /\ {"set.call", "done"} \subseteq OpSteps("ban")
    BY DEF G!Kinds, OpSteps
  <2>3. QED  BY <1>1, <2>1, <2>2, BeginKeeps
<1>3. CASE G!StartGroupUnban(o, g)
  <2>1. /\ G!Begin(o, "unban", {g}, "clear.call") /\ ~banPolicy
        /\ banPolicy' = banPolicy /\ local' = local /\ snap' \in [Ops -> BOOLEAN]
    BY <1>1, <1>3 DEF G!StartGroupUnban, G!policies
  <2>2. "unban" \in G!Kinds /\ {"clear.call", "done"} \subseteq OpSteps("unban")
    BY DEF G!Kinds, OpSteps
  <2>3. QED  BY <1>1, <2>1, <2>2, BeginKeeps
<1>4. QED  BY <1>2, <1>3

\* An operation is over when it is done in every group.
LEMMA OverKeeps ==
  ASSUME G!GlobalBansAssumption, BanInv, NEW o \in Ops, G!Over(o)
  PROVE  BanInv'
<1>1. /\ op[o] \in G!Kinds /\ op' = [op EXCEPT ![o] = "over"]
      /\ \A g \in Groups : at[o][g] = "done"
      /\ banPolicy' = banPolicy /\ local' = local /\ banJournal' = banJournal /\ due' = due
      /\ present' = present /\ banBanned' = banBanned /\ at' = at /\ snap' = snap
      /\ unseen' = unseen /\ messages' = messages /\ banFaults' = banFaults
  BY DEF G!Over, G!Is, G!policies, G!journals
<1>2. /\ op' \in [Ops -> G!Kinds \cup {"idle", "over"}] /\ op'[o] = "over"
      /\ \A p \in Ops : p # o => op'[p] = op[p]
  BY <1>1 DEF BanInv, G!TypeOK
<1>3. G!TypeOK'  BY <1>1, <1>2 DEF BanInv, G!TypeOK
<1>4. StepsFit'
  <2>1. \A p \in Ops, g \in Groups : at'[p][g] \in OpSteps(op'[p])
    <3>1. \A g \in Groups : at'[o][g] \in OpSteps("over")  BY <1>1 DEF OpSteps
    <3>2. QED  BY <1>1, <1>2, <3>1 DEF BanInv, StepsFit
  <2>2. QED  BY <1>1, <2>1 DEF BanInv, StepsFit
<1>5. Tended'
  BY <1>1 DEF BanInv, Tended, TendedAt, Left, Unbanned, Outlived, G!Wanted
<1>6. ASSUME messages' = 0, NEW p \in Ops, G!Started' \subseteq {p}, NEW g \in Groups
      PROVE  Sole(p, g)'
  <2>1. G!Started' = G!Started  BY <1>1, <1>2 DEF G!Started, G!Kinds
  <2>2. Sole(p, g)  BY <1>1, <1>6, <2>1 DEF BanInv, Covered
  <2>3. op'[p] = "idle" => op[p] = "idle"  BY <1>1, <1>2
  <2>4. Alone(p, g)'  BY <1>1, <2>2, <2>3 DEF Sole, Alone
  <2>5. (WhileBanned(p, g) /\ WhileLocal(p, g) /\ WhileFree(p, g) /\ Agrees(g))'
    BY <1>1, <2>2 DEF Sole, WhileBanned, WhileLocal, WhileFree, Agrees, G!Wanted
  <2>6. QED  BY <2>4, <2>5 DEF Sole
<1>7. QED  BY <1>3, <1>4, <1>5, <1>6 DEF BanInv, Covered

\* A lease runs out, but not under an operation that is at work on the one group.
LEMMA LeaseEndsKeeps ==
  ASSUME G!GlobalBansAssumption, BanInv, NEW g \in Groups, G!LeaseEnds(g)
  PROVE  BanInv'
<1>1. /\ banJournal[g] # NoLease /\ due' = [due EXCEPT ![g] = TRUE]
      /\ \A o \in Ops : banJournal[g] = o /\ op[o] \in {"ban", "unban"} => at[o][g] = "done"
      /\ banPolicy' = banPolicy /\ local' = local /\ banJournal' = banJournal /\ op' = op
      /\ present' = present /\ banBanned' = banBanned /\ at' = at /\ snap' = snap
      /\ unseen' = unseen /\ messages' = messages /\ banFaults' = banFaults
  BY DEF G!LeaseEnds, G!Is, G!Owns, G!policies, G!settled, G!steady
<1>2. due' \in [Groups -> BOOLEAN] /\ \A h \in Groups : h # g => due'[h] = due[h]
  BY <1>1 DEF BanInv, G!TypeOK
<1>3. G!TypeOK'  BY <1>1, <1>2 DEF BanInv, G!TypeOK
<1>4. StepsFit'  BY <1>1 DEF BanInv, StepsFit
<1>5. Tended'
  BY <1>1 DEF BanInv, Tended, TendedAt, Left, Unbanned, Outlived, G!Wanted
<1>6. ASSUME messages' = 0, NEW p \in Ops, G!Started' \subseteq {p}, NEW h \in Groups
      PROVE  Sole(p, h)'
  <2>1. Sole(p, h)  BY <1>1, <1>6 DEF BanInv, Covered, G!Started
  <2>2. at[p][h] \in G!LocalSteps => op[p] \in {"ban", "unban"} /\ at[p][h] # "done"
    BY KindOf DEF BanInv, G!LocalSteps
  <2>3. at[p][h] \in G!LocalSteps => banJournal[h] = p /\ ~due'[h]
    BY <1>1, <1>2, <2>1, <2>2 DEF Sole, Alone
  <2>4. Alone(p, h)'  BY <1>1, <2>1, <2>3 DEF Sole, Alone
  <2>5. (WhileBanned(p, h) /\ WhileLocal(p, h) /\ WhileFree(p, h) /\ Agrees(h))'
    BY <1>1, <2>1 DEF Sole, WhileBanned, WhileLocal, WhileFree, Agrees, G!Wanted
  <2>6. QED  BY <2>4, <2>5 DEF Sole
<1>7. QED  BY <1>3, <1>4, <1>5, <1>6 DEF BanInv, Covered

\* Somebody takes up a reconciliation of the group: it has everything ahead.
LEMMA TakeUp ==
  ASSUME G!GlobalBansAssumption, BanInv, NEW g \in Groups, NEW w \in {Sweeper, Enforcer},
         G!Go(w, g, "fix.read"), at[w][g] = "idle", unseen' = unseen \ {g},
         banFaults' = banFaults, banJournal' \in [Groups -> Ops \cup {Sweeper, NoLease}],
         due' \in [Groups -> BOOLEAN],
         messages' \in 0..MaxMessages,
         \A h \in Groups : h # g => banJournal'[h] = banJournal[h] /\ due'[h] = due[h],
         banPolicy' = banPolicy, local' = local, present' = present, banBanned' = banBanned,
         op' = op, snap' = snap
  PROVE  /\ G!TypeOK' /\ StepsFit' /\ Tended'
         /\ at'[w][g] = "fix.read"
         /\ \A v \in G!Workers, h \in Groups : v # w \/ h # g => at'[v][h] = at[v][h]
<1>1. "fix.read" \in G!Steps /\ "fix.read" \in G!FixSteps  BY DEF G!Steps, G!FixSteps
<1>2. w \in G!Workers  BY Apart
<1>3. /\ at' \in [G!Workers -> [Groups -> G!Steps]] /\ at'[w][g] = "fix.read"
      /\ \A v \in G!Workers, h \in Groups : v # w \/ h # g => at'[v][h] = at[v][h]
  BY <1>1, <1>2, Moves DEF BanInv
<1>4. G!TypeOK'  BY <1>3 DEF BanInv, G!TypeOK
<1>5. StepsFit'
  <2>1. \A o \in Ops, h \in Groups : at'[o][h] \in OpSteps(op'[o])
    BY <1>3, Apart DEF BanInv, StepsFit
  <2>2. \A v \in {Sweeper, Enforcer}, h \in Groups : at'[v][h] \in {"idle"} \cup G!FixSteps
    BY <1>1, <1>3, Apart DEF BanInv, StepsFit
  <2>3. QED  BY <2>1, <2>2 DEF StepsFit
<1>6. ASSUME NEW h \in Groups  PROVE TendedAt(h)'
  <2>1. CASE h = g
    <3>1. at'[w][h] \in BanAhead /\ at'[w][h] \in LiftAhead
      BY <1>3, <2>1 DEF BanAhead, LiftAhead
    <3>2. QED  BY <1>2, <3>1 DEF TendedAt
  <2>2. CASE h # g
    <3>1. /\ \A v \in G!Workers : at'[v][h] = at[v][h]
          /\ banJournal'[h] = banJournal[h] /\ (h \in unseen' <=> h \in unseen)
      BY <1>3, <2>2
    <3>2. TendedAt(h)  BY DEF BanInv, Tended
    <3>3. Left(h)' <=> Left(h)  BY <3>1, Apart DEF Left
    <3>4. QED  BY <3>1, <3>2, <3>3 DEF TendedAt, Unbanned, Outlived, G!Wanted
  <2>3. QED  BY <2>1, <2>2
<1>7. QED  BY <1>3, <1>4, <1>5, <1>6 DEF Tended

\* The sweeper takes over a journal whose lease has run out.
LEMMA SweepKeeps ==
  ASSUME G!GlobalBansAssumption, BanInv, NEW g \in Groups, G!Sweep(g)
  PROVE  BanInv'
<1>1. /\ at[Sweeper][g] = "idle" /\ banJournal[g] # NoLease /\ due[g]
      /\ banJournal' = [h \in Groups |-> IF h \in {g} THEN Sweeper ELSE banJournal[h]]
      /\ due' = [h \in Groups |-> IF h \in {g} THEN FALSE ELSE due[h]]
      /\ G!Go(Sweeper, g, "fix.read") /\ unseen' = unseen \ {g}
      /\ banPolicy' = banPolicy /\ local' = local /\ present' = present /\ op' = op
      /\ banBanned' = banBanned /\ snap' = snap /\ messages' = messages
          /\ banFaults' = banFaults
  BY DEF G!Sweep, G!Is, G!Lease, G!policies, G!steady
<1>2. /\ banJournal' \in [Groups -> Ops \cup {Sweeper, NoLease}]
          /\ due' \in [Groups -> BOOLEAN]
      /\ banJournal'[g] = Sweeper
      /\ \A h \in Groups : h # g => banJournal'[h] = banJournal[h] /\ due'[h] = due[h]
  BY <1>1 DEF BanInv, G!TypeOK
<1>3. /\ G!TypeOK' /\ StepsFit' /\ Tended' /\ at'[Sweeper][g] = "fix.read"
      /\ \A v \in G!Workers, h \in Groups : v # Sweeper \/ h # g => at'[v][h] = at[v][h]
  <2>1. messages' \in 0..MaxMessages  BY <1>1 DEF BanInv, G!TypeOK
  <2>2. QED  BY <1>1, <1>2, <2>1, TakeUp
<1>4. ASSUME messages' = 0, NEW p \in Ops, G!Started' \subseteq {p}, NEW h \in Groups
      PROVE  Sole(p, h)'
  <2>1. Sole(p, h)  BY <1>1, <1>4 DEF BanInv, Covered, G!Started
  <2>2. CASE h # g
    <3>1. /\ \A v \in G!Workers : at'[v][h] = at[v][h]
          /\ banJournal'[h] = banJournal[h] /\ due'[h] = due[h]
      BY <1>2, <1>3, <2>2
    <3>2. Alone(p, h)'  BY <1>1, <2>1, <3>1, Apart DEF Sole, Alone
    <3>3. (WhileBanned(p, h) /\ WhileLocal(p, h) /\ WhileFree(p, h) /\ Agrees(h))'
      BY <1>1, <2>1, <3>1, Apart
      DEF Sole, WhileBanned, WhileLocal, WhileFree, Agrees, G!Wanted
    <3>4. QED  BY <3>2, <3>3 DEF Sole
  <2>3. CASE h = g
    <3>1. /\ at[p][g] \notin G!LocalSteps /\ ~local[g] /\ op[p] # "idle"
      BY <1>1, <2>1, <2>3 DEF Sole, Alone, WhileLocal
    <3>2. /\ \A q \in Ops : at'[q][g] = at[q][g]
          /\ at'[Enforcer][g] = at[Enforcer][g]
      BY <1>3, Apart
    <3>3. Alone(p, g)'  BY <1>1, <1>2, <2>1, <2>3, <3>1, <3>2, Apart DEF Sole, Alone
    <3>4. (WhileBanned(p, g) /\ WhileLocal(p, g) /\ WhileFree(p, g) /\ Agrees(g))'
      BY <1>1, <1>2, <1>3, <2>1, <2>3, <3>1, <3>2, Apart
      DEF Sole, WhileBanned, WhileLocal, WhileFree, Agrees, G!Wanted
    <3>5. QED  BY <2>3, <3>3, <3>4 DEF Sole
  <2>4. QED  BY <2>2, <2>3
<1>5. QED  BY <1>3, <1>4 DEF BanInv, Covered

\* A message or a join is taken up.
LEMMA ArrivesKeeps ==
  ASSUME G!GlobalBansAssumption, BanInv, NEW g \in Groups, G!Arrives(g)
  PROVE  BanInv'
<1>1. /\ at[Enforcer][g] = "idle" /\ messages < MaxMessages /\ messages' = messages + 1
      /\ banJournal' = banJournal /\ due' = due
      /\ G!Go(Enforcer, g, "fix.read") /\ unseen' = unseen \ {g}
      /\ banPolicy' = banPolicy /\ local' = local /\ present' = present /\ op' = op
      /\ banBanned' = banBanned /\ snap' = snap /\ banFaults' = banFaults
  BY DEF G!Arrives, G!Is, G!policies, G!journals
<1>2. messages' \in 0..MaxMessages /\ messages' # 0
  BY <1>1 DEF BanInv, G!TypeOK, G!GlobalBansAssumption
<1>3. G!TypeOK' /\ StepsFit' /\ Tended'
  <2>1. banJournal' \in [Groups -> Ops \cup {Sweeper, NoLease}] /\ due' \in [Groups -> BOOLEAN]
    BY <1>1 DEF BanInv, G!TypeOK
  <2>2. QED  BY <1>1, <1>2, <2>1, TakeUp
<1>4. QED  BY <1>2, <1>3 DEF BanInv, Covered

\* The bot is back in a group.
LEMMA ReturnKeeps ==
  ASSUME G!GlobalBansAssumption, BanInv, NEW g \in Groups, G!Return(g)
  PROVE  BanInv'
<1>1. /\ present' = [present EXCEPT ![g] = TRUE]
      /\ banPolicy' = banPolicy /\ local' = local /\ banJournal' = banJournal /\ due' = due
          /\ op' = op
      /\ banBanned' = banBanned /\ at' = at /\ snap' = snap
      /\ unseen' = unseen /\ messages' = messages /\ banFaults' = banFaults
  BY DEF G!Return, G!policies, G!journals
<1>2. G!TypeOK'  BY <1>1 DEF BanInv, G!TypeOK
<1>3. StepsFit' /\ Tended'
  BY <1>1 DEF BanInv, StepsFit, Tended, TendedAt, Left, Unbanned, Outlived, G!Wanted
<1>4. Covered'
  BY <1>1
  DEF BanInv, Covered, G!Started, Sole, Alone, WhileBanned, WhileLocal, WhileFree, Agrees,
  G!Wanted
<1>5. QED  BY <1>2, <1>3, <1>4 DEF BanInv

\* A restart forgets what was running and keeps the rows.
LEMMA CrashKeeps ==
  ASSUME G!GlobalBansAssumption, BanInv, G!Crash
  PROVE  BanInv'
<1>1. /\ op' = [o \in Ops |-> IF op[o] = "idle" THEN "idle" ELSE "over"]
      /\ at' = [w \in G!Workers |-> [g \in Groups |->
                  IF w \in Ops /\ op[w] # "idle" THEN "done" ELSE "idle"]]
      /\ banPolicy' = banPolicy /\ local' = local /\ banJournal' = banJournal /\ due' = due
      /\ present' = present /\ banBanned' = banBanned /\ snap' = snap
      /\ unseen' = unseen /\ messages' = messages
  BY DEF G!Crash, G!policies, G!journals
<1>2. banFaults' # 0 /\ banFaults' \in 0..MaxBanFaults
  BY Counted DEF BanInv, G!Crash
<1>3. /\ at' \in [G!Workers -> [Groups -> G!Steps]]
      /\ \A o \in Ops, g \in Groups : at'[o][g] = IF op[o] # "idle" THEN "done" ELSE "idle"
      /\ \A w \in {Sweeper, Enforcer}, g \in Groups : at'[w][g] = "idle"
  BY <1>1, Apart DEF G!Steps
<1>4. G!TypeOK'  BY <1>1, <1>2, <1>3 DEF BanInv, G!TypeOK
<1>5. StepsFit'
  <2>1. \A o \in Ops : op'[o] = IF op[o] = "idle" THEN "idle" ELSE "over"  BY <1>1
  <2>2. QED  BY <1>3, <2>1 DEF StepsFit, OpSteps
<1>6. Tended'  BY <1>2 DEF Tended, TendedAt
<1>7. ASSUME messages' = 0, NEW p \in Ops, G!Started' \subseteq {p}, NEW g \in Groups
      PROVE  Sole(p, g)'
  <2>1. G!Started' = G!Started  BY <1>1 DEF G!Started
  <2>2. Sole(p, g)  BY <1>1, <1>7, <2>1 DEF BanInv, Covered
  <2>3. \A q \in Ops \ {p} : op[q] = "idle"  BY <1>7, <2>1 DEF G!Started
  <2>4. at'[p][g] \in {"idle", "done"} /\ (op[p] # "idle" => at'[p][g] = "done")
    BY <1>3
  <2>5. op'[p] = "idle" <=> op[p] = "idle"  BY <1>1
  <2>6. Alone(p, g)'
    <3>1. /\ at'[Enforcer][g] = "idle" /\ at'[Sweeper][g] = "idle"
          /\ \A q \in Ops \ {p} : at'[q][g] = "idle"
      BY <1>3, <2>3
    <3>2. at'[p][g] \notin G!LocalSteps /\ at'[p][g] \notin G!FixSteps
      BY <2>4 DEF G!LocalSteps, G!FixSteps
    <3>3. Alone(p, g)  BY <2>2 DEF Sole
    <3>4. QED  BY <1>1, <2>5, <3>1, <3>2, <3>3 DEF Alone
  <2>7. (WhileBanned(p, g) /\ WhileLocal(p, g) /\ WhileFree(p, g) /\ Agrees(g))'
    BY <1>1, <1>3, <2>2, <2>4
    DEF Sole, Alone, WhileBanned, WhileLocal, WhileFree, Agrees, G!Wanted, G!BanSteps
  <2>8. QED  BY <2>6, <2>7 DEF Sole
<1>8. QED  BY <1>4, <1>5, <1>6, <1>7 DEF BanInv, Covered

-----------------------------------------------------------------------------
(* The theorems *)

\* The initial states satisfy the invariant.
LEMMA BansInit == ASSUME G!GlobalBansAssumption, G!Init PROVE BanInv
<1>1. G!TypeOK
  BY DEF G!GlobalBansAssumption, G!Init, G!TypeOK, G!Steps
<1>2. /\ \A w \in G!Workers, g \in Groups : at[w][g] = "idle"
      /\ \A g \in Groups : banBanned[g] = banPolicy /\ banJournal[g] = NoLease /\ ~local[g]
      /\ \A o \in Ops : op[o] = "idle"
  BY DEF G!Init
<1>3. StepsFit  BY <1>2, Apart DEF StepsFit, OpSteps
<1>4. Tended
  BY <1>2 DEF Tended, TendedAt, Unbanned, Outlived, G!Wanted
<1>5. Covered
  BY <1>2, Apart
  DEF Covered, Sole, Alone, WhileBanned, WhileLocal, WhileFree, Agrees, G!Wanted, G!BanSteps,
      G!LocalSteps, G!FixSteps
<1>6. QED  BY <1>1, <1>3, <1>4, <1>5 DEF BanInv

\* Every step keeps it.
LEMMA BansNext == ASSUME G!GlobalBansAssumption, BanInv, [G!Next]_banVars PROVE BanInv'
<1>1. ASSUME NEW o \in Ops, NEW g \in Groups, G!OfOp(o, g)  PROVE BanInv'
  <2>1. CASE G!StartGroupBan(o, g) \/ G!StartGroupUnban(o, g)  BY <2>1, StartGroupKeeps
  <2>2. CASE G!BanRead(o, g) \/ G!BanCall(o, g) \/ G!BanAgain(o, g) \/ G!BanLift(o, g)
             \/ G!BanRestore(o, g)
    BY <2>2, BanReadKeeps, BanCallKeeps, BanAgainKeeps, BanLiftKeeps, BanRestoreKeeps
  <2>3. CASE G!UnbanRead(o, g) \/ G!UnbanCall(o, g) \/ G!UnbanAgain(o, g) \/ G!UnbanReban(o, g)
             \/ G!UnbanRestore(o, g)
    BY <2>3, UnbanReadKeeps, UnbanCallKeeps, UnbanAgainKeeps, UnbanRebanKeeps,
       UnbanRestoreKeeps
  <2>4. CASE G!SetCall(o, g) \/ G!SetRecord(o, g)  BY <2>4, SetCallKeeps, SetRecordKeeps
  <2>5. CASE G!ClearCall(o, g) \/ G!ClearRecord(o, g) \/ G!ClearReban(o, g)
                 \/ G!ClearRestore(o, g)
    BY <2>5, ClearCallKeeps, ClearRecordKeeps, ClearRebanKeeps, ClearRestoreKeeps
  <2>6. QED  BY <1>1, <2>1, <2>2, <2>3, <2>4, <2>5 DEF G!OfOp
<1>2. ASSUME NEW w \in G!Workers, NEW g \in Groups, G!Fix(w, g)  PROVE BanInv'
  BY <1>2, FixReadKeeps, FixBanKeeps, FixLiftKeeps, FixSeenKeeps, FixRestoreKeeps, FixEndKeeps
  DEF G!Fix
<1>3. ASSUME NEW o \in Ops, G!StartBan(o) \/ G!StartUnban(o)  PROVE BanInv'
  BY <1>3, StartGlobalKeeps
<1>4. ASSUME NEW o \in Ops, G!Over(o)  PROVE BanInv'  BY <1>4, OverKeeps
<1>5. ASSUME NEW g \in Groups, G!LeaseEnds(g) \/ G!Sweep(g) \/ G!Arrives(g) \/ G!Return(g)
      PROVE  BanInv'
  BY <1>5, LeaseEndsKeeps, SweepKeeps, ArrivesKeeps, ReturnKeeps
<1>6. CASE G!Crash  BY <1>6, CrashKeeps
<1>7. CASE UNCHANGED banVars
  <2>1. /\ banPolicy' = banPolicy /\ local' = local /\ banJournal' = banJournal /\ due' = due
            /\ op' = op
        /\ present' = present /\ banBanned' = banBanned /\ at' = at /\ snap' = snap
        /\ unseen' = unseen /\ messages' = messages /\ banFaults' = banFaults
    BY <1>7 DEF banVars
  <2>2. G!TypeOK'  BY <2>1 DEF BanInv, G!TypeOK
  <2>3. StepsFit' /\ Tended'
    BY <2>1 DEF BanInv, StepsFit, Tended, TendedAt, Left, Unbanned, Outlived, G!Wanted
  <2>4. Covered'
    BY <2>1
    DEF BanInv, Covered, G!Started, Sole, Alone, WhileBanned, WhileLocal, WhileFree, Agrees,
        G!Wanted
  <2>5. QED  BY <2>2, <2>3, <2>4 DEF BanInv
<1>8. QED  BY <1>1, <1>2, <1>3, <1>4, <1>5, <1>6, <1>7 DEF G!Next

\* The inductive invariant: while nothing has failed, a group that disagrees with the policy
\* has a worker that still acts on it or a journal; an operation that is alone finds what it
\* has done, and no group disagrees without a journal.
THEOREM BanInvariant ==
  ASSUME G!GlobalBansAssumption
  PROVE  G!Init /\ [][G!Next]_banVars => []BanInv
<1>1. G!Init => BanInv  BY BansInit
<1>2. BanInv /\ [G!Next]_banVars => BanInv'  BY BansNext
<1>3. QED  BY <1>1, <1>2, PTL

\* The composed module counts as the library does.
LEMMA SameCardinality == \A N : G!Cardinality(N) = Cardinality(N)
  BY DEF G!Cardinality, Cardinality

\* It speaks of the same finiteness.
LEMMA SameFiniteness == \A N : G!IsFiniteSet(N) <=> IsFiniteSet(N)
  BY DEF G!IsFiniteSet, IsFiniteSet

\* While one operation has started, it is the one.
LEMMA OnlyOne ==
  ASSUME G!GlobalBansAssumption, Cardinality(G!Started) = 1
  PROVE  \E o \in Ops : G!Started \subseteq {o}
<1>1. IsFiniteSet(G!Started) /\ G!Started \subseteq Ops
  BY FS_Subset, SameFiniteness DEF G!GlobalBansAssumption, G!Started
<1>2. PICK o : G!Started = {o}  BY <1>1, FS_Singleton
<1>3. QED  BY <1>1, <1>2

\* The last recorded policy wins in every group, however many operations overtake each other.
THEOREM LastPolicyWins ==
  ASSUME G!GlobalBansAssumption
  PROVE  G!Spec => []G!PolicyWins
<1>1. ASSUME BanInv, NEW g \in Groups, G!Closed(g), banFaults = 0, g \notin unseen
      PROVE  (banPolicy => banBanned[g]) /\ (banBanned[g] => G!Wanted(g))
  <2>1. TendedAt(g)  BY <1>1 DEF BanInv, Tended
  <2>2. \A w \in G!Workers : at[w][g] \notin BanAhead /\ at[w][g] \notin LiftAhead
    BY <1>1 DEF G!Closed, G!Quiet, BanAhead, LiftAhead
  <2>3. ~Left(g)  BY <1>1, Apart DEF G!Closed, Left
  <2>4. QED  BY <1>1, <2>1, <2>2, <2>3 DEF TendedAt, Unbanned, Outlived
<1>2. BanInv => G!PolicyWins  BY <1>1 DEF G!PolicyWins
<1>3. QED  BY <1>2, BanInvariant, PTL DEF G!Spec, G!vars, banVars

\* One operation's failed calls and a restart under it cost nothing: Telegram agrees with
\* the policy, or the group's journal is there for the sweeper.
THEOREM OneOperationCovered ==
  ASSUME G!GlobalBansAssumption
  PROVE  G!Spec => []G!JournalCovers
<1>1. ASSUME BanInv, NEW g \in Groups, G!Closed(g), messages = 0, Cardinality(G!Started) = 1
      PROVE  banBanned[g] <=> G!Wanted(g)
  <2>1. PICK o \in Ops : G!Started \subseteq {o}  BY <1>1, OnlyOne
  <2>2. Sole(o, g)  BY <1>1, <2>1 DEF BanInv, Covered
  <2>3. QED  BY <1>1, <2>2 DEF Sole, Agrees, G!Closed
<1>2. BanInv => G!JournalCovers  BY <1>1, SameCardinality DEF G!JournalCovers
<1>3. QED  BY <1>2, BanInvariant, PTL DEF G!Spec, G!vars, banVars

-----------------------------------------------------------------------------
(* One message's scopes: BanScope *)

Asks == {p \in ScopePresses : press[p].step # "idle"}
PressForms == [step : {"idle", "claimed", "over"}, scope : B!Scopes, token : B!Tokens \cup {0}]

\* A token is made for a press, and is claimed for no scope before it is made.
TokensMade ==
  /\ token \in 0..made /\ made <= 1 + Cardinality(Asks)
  /\ \A t \in B!Tokens : t > made => claimed[t] = "none"

\* A press that has claimed its scope and a task hold a token that was made; the task of the
\* present token has its scope claimed, unless it was queued without.
TokensHeld ==
  /\ \A p \in ScopePresses : press[p].step = "claimed" => press[p].token \in 1..made
  /\ \A s \in B!Scopes : scopeTask[s] \in ScopePresses =>
       /\ press[scopeTask[s]].step = "over" /\ press[scopeTask[s]].scope = s
       /\ press[scopeTask[s]].token \in 1..made
       /\ ~renewed[s] /\ press[scopeTask[s]].token = token => claimed[token] = s

\* Behind a claim is a task of its token, or a press about to queue one.
Pending(s) == \/ scopeTask[s] \in ScopePresses /\ press[scopeTask[s]].token = token
              \/ \E p \in ScopePresses : /\ press[p].step = "claimed" /\ press[p].token = token
                                         /\ press[p].scope = s
Backed == \A s \in B!Scopes : token # 0 /\ claimed[token] = s /\ ~borrowed => Pending(s)

\* The inductive invariant.
ScopeInv == B!TypeOK /\ TokensMade /\ TokensHeld /\ Backed

-----------------------------------------------------------------------------
(* Presses and tokens *)

\* This module, too, counts as the library does.
LEMMA SameCount == \A N : B!Cardinality(N) = Cardinality(N)
  BY DEF B!Cardinality, Cardinality

\* It, too, speaks of the same finiteness.
LEMMA SameFinite == \A N : B!IsFiniteSet(N) <=> IsFiniteSet(N)
  BY DEF B!IsFiniteSet, IsFiniteSet

\* The numbers and the presses there are.
LEMMA Numbers ==
  ASSUME B!BanScopeAssumption, B!TypeOK
  PROVE  /\ Cardinality(ScopePresses) \in Nat /\ Cardinality(Asks) \in Nat
         /\ Cardinality(Asks) <= Cardinality(ScopePresses)
         /\ \A p \in ScopePresses \ Asks :
              /\ Cardinality(Asks \cup {p}) = Cardinality(Asks) + 1
              /\ Cardinality(Asks) < Cardinality(ScopePresses)
         /\ made \in Nat /\ token \in Nat /\ B!Tokens \subseteq Nat
         /\ press \in [ScopePresses -> PressForms]
<1>1. IsFiniteSet(ScopePresses) /\ Cardinality(ScopePresses) \in Nat
  BY FS_CardinalityType, SameFinite DEF B!BanScopeAssumption
<1>2. /\ IsFiniteSet(Asks) /\ Cardinality(Asks) \in Nat
      /\ Cardinality(Asks) <= Cardinality(ScopePresses)
  BY <1>1, FS_Subset, FS_CardinalityType DEF Asks
<1>3. ASSUME NEW p \in ScopePresses \ Asks
      PROVE  /\ Cardinality(Asks \cup {p}) = Cardinality(Asks) + 1
             /\ Cardinality(Asks) < Cardinality(ScopePresses)
  <2>1. Cardinality(Asks \cup {p}) = Cardinality(Asks) + 1
    BY <1>2, FS_AddElement
  <2>2. Asks \cup {p} \in SUBSET ScopePresses  BY DEF Asks
  <2>3. Cardinality(Asks \cup {p}) <= Cardinality(ScopePresses)  BY <1>1, <2>2, FS_Subset
  <2>4. QED  BY <1>1, <1>2, <2>1, <2>3
<1>4. /\ made \in Nat /\ token \in Nat /\ B!Tokens \subseteq Nat
      /\ press \in [ScopePresses -> PressForms]
  BY <1>1 DEF B!TypeOK, B!Tokens, PressForms
<1>5. QED  BY <1>1, <1>2, <1>3, <1>4

\* A press's record after a step is one.
LEMMA PressRecords ==
  /\ \A f \in PressForms, st \in {"idle", "claimed", "over"} :
       /\ [f EXCEPT !.step = st] \in PressForms
       /\ [f EXCEPT !.step = st].step = st
       /\ [f EXCEPT !.step = st].scope = f.scope /\ [f EXCEPT !.step = st].token = f.token
  /\ \A s \in B!Scopes, t \in B!Tokens :
       [step |-> "claimed", scope |-> s, token |-> t] \in PressForms
  BY DEF PressForms

\* Presses that ask no more leave the count of tokens in order.
LEMMA CountKeeps ==
  ASSUME B!BanScopeAssumption, B!TypeOK, B!TypeOK', TokensMade, made' = made,
         token' \in {token, 0}, Asks' = Asks,
         \A t \in B!Tokens : claimed'[t] # claimed[t] => claimed'[t] = "none"
  PROVE  TokensMade'
<1>1. made \in Nat /\ token' \in 0..made  BY Numbers DEF TokensMade
<1>2. B!Tokens' = B!Tokens  BY DEF B!Tokens
<1>3. QED  BY <1>1, <1>2 DEF TokensMade

-----------------------------------------------------------------------------
(* The steps *)

\* Who claims finds the token unclaimed or claimed for the same scope.
LEMMA ClaimKeeps ==
  ASSUME B!BanScopeAssumption, ScopeInv, NEW p \in ScopePresses, NEW s \in B!Scopes,
         B!Claim(p, s)
  PROVE  ScopeInv'
<1> DEFINE t == B!Current
<1>1. /\ press[p].step = "idle" /\ t # 0 /\ token' = t /\ made' = IF t > made THEN t ELSE made
      /\ IF claimed[t] \in {"none", s}
           THEN /\ claimed' = [claimed EXCEPT ![t] = s]
                /\ press' = [press EXCEPT ![p] =
                              [step |-> "claimed", scope |-> s, token |-> t]]
           ELSE press' = [press EXCEPT ![p].step = "over"] /\ claimed' = claimed
      /\ recent' = recent /\ scopeTask' = scopeTask /\ renewed' = renewed
          /\ borrowed' = borrowed
      /\ scopeFaults' = scopeFaults
  BY DEF B!Claim
<1>2. /\ p \notin Asks /\ Cardinality(Asks) < Cardinality(ScopePresses)
      /\ Cardinality(Asks \cup {p}) = Cardinality(Asks) + 1
      /\ Cardinality(Asks) \in Nat /\ Cardinality(ScopePresses) \in Nat
      /\ made \in Nat /\ token \in 0..made /\ made <= 1 + Cardinality(Asks)
      /\ press \in [ScopePresses -> PressForms]
  BY <1>1, Numbers DEF ScopeInv, Asks, TokensMade
<1>3. t \in {token, made + 1} /\ (t = token \/ token = 0)  BY DEF B!Current
<1> HIDE DEF t
<1>4. /\ t \in 1..(made + 1) /\ t \in B!Tokens /\ made' \in B!Tokens /\ t \in 1..made'
      /\ made <= made' /\ made' \in Nat
      /\ made' <= 1 + (Cardinality(Asks) + 1)
      /\ t = token \/ t > made
  BY <1>1, <1>2, <1>3, SameCount DEF B!Tokens, ScopeInv, B!TypeOK
<1>5. claimed \in [B!Tokens -> B!Scopes \cup {"none"}]  BY DEF ScopeInv, B!TypeOK
<1>6. /\ press' \in [ScopePresses -> PressForms] /\ press'[p].step # "idle"
      /\ \A q \in ScopePresses : q # p => press'[q] = press[q]
      /\ press'[p].step = "claimed" =>
           press'[p].scope = s /\ press'[p].token = t /\ claimed'[t] = s
      /\ press'[p].step = "over" => claimed' = claimed /\ claimed[t] \notin {"none", s}
      /\ press'[p].step \in {"claimed", "over"}
  <2>1. CASE claimed[t] \in {"none", s}
    <3>1. [step |-> "claimed", scope |-> s, token |-> t] \in PressForms
      BY <1>4, PressRecords
    <3>2. press' = [press EXCEPT ![p] = [step |-> "claimed", scope |-> s, token |-> t]]
          /\ claimed' = [claimed EXCEPT ![t] = s]
      BY <1>1, <2>1
    <3>3. QED  BY <1>2, <1>4, <1>5, <3>1, <3>2
  <2>2. CASE claimed[t] \notin {"none", s}
    <3>1. press[p] \in PressForms  BY <1>2
    <3>2. [press[p] EXCEPT !.step = "over"] \in PressForms
          /\ [press[p] EXCEPT !.step = "over"].step = "over"
      BY <3>1, PressRecords
    <3>3. /\ press' = [press EXCEPT ![p] = [press[p] EXCEPT !.step = "over"]]
          /\ claimed' = claimed
      BY <1>1, <2>2
    <3>4. QED  BY <1>2, <2>2, <3>2, <3>3
  <2>3. QED  BY <2>1, <2>2
<1>7. /\ claimed' \in [B!Tokens -> B!Scopes \cup {"none"}]
      /\ \A u \in B!Tokens : u # t => claimed'[u] = claimed[u]
      /\ claimed[t] \in B!Scopes => claimed'[t] = claimed[t]
  BY <1>1, <1>4, <1>5 DEF B!Scopes
<1>8. B!TypeOK'
  BY <1>1, <1>4, <1>6, <1>7 DEF ScopeInv, B!TypeOK, PressForms, B!Tokens
<1>9. TokensMade'
  <2>1. Asks' = Asks \cup {p}  BY <1>6 DEF Asks
  <2>2. made' <= 1 + Cardinality(Asks')  BY <1>2, <1>4, <2>1
  <2>3. ASSUME NEW u \in B!Tokens, u > made'  PROVE claimed'[u] = "none"
    <3>1. u \in Nat /\ u > made /\ u # t  BY <1>2, <1>4, <2>3 DEF B!Tokens
    <3>2. QED  BY <1>7, <3>1 DEF ScopeInv, TokensMade
  <2>4. token' \in 0..made'  BY <1>1, <1>4
  <2>5. QED  BY <2>2, <2>3, <2>4 DEF TokensMade, B!Tokens
<1>10. TokensHeld'
  <2>1. \A q \in ScopePresses : press'[q].step = "claimed" => press'[q].token \in 1..made'
    BY <1>2, <1>4, <1>6 DEF ScopeInv, TokensHeld
  <2>2. ASSUME NEW r \in B!Scopes, scopeTask'[r] \in ScopePresses
        PROVE  /\ press'[scopeTask'[r]].step = "over" /\ press'[scopeTask'[r]].scope = r
               /\ press'[scopeTask'[r]].token \in 1..made'
               /\ ~renewed'[r] /\ press'[scopeTask'[r]].token = token' => claimed'[token'] = r
    <3>1. /\ scopeTask[r] \in ScopePresses /\ press[scopeTask[r]].step = "over"
              /\ press[scopeTask[r]].scope = r
          /\ press[scopeTask[r]].token \in 1..made
          /\ ~renewed[r] /\ press[scopeTask[r]].token = token => claimed[token] = r
      BY <1>1, <2>2 DEF ScopeInv, TokensHeld
    <3>2. scopeTask[r] # p /\ press'[scopeTask[r]] = press[scopeTask[r]]  BY <1>1, <1>6, <3>1
    <3>3. press[scopeTask[r]].token = t => t = token  BY <1>2, <1>4, <3>1
    <3>4. QED  BY <1>1, <1>2, <1>4, <1>7, <3>1, <3>2, <3>3
  <2>3. QED  BY <2>1, <2>2 DEF TokensHeld
<1>11. Backed'
  <2>1. ASSUME NEW r \in B!Scopes, claimed'[t] = r, ~borrowed  PROVE Pending(r)'
    <3>1. CASE press'[p].step = "claimed"  BY <1>1, <1>6, <2>1, <3>1 DEF Pending
    <3>2. CASE press'[p].step = "over"
      <4>1. claimed[t] = r /\ t = token
        <5>1. claimed[t] = r /\ claimed[t] # "none"  BY <1>6, <2>1, <3>2
        <5>2. ~(t > made)  BY <1>4, <5>1 DEF ScopeInv, TokensMade
        <5>3. QED  BY <1>4, <5>1, <5>2
      <4>2. Pending(r)  BY <1>1, <2>1, <4>1 DEF ScopeInv, Backed
      <4>3. \A q \in ScopePresses : press[q].step = "claimed" => q # p  BY <1>1
      <4>4. scopeTask[r] \in ScopePresses => scopeTask[r] # p
        BY <1>1 DEF ScopeInv, TokensHeld
      <4>5. QED  BY <1>1, <1>6, <4>1, <4>2, <4>3, <4>4 DEF Pending
    <3>3. QED  BY <1>6, <3>1, <3>2
  <2>2. QED  BY <1>1, <2>1 DEF Backed
<1>12. QED  BY <1>8, <1>9, <1>10, <1>11 DEF ScopeInv

\* A press that is turned away has no token.
LEMMA TurnedAwayKeeps ==
  ASSUME B!BanScopeAssumption, ScopeInv, NEW p \in ScopePresses, B!TurnedAway(p)
  PROVE  ScopeInv'
<1>1. /\ press[p].step = "idle" /\ B!Current = 0
      /\ press' = [press EXCEPT ![p] = [press[p] EXCEPT !.step = "over"]]
      /\ token' = token /\ made' = made /\ claimed' = claimed
      /\ recent' = recent /\ scopeTask' = scopeTask /\ renewed' = renewed
          /\ borrowed' = borrowed
      /\ scopeFaults' = scopeFaults
  BY DEF B!TurnedAway
<1>2. /\ p \notin Asks /\ Cardinality(Asks \cup {p}) = Cardinality(Asks) + 1
      /\ Cardinality(Asks) \in Nat /\ made \in Nat /\ press \in [ScopePresses -> PressForms]
  BY <1>1, Numbers DEF ScopeInv, Asks
<1>3. token = 0  BY <1>1, <1>2 DEF B!Current
<1>4. /\ press' \in [ScopePresses -> PressForms] /\ press'[p].step = "over"
      /\ \A q \in ScopePresses : q # p => press'[q] = press[q]
  BY <1>1, <1>2, PressRecords
<1>5. B!TypeOK'  BY <1>1, <1>4 DEF ScopeInv, B!TypeOK, PressForms, B!Tokens
<1>6. Asks' = Asks \cup {p}  BY <1>4 DEF Asks
<1>7. TokensMade'
  <2>1. made' <= 1 + Cardinality(Asks')  BY <1>1, <1>2, <1>6 DEF ScopeInv, TokensMade
  <2>2. QED  BY <1>1, <2>1 DEF ScopeInv, TokensMade, B!Tokens
<1>8. TokensHeld'
  <2>1. \A s \in B!Scopes : scopeTask[s] \in ScopePresses => scopeTask[s] # p
    BY <1>1 DEF ScopeInv, TokensHeld
  <2>2. QED  BY <1>1, <1>4, <2>1 DEF ScopeInv, TokensHeld
<1>9. Backed'  BY <1>1, <1>3 DEF Backed
<1>10. QED  BY <1>5, <1>7, <1>8, <1>9 DEF ScopeInv

\* A claim given back is the present token's, for that scope.
LEMMA Unclaims ==
  ASSUME B!BanScopeAssumption, B!TypeOK, NEW t, NEW s \in B!Scopes, B!Unclaim(t, s)
  PROVE  /\ claimed' \in [B!Tokens -> B!Scopes \cup {"none"}]
         /\ \A u \in B!Tokens : claimed'[u] # claimed[u] => claimed'[u] = "none"
         /\ \A r \in B!Scopes : r # s /\ token # 0 =>
              (claimed'[token] = r <=> claimed[token] = r)
         /\ t = token /\ t # 0 => claimed'[token] # s
<1>1. claimed \in [B!Tokens -> B!Scopes \cup {"none"}] /\ token \in B!Tokens \cup {0}
  BY DEF B!TypeOK
<1>2. "none" \notin B!Scopes  BY DEF B!Scopes
<1>3. CASE B!Backs(t, s)
  <2>1. claimed' = [claimed EXCEPT ![t] = "none"] /\ t = token /\ t # 0 /\ claimed[t] = s
    BY <1>3 DEF B!Unclaim, B!Backs
  <2>2. QED  BY <1>1, <1>2, <2>1
<1>4. CASE ~B!Backs(t, s)
  <2>1. claimed' = claimed  BY <1>4 DEF B!Unclaim
  <2>2. QED  BY <1>1, <1>4, <2>1 DEF B!Backs
<1>5. QED  BY <1>3, <1>4

\* A claimed press becomes a task, finds one, or gives its claim back.
LEMMA SubmitKeeps ==
  ASSUME B!BanScopeAssumption, ScopeInv, NEW p \in ScopePresses, B!Submit(p)
  PROVE  ScopeInv'
<1>0. PICK s, t : s = press[p].scope /\ t = press[p].token  OBVIOUS
<1>1. /\ press[p].step = "claimed" /\ token' = token /\ made' = made /\ recent' = recent
      /\ press' = [press EXCEPT ![p] = [press[p] EXCEPT !.step = "over"]]
  BY DEF B!Submit
<1>2. /\ made \in Nat /\ press \in [ScopePresses -> PressForms] /\ MaxScopeFaults \in Nat
      /\ scopeTask \in [B!Scopes -> ScopePresses \cup {Command, Nobody}]
      /\ renewed \in [B!Scopes -> BOOLEAN]
  BY Numbers DEF ScopeInv, B!TypeOK, B!BanScopeAssumption
<1>3. s \in B!Scopes /\ t \in 1..made /\ t # 0
  BY <1>0, <1>1, <1>2 DEF ScopeInv, TokensHeld, PressForms
<1>4. /\ press' \in [ScopePresses -> PressForms] /\ press'[p].step = "over"
      /\ press'[p].scope = s /\ press'[p].token = t
      /\ \A q \in ScopePresses : q # p => press'[q] = press[q]
  BY <1>0, <1>1, <1>2, PressRecords
<1>5. Asks' = Asks  BY <1>1, <1>4 DEF Asks
<1>6. \A q \in ScopePresses : press'[q].step = "claimed" => press'[q].token \in 1..made'
  BY <1>1, <1>4 DEF ScopeInv, TokensHeld
<1>7. \A r \in B!Scopes : scopeTask[r] \in ScopePresses =>
        /\ scopeTask[r] # p /\ press'[scopeTask[r]] = press[scopeTask[r]]
        /\ press'[scopeTask[r]].step = "over" /\ press'[scopeTask[r]].scope = r
        /\ press'[scopeTask[r]].token \in 1..made
        /\ ~renewed[r] /\ press'[scopeTask[r]].token = token => claimed[token] = r
  BY <1>1, <1>4 DEF ScopeInv, TokensHeld
<1>8. \A r \in B!Scopes : r # s /\ token # 0 /\ claimed[token] = r /\ ~borrowed =>
        \/ scopeTask[r] \in ScopePresses /\ press'[scopeTask[r]].token = token
        \/ \E q \in ScopePresses : /\ press'[q].step = "claimed" /\ press'[q].token = token
                                   /\ press'[q].scope = r
  BY <1>0, <1>4, <1>7 DEF ScopeInv, Backed, Pending
<1>9. t # token /\ token # 0 /\ claimed[token] = s /\ ~borrowed =>
        \/ scopeTask[s] \in ScopePresses /\ press'[scopeTask[s]].token = token
        \/ \E q \in ScopePresses : /\ press'[q].step = "claimed" /\ press'[q].token = token
                                   /\ press'[q].scope = s
  BY <1>0, <1>3, <1>4, <1>7 DEF ScopeInv, Backed, Pending
<1>10. CASE /\ B!Free(s) /\ scopeTask' = [scopeTask EXCEPT ![s] = p]
            /\ renewed' = [renewed EXCEPT ![s] = ~B!Backs(t, s)]
            /\ UNCHANGED <<claimed, borrowed, scopeFaults>>
  <2>1. /\ scopeTask' \in [B!Scopes -> ScopePresses \cup {Command, Nobody}]
            /\ scopeTask'[s] = p
        /\ \A r \in B!Scopes : r # s => scopeTask'[r] = scopeTask[r]
            /\ renewed'[r] = renewed[r]
    BY <1>2, <1>3, <1>10
  <2>2. renewed' \in [B!Scopes -> BOOLEAN] /\ (~renewed'[s] => B!Backs(t, s))
    BY <1>2, <1>3, <1>10 DEF B!Backs
  <2>3. B!TypeOK'
    BY <1>1, <1>4, <1>10, <2>1, <2>2 DEF ScopeInv, B!TypeOK, PressForms, B!Tokens
  <2>4. TokensMade'  BY <1>1, <1>5, <1>10, <2>3, CountKeeps DEF ScopeInv
  <2>5. TokensHeld'
    BY <1>1, <1>3, <1>4, <1>6, <1>7, <1>10, <2>1, <2>2 DEF TokensHeld, B!Backs
  <2>6. Backed'
    <3>1. t = token => Pending(s)'  BY <1>1, <1>4, <2>1 DEF Pending
    <3>2. B!Free(s) => scopeTask[s] \notin ScopePresses  BY DEF B!Free, B!BanScopeAssumption
    <3>3. \A r \in B!Scopes : (r # s \/ t # token) /\ claimed'[token'] = r /\ token' # 0
                             /\ ~borrowed' => Pending(r)'
      BY <1>1, <1>8, <1>9, <1>10, <2>1, <3>2 DEF Pending
    <3>4. QED  BY <3>1, <3>3 DEF Backed
  <2>7. QED  BY <2>3, <2>4, <2>5, <2>6 DEF ScopeInv
<1>11. CASE /\ ~B!Free(s) /\ borrowed' = (borrowed \/ B!Foreign(scopeTask[s], t))
            /\ UNCHANGED <<claimed, scopeTask, renewed, scopeFaults>>
  <2>1. /\ borrowed' \in BOOLEAN /\ (borrowed => borrowed')
        /\ ~borrowed' => ~B!Foreign(scopeTask[s], t)
    BY <1>11 DEF ScopeInv, B!TypeOK, B!Foreign
  <2>2. B!TypeOK'
    BY <1>1, <1>4, <1>11, <2>1 DEF ScopeInv, B!TypeOK, PressForms, B!Tokens
  <2>3. TokensMade'  BY <1>1, <1>5, <1>11, <2>2, CountKeeps DEF ScopeInv
  <2>4. TokensHeld'  BY <1>1, <1>6, <1>7, <1>11 DEF TokensHeld
  <2>5. Backed'
    <3>1. ~borrowed' => scopeTask[s] \in ScopePresses /\ press[scopeTask[s]].token = t
      BY <1>2, <1>3, <1>11, <2>1 DEF B!Foreign, B!Free
    <3>2. t = token /\ ~borrowed' => Pending(s)'
      BY <1>1, <1>3, <1>7, <1>11, <3>1 DEF Pending
    <3>3. \A r \in B!Scopes : (r # s \/ t # token) /\ claimed'[token'] = r /\ token' # 0
                             /\ ~borrowed' => Pending(r)'
      BY <1>1, <1>8, <1>9, <1>11, <2>1 DEF Pending
    <3>4. QED  BY <3>2, <3>3 DEF Backed
  <2>6. QED  BY <2>2, <2>3, <2>4, <2>5 DEF ScopeInv
<1>12. CASE B!Free(s) /\ B!Fails /\ B!Unclaim(t, s)
                /\ UNCHANGED <<scopeTask, renewed, borrowed>>
  <2>1. /\ claimed' \in [B!Tokens -> B!Scopes \cup {"none"}]
        /\ \A u \in B!Tokens : claimed'[u] # claimed[u] => claimed'[u] = "none"
        /\ \A r \in B!Scopes : r # s /\ token # 0 =>
             (claimed'[token] = r <=> claimed[token] = r)
        /\ t = token /\ t # 0 => claimed'[token] # s
    BY <1>3, <1>12, Unclaims DEF ScopeInv
  <2>2. scopeFaults' \in 0..MaxScopeFaults  BY <1>2, <1>12 DEF B!Fails, ScopeInv, B!TypeOK
  <2>3. B!TypeOK'
    BY <1>1, <1>4, <1>12, <2>1, <2>2 DEF ScopeInv, B!TypeOK, PressForms, B!Tokens
  <2>4. TokensMade'  BY <1>1, <1>5, <2>1, <2>3, CountKeeps DEF ScopeInv
  <2>5. scopeTask[s] \notin ScopePresses  BY <1>12 DEF B!Free, B!BanScopeAssumption
  <2>6. TokensHeld'
    BY <1>1, <1>2, <1>6, <1>7, <1>12, <2>1, <2>5 DEF TokensHeld
  <2>7. Backed'
    <3>1. token # 0 => (claimed'[token] = s => claimed[token] = s /\ t # token)
      <4>1. s # "none"  BY <1>3 DEF B!Scopes
      <4>2. token # 0 => token \in B!Tokens  BY DEF ScopeInv, B!TypeOK
      <4>3. QED  BY <1>3, <2>1, <4>1, <4>2
    <3>2. ASSUME NEW r \in B!Scopes, token # 0, claimed'[token] = r, ~borrowed
          PROVE  Pending(r)'
      <4>1. claimed[token] = r  BY <2>1, <3>1, <3>2
      <4>2. QED  BY <1>1, <1>8, <1>9, <1>12, <3>1, <3>2, <4>1 DEF Pending
    <3>3. QED  BY <1>1, <1>12, <3>2 DEF Backed
  <2>8. QED  BY <2>3, <2>4, <2>6, <2>7 DEF ScopeInv
<1>13. QED  BY <1>0, <1>10, <1>11, <1>12 DEF B!Submit

\* The token goes; tasks may end with it.
LEMMA TokenGone ==
  ASSUME B!BanScopeAssumption, ScopeInv, B!TypeOK', token' = 0, made' = made,
         claimed' = claimed,
         press' = press, \A s \in B!Scopes : scopeTask'[s] \in ScopePresses
             => scopeTask'[s] = scopeTask[s]
  PROVE  ScopeInv'
<1>1. TokensMade'
  <2>1. Asks' = Asks  BY DEF Asks
  <2>2. QED  BY <2>1, CountKeeps DEF ScopeInv
<1>2. TokensHeld'
  <2>1. made \in Nat  BY Numbers DEF ScopeInv
  <2>2. QED  BY <2>1 DEF ScopeInv, TokensHeld
<1>3. Backed'  BY DEF Backed
<1>4. QED  BY <1>1, <1>2, <1>3 DEF ScopeInv

\* A command's task takes a free key.
LEMMA AskedKeeps ==
  ASSUME B!BanScopeAssumption, ScopeInv, NEW s \in B!Scopes, B!Asked(s)
  PROVE  ScopeInv'
<1>1. /\ B!Free(s) /\ scopeTask' = [scopeTask EXCEPT ![s] = Command]
      /\ renewed' = [renewed EXCEPT ![s] = FALSE]
      /\ token' = token /\ made' = made /\ claimed' = claimed /\ recent' = recent
      /\ press' = press /\ borrowed' = borrowed /\ scopeFaults' = scopeFaults
  BY DEF B!Asked
<1>2. /\ scopeTask' \in [B!Scopes -> ScopePresses \cup {Command, Nobody}]
          /\ scopeTask'[s] = Command
      /\ \A r \in B!Scopes : r # s => scopeTask'[r] = scopeTask[r] /\ renewed'[r] = renewed[r]
      /\ renewed' \in [B!Scopes -> BOOLEAN]
  BY <1>1 DEF ScopeInv, B!TypeOK
<1>3. B!TypeOK'  BY <1>1, <1>2 DEF ScopeInv, B!TypeOK, B!Tokens
<1>4. Command \notin ScopePresses /\ scopeTask[s] \notin ScopePresses
  BY <1>1 DEF B!Free, B!BanScopeAssumption
<1>5. TokensMade'
  <2>1. Asks' = Asks  BY <1>1 DEF Asks
  <2>2. QED  BY <1>1, <1>3, <2>1, CountKeeps DEF ScopeInv
<1>6. TokensHeld'  BY <1>1, <1>2, <1>4 DEF ScopeInv, TokensHeld
<1>7. Backed'  BY <1>1, <1>2, <1>4 DEF ScopeInv, Backed, Pending
<1>8. QED  BY <1>3, <1>5, <1>6, <1>7 DEF ScopeInv

\* A task that is done takes its token with it.
LEMMA DoneKeeps ==
  ASSUME B!BanScopeAssumption, ScopeInv, NEW s \in B!Scopes, B!Done(s)
  PROVE  ScopeInv'
<1>1. /\ ~B!Free(s) /\ scopeTask' = [scopeTask EXCEPT ![s] = Nobody]
      /\ renewed' = [renewed EXCEPT ![s] = FALSE]
      /\ token' = IF scopeTask[s] # Command
          /\ press[scopeTask[s]].token = token THEN 0 ELSE token
      /\ made' = made /\ claimed' = claimed /\ recent' = recent
      /\ press' = press /\ borrowed' = borrowed /\ scopeFaults' = scopeFaults
  BY DEF B!Done
<1>2. /\ scopeTask' \in [B!Scopes -> ScopePresses \cup {Command, Nobody}]
          /\ scopeTask'[s] = Nobody
      /\ \A r \in B!Scopes : r # s => scopeTask'[r] = scopeTask[r] /\ renewed'[r] = renewed[r]
      /\ renewed' \in [B!Scopes -> BOOLEAN] /\ token' \in {token, 0}
      /\ scopeTask[s] \in ScopePresses \cup {Command}
  BY <1>1 DEF ScopeInv, B!TypeOK, B!Free
<1>3. B!TypeOK'  BY <1>1, <1>2 DEF ScopeInv, B!TypeOK, B!Tokens
<1>4. Nobody \notin ScopePresses /\ Command \notin ScopePresses  BY DEF B!BanScopeAssumption
<1>5. CASE token' = 0
  BY <1>1, <1>2, <1>3, <1>4, <1>5, TokenGone
<1>6. CASE token' = token /\ token # 0
  <2>1. ~(scopeTask[s] \in ScopePresses /\ press[scopeTask[s]].token = token)
    BY <1>1, <1>4, <1>6
  <2>2. TokensMade'
    <3>1. Asks' = Asks  BY <1>1 DEF Asks
    <3>2. QED  BY <1>1, <1>3, <1>6, <3>1, CountKeeps DEF ScopeInv
  <2>3. TokensHeld'  BY <1>1, <1>2, <1>4, <1>6 DEF ScopeInv, TokensHeld
  <2>4. Backed'  BY <1>1, <1>2, <1>6, <2>1 DEF ScopeInv, Backed, Pending
  <2>5. QED  BY <1>3, <2>2, <2>3, <2>4 DEF ScopeInv
<1>7. QED  BY <1>2, <1>5, <1>6

\* A task that failed gives its claim back.
LEMMA FailedKeeps ==
  ASSUME B!BanScopeAssumption, ScopeInv, NEW s \in B!Scopes, B!Failed(s)
  PROVE  ScopeInv'
<1>1. /\ ~B!Free(s) /\ B!Fails /\ scopeTask' = [scopeTask EXCEPT ![s] = Nobody]
      /\ renewed' = [renewed EXCEPT ![s] = FALSE]
      /\ IF scopeTask[s] = Command THEN claimed' = claimed
                              ELSE B!Unclaim(press[scopeTask[s]].token, s)
      /\ token' = token /\ made' = made /\ recent' = recent
      /\ press' = press /\ borrowed' = borrowed
  BY DEF B!Failed
<1>2. /\ scopeTask' \in [B!Scopes -> ScopePresses \cup {Command, Nobody}]
          /\ scopeTask'[s] = Nobody
      /\ \A r \in B!Scopes : r # s => scopeTask'[r] = scopeTask[r] /\ renewed'[r] = renewed[r]
      /\ renewed' \in [B!Scopes -> BOOLEAN]
      /\ scopeTask[s] \in ScopePresses \cup {Command}
  BY <1>1 DEF ScopeInv, B!TypeOK, B!Free
<1>3. scopeFaults' \in 0..MaxScopeFaults
  BY <1>1 DEF B!Fails, ScopeInv, B!TypeOK, B!BanScopeAssumption
<1>4. Nobody \notin ScopePresses /\ Command \notin ScopePresses  BY DEF B!BanScopeAssumption
<1>5. /\ claimed' \in [B!Tokens -> B!Scopes \cup {"none"}]
      /\ \A u \in B!Tokens : claimed'[u] # claimed[u] => claimed'[u] = "none"
      /\ \A r \in B!Scopes : r # s /\ token # 0 => (claimed'[token] = r <=> claimed[token] = r)
      /\ scopeTask[s] \in ScopePresses /\ press[scopeTask[s]].token = token /\ token # 0 =>
           claimed'[token] # s
  <2>1. CASE scopeTask[s] = Command
    BY <1>1, <1>4, <2>1 DEF ScopeInv, B!TypeOK
  <2>2. CASE scopeTask[s] # Command
    BY <1>1, <2>2, Unclaims DEF ScopeInv
  <2>3. QED  BY <2>1, <2>2
<1>6. B!TypeOK'  BY <1>1, <1>2, <1>3, <1>5 DEF ScopeInv, B!TypeOK, B!Tokens
<1>7. TokensMade'
  <2>1. Asks' = Asks  BY <1>1 DEF Asks
  <2>2. QED  BY <1>1, <1>5, <1>6, <2>1, CountKeeps DEF ScopeInv
<1>8. TokensHeld'
  <2>1. made \in Nat  BY Numbers DEF ScopeInv
  <2>2. QED  BY <1>1, <1>2, <1>4, <1>5, <2>1 DEF ScopeInv, TokensHeld
<1>9. Backed'
  <2>1. ASSUME NEW r \in B!Scopes, token # 0, claimed'[token] = r, ~borrowed
        PROVE  Pending(r)'
    <3>1. claimed[token] = r
      <4>1. token \in B!Tokens  BY <2>1 DEF ScopeInv, B!TypeOK
      <4>2. r # "none"  BY DEF B!Scopes
      <4>3. QED  BY <1>5, <2>1, <4>1, <4>2
    <3>2. Pending(r)  BY <2>1, <3>1 DEF ScopeInv, Backed
    <3>3. r = s => ~(scopeTask[s] \in ScopePresses /\ press[scopeTask[s]].token = token)
      BY <1>5, <2>1
    <3>4. QED  BY <1>1, <1>2, <3>2, <3>3 DEF Pending
  <2>2. QED  BY <1>1, <2>1 DEF Backed
<1>10. QED  BY <1>6, <1>7, <1>8, <1>9 DEF ScopeInv

\* The token gets too old, or newer messages push it out.
LEMMA ForgetKeeps ==
  ASSUME B!BanScopeAssumption, ScopeInv, B!Ages \/ B!PushedOut
  PROVE  ScopeInv'
<1>0. MaxScopeFaults \in Nat /\ scopeFaults \in 0..MaxScopeFaults /\ recent \in BOOLEAN
  BY DEF ScopeInv, B!TypeOK, B!BanScopeAssumption
<1>1. /\ token' = 0 /\ made' = made /\ claimed' = claimed /\ press' = press
          /\ scopeTask' = scopeTask
      /\ renewed' = renewed /\ borrowed' = borrowed /\ recent' \in BOOLEAN
      /\ scopeFaults' \in 0..MaxScopeFaults
  <2>1. CASE B!Ages  BY <1>0, <2>1 DEF B!Ages
  <2>2. CASE B!PushedOut  BY <1>0, <2>2 DEF B!PushedOut, B!Fails
  <2>3. QED  BY <2>1, <2>2
<1>2. B!TypeOK'  BY <1>1 DEF ScopeInv, B!TypeOK, B!Tokens
<1>3. QED  BY <1>1, <1>2, TokenGone

\* A restart forgets tokens, tasks and presses.
LEMMA RestartKeeps ==
  ASSUME B!BanScopeAssumption, ScopeInv, B!Restart
  PROVE  ScopeInv'
<1>1. /\ token' = 0 /\ scopeTask' = [s \in B!Scopes |-> Nobody]
          /\ renewed' = [s \in B!Scopes |-> FALSE]
      /\ press' = [p \in ScopePresses |-> IF press[p].step = "claimed"
                                     THEN [press[p] EXCEPT !.step = "over"] ELSE press[p]]
      /\ made' = made /\ claimed' = claimed /\ recent' = recent /\ borrowed' = borrowed
  BY DEF B!Restart
<1>2. scopeFaults' \in 0..MaxScopeFaults
  BY DEF B!Restart, B!Fails, ScopeInv, B!TypeOK, B!BanScopeAssumption
<1>3. press \in [ScopePresses -> PressForms]  BY Numbers DEF ScopeInv
<1>4. /\ press' \in [ScopePresses -> PressForms]
      /\ \A p \in ScopePresses : press'[p].step # "claimed"
                            /\ (press'[p].step = "idle" <=> press[p].step = "idle")
  <2>1. \A p \in ScopePresses : press[p].step = "claimed" =>
          /\ [press[p] EXCEPT !.step = "over"] \in PressForms
          /\ [press[p] EXCEPT !.step = "over"].step = "over"
    BY <1>3, PressRecords
  <2>2. QED  BY <1>1, <1>3, <2>1
<1>5. B!TypeOK'  BY <1>1, <1>2, <1>4 DEF ScopeInv, B!TypeOK, PressForms, B!Tokens
<1>6. TokensMade'
  <2>1. Asks' = Asks  BY <1>4 DEF Asks
  <2>2. QED  BY <1>1, <1>5, <2>1, CountKeeps DEF ScopeInv
<1>7. TokensHeld'  BY <1>1, <1>4 DEF TokensHeld, B!BanScopeAssumption
<1>8. Backed'  BY <1>1 DEF Backed
<1>9. QED  BY <1>5, <1>6, <1>7, <1>8 DEF ScopeInv

-----------------------------------------------------------------------------
(* The theorems *)

\* The message is sent with its first token.
LEMMA ScopeInit == ASSUME B!BanScopeAssumption, B!Init PROVE ScopeInv
<1>1. IsFiniteSet(ScopePresses) /\ Cardinality(ScopePresses) \in Nat
  BY FS_CardinalityType, SameFinite DEF B!BanScopeAssumption
<1>2. 1 \in B!Tokens  BY <1>1, SameCount DEF B!Tokens
<1>3. B!TypeOK
  <2>1. [step |-> "idle", scope |-> "group", token |-> 0] \in PressForms
    BY DEF PressForms, B!Scopes
  <2>2. press \in [ScopePresses -> PressForms]  BY <2>1 DEF B!Init, B!Fresh
  <2>3. MaxScopeFaults \in Nat  BY DEF B!BanScopeAssumption
  <2>4. /\ claimed \in [B!Tokens -> B!Scopes \cup {"none"}]
        /\ scopeTask \in [B!Scopes -> ScopePresses \cup {Command, Nobody}]
        /\ renewed \in [B!Scopes -> BOOLEAN]
    BY DEF B!Init
  <2>5. /\ token = 1 /\ made = 1 /\ recent = TRUE /\ borrowed = FALSE /\ scopeFaults = 0
    BY DEF B!Init
  <2>6. token \in B!Tokens \cup {0} /\ made \in B!Tokens  BY <1>2, <2>5
  <2>7. scopeFaults \in 0..MaxScopeFaults  BY <2>3, <2>5
  <2>8. recent \in BOOLEAN /\ borrowed \in BOOLEAN  BY <2>5
  <2>9. QED  BY <2>2, <2>4, <2>6, <2>7, <2>8 DEF B!TypeOK, PressForms
<1>4. \A p \in ScopePresses : press[p].step = "idle"  BY DEF B!Init, B!Fresh
<1>5. TokensMade
  <2>1. Cardinality(Asks) \in Nat  BY <1>3, Numbers
  <2>2. QED  BY <2>1 DEF B!Init, TokensMade
<1>6. TokensHeld  BY <1>4 DEF B!Init, TokensHeld, B!BanScopeAssumption
<1>7. Backed
  <2>1. claimed[token] = "none"  BY <1>2 DEF B!Init
  <2>2. QED  BY <2>1 DEF Backed, B!Scopes
<1>8. QED  BY <1>3, <1>5, <1>6, <1>7 DEF ScopeInv

\* Every step keeps the invariant.
LEMMA ScopeNext == ASSUME B!BanScopeAssumption, ScopeInv, [B!Next]_scopeVars PROVE ScopeInv'
<1>1. ASSUME NEW p \in ScopePresses, (\E s \in B!Scopes : B!Claim(p, s)) \/ B!TurnedAway(p)
          \/ B!Submit(p)
      PROVE  ScopeInv'
  BY <1>1, ClaimKeeps, TurnedAwayKeeps, SubmitKeeps
<1>2. ASSUME NEW s \in B!Scopes, B!Asked(s) \/ B!Done(s) \/ B!Failed(s)  PROVE ScopeInv'
  BY <1>2, AskedKeeps, DoneKeeps, FailedKeeps
<1>3. CASE B!Ages \/ B!PushedOut  BY <1>3, ForgetKeeps
<1>4. CASE B!Restart  BY <1>4, RestartKeeps
<1>5. CASE UNCHANGED scopeVars
  <2>1. /\ token' = token /\ made' = made /\ claimed' = claimed /\ recent' = recent
        /\ press' = press /\ scopeTask' = scopeTask /\ renewed' = renewed
            /\ borrowed' = borrowed
        /\ scopeFaults' = scopeFaults
    BY <1>5 DEF scopeVars
  <2>2. QED
    BY <2>1
    DEF ScopeInv, B!TypeOK, B!Tokens, TokensMade, TokensHeld, Asks, Backed, Pending
<1>6. QED  BY <1>1, <1>2, <1>3, <1>4, <1>5 DEF B!Next

\* The inductive invariant of a message's tokens: the present token's task has its scope
\* claimed, and behind a claim is a task or a press that is about to queue one.
THEOREM ScopeInvariant ==
  ASSUME B!BanScopeAssumption
  PROVE  B!Init /\ [][B!Next]_scopeVars => []ScopeInv
<1>1. B!Init => ScopeInv  BY ScopeInit
<1>2. ScopeInv /\ [B!Next]_scopeVars => ScopeInv'  BY ScopeNext
<1>3. QED  BY <1>1, <1>2, PTL

\* The two scopes of one message are not worked on together.
THEOREM ScopesKeptApart ==
  ASSUME B!BanScopeAssumption
  PROVE  B!Spec => []B!ScopesApart
<1>1. ASSUME ScopeInv, \A s \in B!Scopes : B!Chosen(s), \A s \in B!Scopes : ~renewed[s],
             \A s \in B!Scopes : press[scopeTask[s]].token = token
      PROVE  FALSE
  <2>1. "group" \in B!Scopes /\ "global" \in B!Scopes  BY DEF B!Scopes
  <2>2. claimed[token] = "group" /\ claimed[token] = "global"
    BY <1>1, <2>1 DEF ScopeInv, TokensHeld, B!Chosen
  <2>3. QED  BY <2>2
<1>2. ScopeInv => B!ScopesApart  BY <1>1 DEF B!ScopesApart
<1>3. QED  BY <1>2, ScopeInvariant, PTL DEF B!Spec, B!vars, scopeVars

\* A claim that turns the other scope away has work behind it.
THEOREM ClaimsBacked ==
  ASSUME B!BanScopeAssumption
  PROVE  B!Spec => []B!ClaimBacked
<1>1. ASSUME ScopeInv, token # 0, claimed[token] # "none", ~borrowed
      PROVE  \/ ~B!Free(claimed[token])
             \/ \E p \in ScopePresses : /\ press[p].step = "claimed" /\ press[p].token = token
                                        /\ press[p].scope = claimed[token]
  <2>1. claimed[token] \in B!Scopes  BY <1>1 DEF ScopeInv, B!TypeOK
  <2>2. Pending(claimed[token])  BY <1>1, <2>1 DEF ScopeInv, Backed
  <2>3. QED  BY <2>2 DEF Pending, B!Free, B!BanScopeAssumption
<1>2. ScopeInv => B!ClaimBacked  BY <1>1 DEF B!ClaimBacked
<1>3. QED  BY <1>2, ScopeInvariant, PTL DEF B!Spec, B!vars, scopeVars

-----------------------------------------------------------------------------
(* Running through the members: Patrol *)

\* Where the run has either done nothing to the member or taken its mute back.
Quiet == {"out", "found", "ready", "undo", "complete", "fixend", "fixagain"}

\* A member muted at such a place has a row that stays until the mute is lifted: not one that
\* is about to go, whether as restored, as the run's own, or with an exemption that is through.
Accounted(m) ==
  m \notin lost /\ muted[m] /\ phase[m] \in Quiet =>
    /\ patrolRow[m] \notin {"none", "restored"}
    /\ patrolRow[m] = "unban" => handler[m] # "complete"
    /\ phase[m] \in {"found", "ready", "undo"} => patrolRow[m] # "mine"
    /\ phase[m] = "fixend" => patrolRow[m] # "repair"
    /\ phase[m] = "complete" => patrolRow[m] # "release"

\* Between runs and while it screens the run has let go of everybody; while it prepares it has
\* muted nobody.
StageFits ==
  /\ stage \in {"off", "scan"} => \A m \in Members : phase[m] = "out"
  /\ stage = "prepare" => \A m \in Members : phase[m] \in {"out", "found", "ready"}

\* The inductive invariant.
PatrolInv ==
  /\ P!TypeOK /\ StageFits /\ (\A m \in Members : Accounted(m))
  /\ P!ExemptUnchallenged /\ P!DayCovered

-----------------------------------------------------------------------------
(* The steps *)

\* A step on one member keeps the invariant if it keeps what is said of him.
LEMMA OneMember ==
  ASSUME PatrolInv, P!TypeOK', NEW m \in Members, stage' = stage,
         last' = last, covered' = covered, lost \subseteq lost',
         \A n \in Members \ {m} : /\ phase'[n] = phase[n] /\ patrolRow'[n] = patrolRow[n]
                                  /\ muted'[n] = muted[n] /\ handler'[n] = handler[n]
                                  /\ exempt'[n] = exempt[n],
         Accounted(m)', exempt'[m] => patrolRow'[m] \notin {"mine", "live"},
         stage \in {"off", "scan"} => phase'[m] = "out",
         stage = "prepare" => phase'[m] \in {"out", "found", "ready"}
  PROVE  PatrolInv'
<1>1. \A n \in Members : Accounted(n)'
  BY DEF PatrolInv, Accounted
<1>2. StageFits'
  BY DEF PatrolInv, StageFits
<1>3. P!ExemptUnchallenged' /\ P!DayCovered'
  BY DEF PatrolInv, P!ExemptUnchallenged, P!DayCovered
<1>4. QED  BY <1>1, <1>2, <1>3 DEF PatrolInv

\* What the records of the members are.
Forms ==
  /\ phase \in [Members -> P!Phases] /\ patrolRow \in [Members -> P!Rows]
  /\ muted \in [Members -> BOOLEAN] /\ exempt \in [Members -> BOOLEAN]
  /\ handler \in [Members -> {"off", "restore", "complete"}]
  /\ lost \subseteq Members

\* A step on one member that leaves the clock and the run alone.
LEMMA TypeKept ==
  ASSUME P!PatrolAssumption, P!TypeOK, Forms', UNCHANGED <<P!admission, P!schedule>>,
         stage' \in P!Stages, allowed' \in BOOLEAN, P!Fine \/ P!Fails
  PROVE  P!TypeOK'
  BY DEF P!TypeOK, Forms, P!Fine, P!Fails, P!admission, P!schedule, P!PatrolAssumption

\* The run's steps on a member, up to the call that mutes him.
LEMMA AttemptKeeps ==
  ASSUME P!PatrolAssumption, PatrolInv, NEW m \in Members,
         P!Prepare(m) \/ P!MuteCall(m) \/ P!Undo(m)
  PROVE  PatrolInv'
<1>0. P!TypeOK /\ Forms /\ Accounted(m)  BY DEF PatrolInv, P!TypeOK, Forms
<1>1. CASE P!Prepare(m)
  <2>1. Forms'
    BY <1>0, <1>1 DEF P!Prepare, P!To, P!Put, Forms, P!telegram, P!admin, P!Phases, P!Rows
  <2>2. P!TypeOK'  BY <1>0, <1>1, <2>1, TypeKept DEF P!Prepare, P!TypeOK, P!Fine
  <2>3. QED
    BY <1>0, <1>1, <2>2, OneMember DEF P!Prepare, P!To, P!Put, P!In, Forms, P!admin,
       P!schedule, Accounted, Quiet, PatrolInv, P!ExemptUnchallenged, P!Phases, P!Rows
<1>2. CASE P!MuteCall(m)
  <2>0. PICK b \in {muted[m], TRUE} : muted' = [muted EXCEPT ![m] = b]
    BY <1>2 DEF P!MuteCall, P!Mute
  <2>1. Forms'
    <3>1. b \in BOOLEAN  BY <1>0 DEF Forms
    <3>2. muted' \in [Members -> BOOLEAN]  BY <1>0, <2>0, <3>1 DEF Forms
    <3>3. phase' \in [Members -> P!Phases]
      BY <1>0, <1>2 DEF P!MuteCall, P!To, Forms, P!Phases
    <3>4. QED  BY <1>0, <1>2, <3>2, <3>3 DEF P!MuteCall, Forms, P!admin
  <2>2. P!TypeOK'  BY <1>0, <1>2, <2>1, TypeKept DEF P!MuteCall, P!TypeOK, P!Fine, P!Fails
  <2>3. QED
    BY <1>0, <1>2, <2>2, OneMember DEF P!MuteCall, P!To, P!Mute, P!In, Forms, P!admin,
       P!schedule, Accounted, Quiet, PatrolInv, P!ExemptUnchallenged, StageFits, P!Phases,
       P!Rows
<1>3. CASE P!Undo(m)
  <2>1. Forms'
    BY <1>0, <1>3 DEF P!Undo, P!To, P!Put, Forms, P!telegram, P!admin, P!Phases, P!Rows
  <2>2. P!TypeOK'  BY <1>0, <1>3, <2>1, TypeKept DEF P!Undo, P!TypeOK, P!Fine
  <2>3. QED
    BY <1>0, <1>3, <2>2, OneMember DEF P!Undo, P!To, P!Put, P!In, Forms, P!admin, P!schedule,
       Accounted, Quiet, PatrolInv, P!ExemptUnchallenged, StageFits, P!Phases, P!Rows
<1>4. QED  BY <1>1, <1>2, <1>3

\* Giving a member back, up to the call that lifts his mute.
LEMMA GiveBackKeeps ==
  ASSUME P!PatrolAssumption, PatrolInv, NEW m \in Members,
         P!Abort(m) \/ P!RestoreCall(m) \/ P!Complete(m)
  PROVE  PatrolInv'
<1>0. P!TypeOK /\ Forms /\ Accounted(m)  BY DEF PatrolInv, P!TypeOK, Forms
<1>1. CASE P!Abort(m)
  <2>1. Forms'
    BY <1>0, <1>1 DEF P!Abort, P!To, P!Put, P!Mute, Forms, P!telegram, P!admin, P!Phases,
       P!Rows
  <2>2. P!TypeOK'  BY <1>0, <1>1, <2>1, TypeKept DEF P!Abort, P!TypeOK, P!Fine, P!Fails
  <2>3. QED
    BY <1>0, <1>1, <2>2, OneMember DEF P!Abort, P!To, P!Put, P!Mute, P!In, Forms, P!admin,
       P!schedule, P!telegram,
       Accounted, Quiet, PatrolInv, P!ExemptUnchallenged, StageFits, P!Governed, P!Lapsed,
       P!Phases, P!Rows
<1>2. CASE P!RestoreCall(m)
  <2>1. Forms'
    BY <1>0, <1>2 DEF P!RestoreCall, P!To, P!Put, P!Mute, Forms, P!telegram, P!admin,
       P!Phases, P!Rows
  <2>2. P!TypeOK'  BY <1>0, <1>2, <2>1, TypeKept DEF P!RestoreCall, P!TypeOK, P!Fine, P!Fails
  <2>3. QED
    BY <1>0, <1>2, <2>2, OneMember DEF P!RestoreCall, P!To, P!Put, P!Mute, P!In, Forms,
       P!admin, P!schedule, P!telegram,
       Accounted, Quiet, PatrolInv, P!ExemptUnchallenged, StageFits, P!Governed, P!Lapsed,
       P!Phases, P!Rows
<1>3. CASE P!Complete(m)
  <2>1. Forms'
    BY <1>0, <1>3 DEF P!Complete, P!To, P!Put, P!Mute, Forms, P!telegram, P!admin, P!Phases,
       P!Rows
  <2>2. P!TypeOK'  BY <1>0, <1>3, <2>1, TypeKept DEF P!Complete, P!TypeOK, P!Fine, P!Fails
  <2>3. QED
    BY <1>0, <1>3, <2>2, OneMember DEF P!Complete, P!To, P!Put, P!Mute, P!In, Forms, P!admin,
       P!schedule, P!telegram,
       Accounted, Quiet, PatrolInv, P!ExemptUnchallenged, StageFits, P!Governed, P!Lapsed,
       P!Phases, P!Rows
<1>4. QED  BY <1>1, <1>2, <1>3

\* The second look at a member whose row was taken from the run.
LEMMA SecondLookKeeps ==
  ASSUME P!PatrolAssumption, PatrolInv, NEW m \in Members,
         P!Fix(m) \/ P!FixCall(m) \/ P!FixEnd(m)
  PROVE  PatrolInv'
<1>0. P!TypeOK /\ Forms /\ Accounted(m)  BY DEF PatrolInv, P!TypeOK, Forms
<1>1. CASE P!Fix(m)
  <2>1. Forms'
    BY <1>0, <1>1 DEF P!Fix, P!To, P!Put, P!Mute, Forms, P!telegram, P!admin, P!Phases, P!Rows
  <2>2. P!TypeOK'  BY <1>0, <1>1, <2>1, TypeKept DEF P!Fix, P!TypeOK, P!Fine, P!Fails
  <2>3. QED
    BY <1>0, <1>1, <2>2, OneMember DEF P!Fix, P!To, P!Put, P!Mute, P!In, Forms, P!admin,
       P!schedule, P!telegram,
       Accounted, Quiet, PatrolInv, P!ExemptUnchallenged, StageFits, P!Governed, P!Lapsed,
       P!Phases, P!Rows
<1>2. CASE P!FixCall(m)
  <2>1. Forms'
    BY <1>0, <1>2 DEF P!FixCall, P!To, P!Put, P!Mute, Forms, P!telegram, P!admin, P!Phases,
       P!Rows
  <2>2. P!TypeOK'  BY <1>0, <1>2, <2>1, TypeKept DEF P!FixCall, P!TypeOK, P!Fine, P!Fails
  <2>3. QED
    BY <1>0, <1>2, <2>2, OneMember DEF P!FixCall, P!To, P!Put, P!Mute, P!In, Forms, P!admin,
       P!schedule, P!telegram,
       Accounted, Quiet, PatrolInv, P!ExemptUnchallenged, StageFits, P!Governed, P!Lapsed,
       P!Phases, P!Rows
<1>3. CASE P!FixEnd(m)
  <2>1. Forms'
    BY <1>0, <1>3 DEF P!FixEnd, P!To, P!Put, P!Mute, Forms, P!telegram, P!admin, P!Phases,
       P!Rows
  <2>2. P!TypeOK'  BY <1>0, <1>3, <2>1, TypeKept DEF P!FixEnd, P!TypeOK, P!Fine, P!Fails
  <2>3. QED
    BY <1>0, <1>3, <2>2, OneMember DEF P!FixEnd, P!To, P!Put, P!Mute, P!In, Forms, P!admin,
       P!schedule, P!telegram,
       Accounted, Quiet, PatrolInv, P!ExemptUnchallenged, StageFits, P!Governed, P!Lapsed,
       P!Phases, P!Rows
<1>4. QED  BY <1>1, <1>2, <1>3

\* An exemption and its handler.
LEMMA ExemptionKeeps ==
  ASSUME P!PatrolAssumption, PatrolInv, NEW m \in Members,
         P!Exempt(m) \/ P!ExemptRestore(m) \/ P!ExemptComplete(m)
  PROVE  PatrolInv'
<1>0. P!TypeOK /\ Forms /\ Accounted(m)  BY DEF PatrolInv, P!TypeOK, Forms
<1>1. CASE P!Exempt(m)
  <2>1. Forms'
    BY <1>0, <1>1 DEF P!Exempt, P!To, P!Put, P!Mute, Forms, P!telegram, P!admin, P!Phases,
       P!Rows
  <2>2. P!TypeOK'  BY <1>0, <1>1, <2>1, TypeKept DEF P!Exempt, P!TypeOK, P!Fine, P!Fails
  <2>3. QED
    BY <1>0, <1>1, <2>2, OneMember DEF P!Exempt, P!To, P!Put, P!Mute, P!In, Forms, P!admin,
       P!schedule, P!telegram,
       Accounted, Quiet, PatrolInv, P!ExemptUnchallenged, StageFits, P!Governed, P!Lapsed,
       P!Phases, P!Rows
<1>2. CASE P!ExemptRestore(m)
  <2>1. Forms'
    BY <1>0, <1>2 DEF P!ExemptRestore, P!To, P!Put, P!Mute, Forms, P!telegram, P!admin,
       P!Phases, P!Rows
  <2>2. P!TypeOK'  BY <1>0, <1>2, <2>1, TypeKept DEF P!ExemptRestore, P!TypeOK, P!Fine, P!Fails
  <2>3. QED
    BY <1>0, <1>2, <2>2, OneMember DEF P!ExemptRestore, P!To, P!Put, P!Mute, P!In, Forms,
       P!admin, P!schedule, P!telegram,
       Accounted, Quiet, PatrolInv, P!ExemptUnchallenged, StageFits, P!Governed, P!Lapsed,
       P!Phases, P!Rows
<1>3. CASE P!ExemptComplete(m)
  <2>1. Forms'
    BY <1>0, <1>3 DEF P!ExemptComplete, P!To, P!Put, P!Mute, Forms, P!telegram, P!admin,
       P!Phases, P!Rows
  <2>2. P!TypeOK'
    BY <1>0, <1>3, <2>1, TypeKept DEF P!ExemptComplete, P!TypeOK, P!Fine, P!Fails
  <2>3. QED
    BY <1>0, <1>3, <2>2, OneMember DEF P!ExemptComplete, P!To, P!Put, P!Mute, P!In, Forms,
       P!admin, P!schedule, P!telegram,
       Accounted, Quiet, PatrolInv, P!ExemptUnchallenged, StageFits, P!Governed, P!Lapsed,
       P!Phases, P!Rows
<1>4. QED  BY <1>1, <1>2, <1>3

\* Other challenges, passes and the sweeper.
LEMMA OthersKeep ==
  ASSUME P!PatrolAssumption, PatrolInv, NEW m \in Members,
         P!Challenged(m) \/ P!Passed(m) \/ P!SweepTake(m) \/ P!SweepRestore(m)
             \/ P!SweepDrop(m)
  PROVE  PatrolInv'
<1>0. P!TypeOK /\ Forms /\ Accounted(m)  BY DEF PatrolInv, P!TypeOK, Forms
<1>1. CASE P!Challenged(m)
  <2>1. Forms'
    BY <1>0, <1>1 DEF P!Challenged, P!To, P!Put, P!Mute, Forms, P!telegram, P!admin, P!Phases,
       P!Rows
  <2>2. P!TypeOK'  BY <1>0, <1>1, <2>1, TypeKept DEF P!Challenged, P!TypeOK, P!Fine, P!Fails
  <2>3. QED
    BY <1>0, <1>1, <2>2, OneMember DEF P!Challenged, P!To, P!Put, P!Mute, P!In, Forms,
       P!admin, P!schedule, P!telegram,
       Accounted, Quiet, PatrolInv, P!ExemptUnchallenged, StageFits, P!Governed, P!Lapsed,
       P!Phases, P!Rows
<1>2. CASE P!Passed(m)
  <2>1. Forms'
    BY <1>0, <1>2 DEF P!Passed, P!To, P!Put, P!Mute, Forms, P!telegram, P!admin, P!Phases,
       P!Rows
  <2>2. P!TypeOK'  BY <1>0, <1>2, <2>1, TypeKept DEF P!Passed, P!TypeOK, P!Fine, P!Fails
  <2>3. QED
    BY <1>0, <1>2, <2>2, OneMember DEF P!Passed, P!To, P!Put, P!Mute, P!In, Forms, P!admin,
       P!schedule, P!telegram,
       Accounted, Quiet, PatrolInv, P!ExemptUnchallenged, StageFits, P!Governed, P!Lapsed,
       P!Phases, P!Rows
<1>3. CASE P!SweepTake(m)
  <2>1. Forms'
    BY <1>0, <1>3 DEF P!SweepTake, P!To, P!Put, P!Mute, Forms, P!telegram, P!admin, P!Phases,
       P!Rows
  <2>2. P!TypeOK'  BY <1>0, <1>3, <2>1, TypeKept DEF P!SweepTake, P!TypeOK, P!Fine, P!Fails
  <2>3. QED
    BY <1>0, <1>3, <2>2, OneMember DEF P!SweepTake, P!To, P!Put, P!Mute, P!In, Forms, P!admin,
       P!schedule, P!telegram,
       Accounted, Quiet, PatrolInv, P!ExemptUnchallenged, StageFits, P!Governed, P!Lapsed,
       P!Phases, P!Rows
<1>4. CASE P!SweepRestore(m)
  <2>1. Forms'
    BY <1>0, <1>4 DEF P!SweepRestore, P!To, P!Put, P!Mute, Forms, P!telegram, P!admin,
       P!Phases, P!Rows
  <2>2. P!TypeOK'  BY <1>0, <1>4, <2>1, TypeKept DEF P!SweepRestore, P!TypeOK, P!Fine, P!Fails
  <2>3. QED
    BY <1>0, <1>4, <2>2, OneMember DEF P!SweepRestore, P!To, P!Put, P!Mute, P!In, Forms,
       P!admin, P!schedule, P!telegram,
       Accounted, Quiet, PatrolInv, P!ExemptUnchallenged, StageFits, P!Governed, P!Lapsed,
       P!Phases, P!Rows
<1>5. CASE P!SweepDrop(m)
  <2>1. Forms'
    BY <1>0, <1>5 DEF P!SweepDrop, P!To, P!Put, P!Mute, Forms, P!telegram, P!admin, P!Phases,
       P!Rows
  <2>2. P!TypeOK'  BY <1>0, <1>5, <2>1, TypeKept DEF P!SweepDrop, P!TypeOK, P!Fine, P!Fails
  <2>3. QED
    BY <1>0, <1>5, <2>2, OneMember DEF P!SweepDrop, P!To, P!Put, P!Mute, P!In, Forms, P!admin,
       P!schedule, P!telegram,
       Accounted, Quiet, PatrolInv, P!ExemptUnchallenged, StageFits, P!Governed, P!Lapsed,
       P!Phases, P!Rows
<1>6. QED  BY <1>1, <1>2, <1>3, <1>4, <1>5

\* The renewal before a mute, of everybody if the group is gone.
LEMMA RenewKeeps ==
  ASSUME P!PatrolAssumption, PatrolInv, NEW m \in Members, P!Renew(m)
  PROVE  PatrolInv'
<1>0. P!TypeOK /\ Forms  BY DEF PatrolInv, P!TypeOK, Forms
<1>1. /\ stage = "mute" /\ stage' \in {"mute", "finish"}
      /\ UNCHANGED <<P!admission, P!telegram, P!admin, allowed, P!schedule, lost,
                     patrolFaults>>
  BY DEF P!Renew
<1>2. /\ phase' \in [Members -> P!Phases]
      /\ \A n \in Members : phase'[n] \in Quiet =>
            phase'[n] = phase[n] \/ (phase[n] = "ready" /\ phase'[n] = "undo")
  BY <1>0 DEF P!Renew, P!To, P!In, Forms, P!Phases, Quiet
<1>3. P!TypeOK'
  BY <1>0, <1>1, <1>2, TypeKept DEF Forms, P!TypeOK, P!Fine, P!Stages, P!telegram, P!admin
<1>4. \A n \in Members : Accounted(n)'
  BY <1>1, <1>2 DEF PatrolInv, Accounted, Quiet, P!telegram, P!admin
<1>5. QED
  BY <1>1, <1>3, <1>4 DEF PatrolInv, StageFits, P!ExemptUnchallenged, P!DayCovered,
     P!telegram, P!admin,
     P!schedule

\* The end of a second look.
LEMMA FixAgainKeeps ==
  ASSUME P!PatrolAssumption, PatrolInv, NEW m \in Members, P!FixAgain(m)
  PROVE  PatrolInv'
<1>0. P!TypeOK /\ Forms /\ Accounted(m)  BY DEF PatrolInv, P!TypeOK, Forms
<1>1. /\ phase[m] = "fixagain" /\ phase' = [phase EXCEPT ![m] = "out"]
      /\ muted' = [muted EXCEPT ![m] = muted[m] \/ P!Governed(m)]
      /\ UNCHANGED <<P!admission, stage, patrolRow, P!admin, allowed, P!schedule, lost,
                     patrolFaults>>
  BY DEF P!FixAgain, P!To, P!Mute, P!In
<1>2. (muted[m] \/ P!Governed(m)) \in BOOLEAN  BY DEF P!Governed
<1>3. muted' \in [Members -> BOOLEAN]  BY <1>0, <1>1, <1>2 DEF Forms
<1>4. Forms'  BY <1>0, <1>1, <1>3 DEF Forms, P!admin, P!Phases
<1>5. P!TypeOK'  BY <1>0, <1>1, <1>4, TypeKept DEF P!TypeOK, P!Fine
<1>6. muted'[m] => muted[m] \/ patrolRow[m] \in {"mine", "live", "other"}
  BY <1>0, <1>1 DEF P!Governed, Forms
<1>7. Accounted(m)'
  BY <1>0, <1>1, <1>6 DEF Accounted, Quiet, Forms, P!admin
<1>8. QED
  BY <1>0, <1>1, <1>5, <1>7, OneMember DEF Forms, P!admin, P!schedule, PatrolInv,
     P!ExemptUnchallenged, StageFits

-----------------------------------------------------------------------------
(* The run *)

\* A step of the run, or around it, that puts nobody among the quiet ones, the members found
\* apart.
LEMMA RunKeeps ==
  ASSUME PatrolInv, P!TypeOK', UNCHANGED <<P!telegram, P!admin>>, P!DayCovered',
         lost \subseteq lost',
         \A m \in Members : phase'[m] \in Quiet =>
            \/ phase'[m] = phase[m]
            \/ phase'[m] = "found" /\ patrolRow[m] = "none" /\ phase[m] = "out",
         StageFits'
  PROVE  PatrolInv'
<1>1. ASSUME NEW n \in Members  PROVE Accounted(n)'
  <2>1. Accounted(n) /\ patrolRow'[n] = patrolRow[n] /\ muted'[n] = muted[n]
            /\ handler'[n] = handler[n]
    BY DEF PatrolInv, P!telegram, P!admin
  <2>2. CASE phase'[n] = phase[n]  BY <2>1, <2>2 DEF Accounted
  <2>3. CASE phase'[n] = "found" /\ patrolRow[n] = "none" /\ phase[n] = "out"
    BY <2>1, <2>3 DEF Accounted, Quiet
  <2>4. CASE phase'[n] \notin Quiet  BY <2>4 DEF Accounted
  <2>5. QED  BY <2>2, <2>3, <2>4
<1>2. QED  BY <1>1 DEF PatrolInv, P!ExemptUnchallenged, P!telegram, P!admin

\* Callers, run slots, instants and the group's authorization.
LEMMA AdmissionKeeps ==
  ASSUME P!PatrolAssumption, PatrolInv,
         \/ P!StartManual \/ P!OtherGroups \/ P!Instant \/ P!Deauthorize
         \/ \E c \in P!Callers : P!Reserve(c) \/ P!NotAdmitted(c)
  PROVE  PatrolInv'
<1>0. P!TypeOK  BY DEF PatrolInv
<1>1. UNCHANGED <<stage, phase, P!telegram, P!admin, last, covered, lost>>
  BY DEF P!StartManual, P!OtherGroups, P!Instant, P!Deauthorize, P!Reserve, P!NotAdmitted,
     P!schedule
<1>2. P!TypeOK'
  <2>1. CASE P!StartManual
    BY <1>0, <2>1 DEF P!StartManual, P!TypeOK, P!telegram, P!admin, P!schedule, P!Callers
  <2>2. CASE P!OtherGroups
    BY <1>0, <2>2 DEF P!OtherGroups, P!TypeOK, P!telegram, P!admin, P!schedule,
       P!PatrolAssumption
  <2>3. CASE P!Instant
    BY <1>0, <2>3 DEF P!Instant, P!TypeOK, P!telegram, P!admin, P!admission, P!PatrolAssumption
  <2>4. CASE P!Deauthorize
    <3>1. patrolFaults' \in 0..MaxPatrolFaults /\ allowed' \in BOOLEAN
      <4>1. patrolFaults < MaxPatrolFaults /\ patrolFaults' = patrolFaults + 1
                /\ allowed' = FALSE
        BY <2>4 DEF P!Deauthorize, P!Fails
      <4>2. MaxPatrolFaults \in Nat /\ patrolFaults \in 0..MaxPatrolFaults
        BY <1>0 DEF P!TypeOK, P!PatrolAssumption
      <4>3. patrolFaults' \in 0..MaxPatrolFaults  BY <4>1, <4>2
      <4>4. allowed' \in BOOLEAN  BY <4>1
      <4>5. QED  BY <4>3, <4>4
    <3>2. UNCHANGED <<P!admission, stage, phase, P!telegram, P!admin, P!schedule, lost>>
      BY <2>4 DEF P!Deauthorize
    <3>3. QED  BY <1>0, <3>1, <3>2 DEF P!TypeOK, P!telegram, P!admin, P!admission, P!schedule
  <2>5. ASSUME NEW c \in P!Callers, P!Reserve(c) \/ P!NotAdmitted(c)  PROVE P!TypeOK'
    <3>1. caller' \in [P!Callers -> {"off", "asked", "slot", "run"}] /\ reserved' \in BOOLEAN
      BY <1>0, <2>5 DEF P!Reserve, P!NotAdmitted, P!TypeOK
    <3>2. UNCHANGED <<busySlots, stage, phase, P!telegram, P!admin, allowed, P!schedule, lost,
                      patrolFaults>>
      BY <2>5 DEF P!Reserve, P!NotAdmitted
    <3>3. QED  BY <1>0, <3>1, <3>2 DEF P!TypeOK, P!telegram, P!admin, P!schedule
  <2>6. QED  BY <2>1, <2>2, <2>3, <2>4, <2>5
<1>3. QED
  BY <1>1, <1>2, RunKeeps DEF PatrolInv, StageFits, P!DayCovered

\* The run begins and ends with nobody in its hands.
LEMMA BoundsKeep ==
  ASSUME P!PatrolAssumption, PatrolInv,
         P!Finish \/ P!LeaveRun \/ (\E c \in P!Callers : P!Acquire(c))
  PROVE  PatrolInv'
<1>0. P!TypeOK /\ Forms  BY DEF PatrolInv, P!TypeOK, Forms
<1>1. UNCHANGED <<phase, P!telegram, P!admin, allowed, lost, patrolFaults, patrolDay>>
  BY DEF P!Finish, P!LeaveRun, P!Acquire, P!schedule
<1>2. CASE P!Finish
  <2>1. \A m \in Members : phase[m] = "out"
    BY <1>2 DEF P!Finish, P!Resting, P!Idle, P!Found, P!In
  <2>2. stage' = "off" /\ last' = started /\ covered' = started /\ started \in 0..MaxDays
    BY <1>0, <1>2 DEF P!Finish, P!TypeOK
  <2>3. P!TypeOK'
    <3>1. caller' \in [P!Callers -> {"off", "asked", "slot", "run"}] /\ reserved' = FALSE
      BY <1>0, <1>2 DEF P!Finish, P!Over, P!TypeOK
    <3>2. busySlots' = busySlots /\ started' = started  BY <1>2 DEF P!Finish
    <3>3. QED  BY <1>0, <1>1, <2>2, <3>1, <3>2 DEF P!TypeOK, P!telegram, P!admin, P!Stages
  <2>4. P!DayCovered'
    BY <2>2 DEF P!DayCovered, P!PatrolAssumption
  <2>5. QED  BY <1>1, <2>1, <2>2, <2>3, <2>4, RunKeeps DEF StageFits
<1>3. CASE P!LeaveRun
  <2>1. \A m \in Members : phase[m] = "out"
    BY <1>3 DEF P!LeaveRun, P!Resting, P!Idle, P!Found, P!In
  <2>2. P!TypeOK'
    BY <1>0, <1>3 DEF P!LeaveRun, P!Over, P!TypeOK, P!telegram, P!admin, P!Callers, P!Stages,
       P!schedule
  <2>3. stage' = "off" /\ last' = last /\ covered' = covered
    BY <1>3 DEF P!LeaveRun, P!schedule
  <2>4. QED
    BY <1>1, <2>1, <2>2, <2>3, RunKeeps DEF StageFits, P!DayCovered, PatrolInv
<1>4. ASSUME NEW c \in P!Callers, P!Acquire(c)  PROVE PatrolInv'
  <2>1. \A m \in Members : phase[m] = "out"
    BY <1>4 DEF P!Acquire, PatrolInv, StageFits
  <2>2. P!TypeOK'
    BY <1>0, <1>4 DEF P!Acquire, P!TypeOK, P!telegram, P!admin, P!Stages
  <2>3. stage' \in {"scan", "leave"} /\ last' = last /\ covered' = covered
    BY <1>4 DEF P!Acquire
  <2>4. QED
    BY <1>1, <2>1, <2>2, <2>3, RunKeeps DEF StageFits, P!DayCovered, PatrolInv
<1>5. QED  BY <1>2, <1>3, <1>4

\* A step of the run on the members leaves the rest as it is.
LEMMA RunTypes ==
  ASSUME P!PatrolAssumption, P!TypeOK,
         UNCHANGED <<P!admission, muted, P!admin, allowed, P!schedule, lost>>,
         stage' \in P!Stages, phase' \in [Members -> P!Phases],
         patrolRow' \in [Members -> P!Rows],
         P!Fine \/ P!Fails
  PROVE  P!TypeOK'
  BY DEF P!TypeOK, P!Fine, P!Fails, P!admission, P!admin, P!schedule, P!PatrolAssumption

\* The screening finds members without a row.
LEMMA ScanKeeps ==
  ASSUME P!PatrolAssumption, PatrolInv, P!Scan
  PROVE  PatrolInv'
<1>0. P!TypeOK /\ Forms  BY DEF PatrolInv, P!TypeOK, Forms
<1>1. /\ stage = "scan"
          /\ UNCHANGED <<P!admission, P!telegram, P!admin, allowed, P!schedule, lost>>
      /\ P!Fine \/ P!Fails
  BY DEF P!Scan, P!Fine
<1>2. \A m \in Members : phase[m] = "out"  BY <1>1 DEF PatrolInv, StageFits
<1>3. CASE phase' = phase /\ stage' = "leave"
  <2>1. P!TypeOK'  BY <1>0, <1>1, <1>3, RunTypes DEF Forms, P!telegram, P!Stages
  <2>2. QED
    BY <1>1, <1>2, <1>3, <2>1, RunKeeps DEF PatrolInv, StageFits, P!DayCovered, P!schedule
<1>4. ASSUME NEW Days \in SUBSET {m \in Members : ~exempt[m] /\ patrolRow[m] = "none"},
             P!All(Days, "found"), stage' = IF Days = {} THEN "finish" ELSE "prepare"
      PROVE  PatrolInv'
  <2>1. /\ phase' \in [Members -> P!Phases]
        /\ \A m \in Members : /\ phase'[m] = IF m \in Days THEN "found" ELSE "out"
                              /\ m \in Days => patrolRow[m] = "none"
    BY <1>0, <1>2, <1>4 DEF P!All, Forms, P!Phases
  <2>2. P!TypeOK'
    BY <1>0, <1>1, <1>4, <2>1, RunTypes DEF Forms, P!telegram, P!Stages
  <2>3. StageFits'  BY <1>4, <2>1 DEF StageFits
  <2>4. QED
    BY <1>1, <1>2, <2>1, <2>2, <2>3, RunKeeps DEF PatrolInv, P!DayCovered, P!schedule
<1>5. QED  BY <1>3, <1>4 DEF P!Scan

\* Stages that leave the members where they are, or put them in the run's hands.
LEMMA StagesKeep ==
  ASSUME P!PatrolAssumption, PatrolInv, P!Prepared \/ P!Muted \/ P!RenewChunk \/ P!Warn
  PROVE  PatrolInv'
<1>0. P!TypeOK /\ Forms  BY DEF PatrolInv, P!TypeOK, Forms
<1>1. /\ UNCHANGED <<P!admission, P!telegram, P!admin, allowed, P!schedule, lost>> /\ (P!Fine
          \/ P!Fails)
      /\ stage' \in {"finish", "mute", "renew", "warn", "activate"}
  BY DEF P!Prepared, P!Muted, P!RenewChunk, P!Warn, P!Fine
<1>2. /\ phase' \in [Members -> P!Phases]
      /\ \A m \in Members : phase'[m] = phase[m] \/ phase'[m] \in {"fix", "abort"}
  BY <1>0 DEF P!Prepared, P!Muted, P!RenewChunk, P!Warn, P!All, P!Found, P!In, Forms, P!Phases
<1>3. P!TypeOK'  BY <1>0, <1>1, <1>2, RunTypes DEF Forms, P!telegram, P!Stages
<1>4. QED
  BY <1>1, <1>2, <1>3, RunKeeps DEF PatrolInv, StageFits, P!DayCovered, P!schedule, Quiet

\* A failed preparation lets go of members it has not muted.
LEMMA PrepareFailsKeeps ==
  ASSUME P!PatrolAssumption, PatrolInv, P!PrepareFails
  PROVE  PatrolInv'
<1>0. P!TypeOK /\ Forms  BY DEF PatrolInv, P!TypeOK, Forms
<1>1. /\ UNCHANGED <<P!admission, P!telegram, P!admin, allowed, P!schedule, lost>> /\ P!Fails
      /\ stage = "prepare" /\ stage' = "finish"
  BY DEF P!PrepareFails
<1>2. /\ phase' \in [Members -> P!Phases] /\ \A m \in Members : phase'[m] = "out"
  BY DEF P!PrepareFails, P!All, P!Phases
<1>3. \A m \in Members : phase[m] \in {"out", "found", "ready"}
  BY <1>1 DEF PatrolInv, StageFits
<1>4. P!TypeOK'  BY <1>0, <1>1, <1>2, RunTypes DEF Forms, P!telegram, P!Stages
<1>5. \A m \in Members : Accounted(m)'
  BY <1>1, <1>2, <1>3 DEF PatrolInv, Accounted, Quiet, P!telegram, P!admin
<1>6. QED
  BY <1>1, <1>4, <1>5 DEF PatrolInv, StageFits, P!ExemptUnchallenged, P!DayCovered,
     P!telegram, P!admin,
     P!schedule

\* The rows become challenges, or the members are given back.
LEMMA ActivateKeeps ==
  ASSUME P!PatrolAssumption, PatrolInv, P!Activate
  PROVE  PatrolInv'
<1>0. P!TypeOK /\ Forms  BY DEF PatrolInv, P!TypeOK, Forms
<1>1. /\ UNCHANGED <<P!admission, muted, P!admin, allowed, P!schedule, lost, patrolFaults>>
      /\ stage = "activate" /\ stage' = "finish"
  BY DEF P!Activate
<1>2. PICK Days \in SUBSET {m \in P!Found("muted") : allowed /\ patrolRow[m] = "mine"} :
        /\ patrolRow' = [m \in Members |-> IF m \in Days THEN "live" ELSE patrolRow[m]]
        /\ phase' = [m \in Members |-> IF m \in Days THEN "out"
                                       ELSE IF P!In(m, "muted") THEN "abort" ELSE phase[m]]
  BY DEF P!Activate
<1>3. /\ phase' \in [Members -> P!Phases] /\ patrolRow' \in [Members -> P!Rows]
      /\ \A m \in Members :
           \/ patrolRow[m] = "mine" /\ patrolRow'[m] = "live" /\ phase'[m] = "out"
           \/ patrolRow'[m] = patrolRow[m] /\ (phase'[m] = phase[m] \/ phase'[m] = "abort")
  BY <1>0, <1>2 DEF Forms, P!Phases, P!Rows, P!In, P!Found
<1>4. P!TypeOK'  BY <1>0, <1>1, <1>3, RunTypes DEF P!Fine, P!Stages
<1>5. \A m \in Members : Accounted(m)'
  BY <1>1, <1>3 DEF PatrolInv, Accounted, Quiet, P!admin
<1>6. P!ExemptUnchallenged'
  BY <1>1, <1>3 DEF PatrolInv, P!ExemptUnchallenged, P!admin
<1>7. QED
  BY <1>1, <1>4, <1>5, <1>6 DEF PatrolInv, StageFits, P!DayCovered, P!schedule

\* Mutes that may have reached Telegram although their call was cut off.
LEMMA CutOffMutes ==
  ASSUME P!TypeOK, NEW Days \in SUBSET P!Found("calling"),
         muted' = [m \in Members |-> muted[m] \/ m \in Days]
  PROVE  /\ muted' \in [Members -> BOOLEAN]
         /\ \A m \in Members : phase[m] # "calling" => muted'[m] = muted[m]
<1>1. \A m \in Members : (muted[m] \/ m \in Days) \in BOOLEAN  OBVIOUS
<1>2. muted' \in [Members -> BOOLEAN]  BY <1>1
<1>3. ASSUME NEW m \in Members, phase[m] # "calling"  PROVE muted'[m] = muted[m]
  <2>1. m \notin Days  BY <1>3 DEF P!Found, P!In
  <2>2. muted[m] \in BOOLEAN  BY DEF P!TypeOK
  <2>3. QED  BY <2>1, <2>2
<1>4. QED  BY <1>2, <1>3

\* A deadline or the shutdown: whoever was attempted is given back.
LEMMA CancelKeeps ==
  ASSUME P!PatrolAssumption, PatrolInv, P!Cancel
  PROVE  PatrolInv'
<1>0. P!TypeOK /\ Forms  BY DEF PatrolInv, P!TypeOK, Forms
<1>1. /\ UNCHANGED <<P!admission, patrolRow, P!admin, allowed, P!schedule, lost>> /\ P!Fails
      /\ stage' = "leave"
  BY DEF P!Cancel
<1>2. /\ phase' \in [Members -> P!Phases]
      /\ \A m \in Members :
           phase'[m] = "abort" \/ (phase'[m] = phase[m] /\ phase[m] # "calling")
  BY <1>0 DEF P!Cancel, P!All, P!Attempted, Forms, P!Phases
<1>3. /\ muted' \in [Members -> BOOLEAN]
      /\ \A m \in Members : phase[m] # "calling" => muted'[m] = muted[m]
  BY <1>0, CutOffMutes DEF P!Cancel
<1>4. P!TypeOK'
  BY <1>0, <1>1, <1>2, <1>3 DEF P!TypeOK, P!Fails, P!admission, P!admin, P!schedule, P!Stages,
     P!PatrolAssumption
<1>5. \A m \in Members : Accounted(m)'
  BY <1>1, <1>2, <1>3 DEF PatrolInv, Accounted, Quiet, P!admin
<1>6. QED
  BY <1>1, <1>4, <1>5 DEF PatrolInv, StageFits, P!ExemptUnchallenged, P!DayCovered, P!admin,
     P!schedule

\* A crash counts as lost whoever was muted without the run's row.
LEMMA PatrolCrashKeeps ==
  ASSUME P!PatrolAssumption, PatrolInv, P!Crash
  PROVE  PatrolInv'
<1>0. P!TypeOK /\ Forms  BY DEF PatrolInv, P!TypeOK, Forms
<1>1. /\ UNCHANGED <<patrolRow, exempt, allowed, P!schedule>> /\ P!Fails /\ stage' = "off"
      /\ lost' = lost \cup {m \in P!Touched : patrolRow[m] # "mine"}
  BY DEF P!Crash
<1>2. /\ phase' \in [Members -> P!Phases] /\ \A m \in Members : phase'[m] = "out"
      /\ handler' \in [Members -> {"off", "restore", "complete"}]
      /\ \A m \in Members : handler'[m] = "off"
  BY DEF P!Crash, P!All, P!Phases
<1>3. /\ muted' \in [Members -> BOOLEAN]
      /\ \A m \in Members : phase[m] # "calling" => muted'[m] = muted[m]
  BY <1>0, CutOffMutes DEF P!Crash
<1>4. P!TypeOK'
  <2>1. lost' \subseteq Members  BY <1>0, <1>1 DEF Forms, P!Touched
  <2>2. /\ caller' \in [P!Callers -> {"off", "asked", "slot", "run"}] /\ reserved' \in BOOLEAN
        /\ busySlots' \in 0..Slots
    <3>1. caller' = [c \in P!Callers |-> "off"] /\ reserved' = FALSE /\ busySlots' = 0
      BY DEF P!Crash
    <3>2. 0 \in 0..Slots  BY DEF P!PatrolAssumption
    <3>3. QED  BY <3>1, <3>2
  <2>3. QED
    BY <1>0, <1>1, <1>2, <1>3, <2>1, <2>2 DEF P!TypeOK, P!Fails, P!schedule, P!Stages,
       P!PatrolAssumption
<1>5. ASSUME NEW m \in Members  PROVE Accounted(m)'
  <2>1. CASE m \in P!Touched /\ patrolRow[m] # "mine"  BY <1>1, <2>1 DEF Accounted
  <2>2. CASE patrolRow[m] = "mine"  BY <1>1, <1>2, <2>2 DEF Accounted
  <2>3. CASE m \notin P!Touched
    <3>1. phase[m] \in {"out", "found", "undo", "ready"}  BY <2>3 DEF P!Touched
    <3>2. QED  BY <1>1, <1>2, <1>3, <3>1 DEF PatrolInv, Accounted, Quiet
  <2>4. QED  BY <2>1, <2>2, <2>3
<1>6. QED
  BY <1>1, <1>2, <1>4, <1>5 DEF PatrolInv, StageFits, P!ExemptUnchallenged, P!DayCovered,
     P!schedule

-----------------------------------------------------------------------------
(* Theorems *)

\* Nothing has been done to anybody at the beginning.
LEMMA PatrolStart ==
  ASSUME P!PatrolAssumption, P!Init
  PROVE  PatrolInv
<1>1. P!TypeOK
  <2>1. /\ 0 \in 0..Slots /\ 0 \in 0..MaxDays /\ 0 \in 0..MaxPatrolFaults
    BY DEF P!PatrolAssumption
  <2>2. /\ phase \in [Members -> P!Phases] /\ patrolRow \in [Members -> P!Rows]
        /\ caller \in [P!Callers -> {"off", "asked", "slot", "run"}] /\ stage \in P!Stages
    BY DEF P!Init, P!Phases, P!Rows, P!Stages
  <2>3. QED  BY <2>1, <2>2 DEF P!Init, P!TypeOK
<1>2. QED
  BY <1>1 DEF P!Init, PatrolInv, StageFits, Accounted, P!ExemptUnchallenged, P!DayCovered

\* Every step keeps the invariant.
LEMMA PatrolStep ==
  ASSUME P!PatrolAssumption, PatrolInv, [P!Next]_patrolVars
  PROVE  PatrolInv'
<1>1. ASSUME NEW m \in Members, P!Member(m)  PROVE PatrolInv'
  BY <1>1, AttemptKeeps, GiveBackKeeps, SecondLookKeeps, ExemptionKeeps, OthersKeep,
     RenewKeeps,
     FixAgainKeeps DEF P!Member
<1>2. CASE P!Run
  BY <1>2, AdmissionKeeps, BoundsKeep, ScanKeeps, PrepareFailsKeeps, StagesKeep, ActivateKeeps,
     CancelKeeps DEF P!Run
<1>3. CASE UNCHANGED patrolVars
  <2>1. P!TypeOK'  BY <1>3 DEF PatrolInv, P!TypeOK, patrolVars
  <2>2. \A m \in Members : Accounted(m)'
    BY <1>3 DEF PatrolInv, Accounted, patrolVars, P!telegram, P!admin
  <2>3. QED
    BY <1>3, <2>1, <2>2 DEF PatrolInv, StageFits, P!ExemptUnchallenged, P!DayCovered,
       patrolVars, P!telegram,
       P!admin, P!schedule
<1>4. QED  BY <1>1, <1>2, <1>3, AdmissionKeeps, PatrolCrashKeeps DEF P!Next

\* The invariant of a patrol, for any number of members, instants, failed calls and crashes:
\* whoever the run has let go of is muted only with a row that lasts as long as the mute.
THEOREM PatrolInvariant ==
  ASSUME P!PatrolAssumption
  PROVE  P!Init /\ [][P!Next]_patrolVars => []PatrolInv
<1>1. P!Init => PatrolInv  BY PatrolStart
<1>2. PatrolInv /\ [P!Next]_patrolVars => PatrolInv'  BY PatrolStep
<1>3. QED  BY <1>1, <1>2, PTL

-----------------------------------------------------------------------------
(* Submissions and presses under a challenge: VerifyPage *)

Desks == {"new", "verify", "claim", "wait", "task", "aborted", "done"}
TaskSteps == {"none", "restore", "complete", "mark", "close", "defer",
              "again", "again.complete", "again.mark", "again.defer", "ended"}
ButtonSteps == {"new", "restore", "release", "mark", "ban", "finish", "policy", "unmute",
                "reban",
               "done"}
Statuses == {"none", "pending", "releasing", "enforcing"}
ReqForms == [at : Desks, id : 0..MaxIssues, armed : 0..MaxArms, on : Requests \cup {NoOne}]
RowForms == [id : 0..MaxIssues, armed : 0..MaxArms, lease : Requests \cup Buttons \cup {NoOne},
             status : Statuses]
ButtonForms == [id : 0..MaxIssues, at : ButtonSteps]

\* Where a request with an open entry is, and where one is whose terminal task was started.
EntryDesks == {"verify", "claim", "task", "aborted"}
OwnerDesks == {"task", "aborted", "done"}
\* The steps of a press before which it has passed, or rejected, nobody.
Unpassed   == {"new", "restore", "mark", "ban", "finish"}
Unrejected == {"new", "restore", "release", "mark"}
\* The steps of a terminal task that has given the permissions back.
PassedTasks == {"complete", "mark", "close", "again.complete", "again.mark"}

\* A row that is there is the last challenge issued.
RowFits == pageRow.status # "none" => pageRow.id = issued

\* Whoever takes a challenge, a submission or a press, takes it from the pending row.
OwnersFit ==
  /\ \A r \in Requests : pageTask[r] # "none" =>
       /\ req[r].at \in OwnerDesks /\ req[r].id \in 1..issued
       /\ req[r].id = issued => pageRow.status # "pending"
  /\ \A b \in Buttons :
       /\ button[b].at # "new" <=> button[b].id # 0
       /\ button[b].id # 0 => /\ button[b].id \in 1..issued
                              /\ button[b].id = issued => pageRow.status # "pending"

\* So that no challenge is taken twice.
OneOwner ==
  /\ \A r, s \in Requests :
       pageTask[r] # "none" /\ pageTask[s] # "none" /\ req[r].id = req[s].id => r = s
  /\ \A b, c \in Buttons : button[b].id # 0 /\ button[b].id = button[c].id => b = c
  /\ \A r \in Requests, b \in Buttons : pageTask[r] # "none" => req[r].id # button[b].id

\* Each challenge that was passed or rejected was so by whoever took it.
OwnersVerdicts ==
  /\ pageReleased \cap rejected = {}
  /\ \A i \in pageReleased :
       \/ \E r \in Requests : pageTask[r] # "none" /\ req[r].id = i
       \/ \E b \in Buttons : button[b].id = i /\ button[b].at \notin Unpassed
  /\ \A i \in rejected : \E b \in Buttons : button[b].id = i /\ button[b].at \notin Unrejected

\* What was kept of a pass is of a challenge that was passed.
PassesKept ==
  /\ \A r \in Requests : pageTask[r] \in PassedTasks => req[r].id \in pageReleased
  /\ \A i \in W!Issues : completed[i] # W!NoMark => i \in pageReleased
  /\ \A r \in Requests : future[r] = "yes" => req[r].id \in pageReleased

\* A request knows its challenge as soon as it has read the row; one that waits, waits for an
\* entry of its own challenge; and an entry is settled before its task closes the message.
DesksFit ==
  \A r \in Requests :
    /\ req[r].at # "new" => req[r].id \in W!Issues
    /\ future[r] # "none" \/ answer[r] # "none" => req[r].at # "new"
    /\ pageTask[r] = "close" => future[r] # "open"
    /\ req[r].at = "wait" => /\ req[r].on \in Requests /\ req[req[r].on].id = req[r].id
                             /\ req[req[r].on].at # "new"

\* The inductive invariant.
Taking == RowFits /\ OwnersFit /\ OneOwner /\ OwnersVerdicts
Telling == PassesKept /\ DesksFit /\ W!EntriesLive /\ W!OkHonest
PageInv == W!TypeOK /\ Taking /\ Telling /\ W!SlotsReturned

-----------------------------------------------------------------------------
(* The records *)

\* The parts of the type, by name.
PageForms ==
  /\ issued \in W!Issues /\ pageRow \in RowForms
  /\ member \in {"muted", "free", "banned", "out"} /\ barred \in BOOLEAN
  /\ current \in [W!Issues -> Requests \cup {NoOne}]
  /\ future \in [Requests -> {"none", "open", "yes", "no"}]
  /\ completed \in [W!Issues -> (W!Issues \X (0..MaxArms)) \cup {W!NoMark}]
  /\ slots \in 0..PageSlots /\ req \in [Requests -> ReqForms]
  /\ pageTask \in [Requests -> TaskSteps]
  /\ answer \in [Requests -> {"none", "ok", "retry", "terminal", "error"}]
  /\ button \in [Buttons -> ButtonForms]
  /\ pageReleased \subseteq W!Issues /\ rejected \subseteq W!Issues
      /\ spent \in 0..MaxPageFaults

\* They are the type.
LEMMA FormsAreTypes == W!TypeOK <=> PageForms
  BY DEF W!TypeOK, PageForms, RowForms, ReqForms, ButtonForms, Desks, TaskSteps, ButtonSteps,
     Statuses

\* And after a step.
LEMMA FormsStayTypes == W!TypeOK' <=> PageForms'
  BY DEF W!TypeOK, PageForms, RowForms, ReqForms, ButtonForms, Desks, TaskSteps, ButtonSteps,
     Statuses

\* A request that moves on keeps what it has read.
LEMMA RequestMoves ==
  ASSUME req \in [Requests -> ReqForms], NEW r \in Requests, NEW s \in Desks,
         req' = [req EXCEPT ![r].at = s]
  PROVE  /\ req' \in [Requests -> ReqForms] /\ req'[r].at = s
         /\ \A x \in Requests : x # r => req'[x] = req[x]
         /\ \A x \in Requests : /\ req'[x].id = req[x].id /\ req'[x].on = req[x].on
                                /\ req'[x].armed = req[x].armed
<1>1. \A f \in ReqForms : /\ [f EXCEPT !.at = s] \in ReqForms /\ [f EXCEPT !.at = s].at = s
                          /\ [f EXCEPT !.at = s].id = f.id /\ [f EXCEPT !.at = s].on = f.on
                          /\ [f EXCEPT !.at = s].armed = f.armed
  BY DEF ReqForms
<1>2. req' = [req EXCEPT ![r] = [req[r] EXCEPT !.at = s]]  OBVIOUS
<1>3. QED  BY <1>1, <1>2

\* A press that moves on keeps its challenge.
LEMMA ButtonMoves ==
  ASSUME button \in [Buttons -> ButtonForms], NEW b \in Buttons, NEW s \in ButtonSteps,
         W!Step(b, s)
  PROVE  /\ button' \in [Buttons -> ButtonForms] /\ button'[b].at = s
         /\ \A c \in Buttons : c # b => button'[c] = button[c]
         /\ \A c \in Buttons : button'[c].id = button[c].id
<1>1. \A f \in ButtonForms : /\ [f EXCEPT !.at = s] \in ButtonForms
                                 /\ [f EXCEPT !.at = s].at = s
                             /\ [f EXCEPT !.at = s].id = f.id
  BY DEF ButtonForms
<1>2. button' = [button EXCEPT ![b] = [button[b] EXCEPT !.at = s]]  BY DEF W!Step
<1>3. QED  BY <1>1, <1>2

\* A row changes hands, is extended, loses its lease.
LEMMA RowRecords ==
  ASSUME W!VerifyPageAssumption
  PROVE  /\ W!NoRow \in RowForms /\ W!NoRow.status = "none" /\ W!NoRow.id = 0
             /\ W!NoRow.armed = 0
         /\ \A f \in RowForms, s \in Statuses, l \in Requests \cup Buttons \cup {NoOne} :
              /\ [f EXCEPT !.status = s, !.lease = l] \in RowForms
              /\ [f EXCEPT !.status = s, !.lease = l].status = s
              /\ [f EXCEPT !.status = s, !.lease = l].id = f.id
         /\ \A f \in RowForms, l \in Requests \cup Buttons \cup {NoOne} :
              /\ [f EXCEPT !.lease = l] \in RowForms
              /\ [f EXCEPT !.lease = l].status = f.status /\ [f EXCEPT !.lease = l].id = f.id
         /\ \A f \in RowForms : f.armed < MaxArms =>
              /\ [f EXCEPT !.armed = @ + 1] \in RowForms
              /\ [f EXCEPT !.armed = @ + 1].status = f.status
              /\ [f EXCEPT !.armed = @ + 1].id = f.id
         /\ \A i \in W!Issues : /\ [W!NoRow EXCEPT !.id = i, !.status = "pending"] \in RowForms
                                /\ [W!NoRow EXCEPT !.id = i, !.status = "pending"].id = i
<1>0. MaxIssues \in Nat \ {0} /\ MaxArms \in Nat  BY DEF W!VerifyPageAssumption
<1>1. W!NoRow \in RowForms /\ W!NoRow.status = "none" /\ W!NoRow.id = 0 /\ W!NoRow.armed = 0
  BY <1>0 DEF W!NoRow, RowForms, Statuses
<1>2. ASSUME NEW f \in RowForms, NEW s \in Statuses, NEW l \in Requests \cup Buttons
          \cup {NoOne}
      PROVE  /\ [f EXCEPT !.status = s, !.lease = l] \in RowForms
             /\ [f EXCEPT !.status = s, !.lease = l].status = s
             /\ [f EXCEPT !.status = s, !.lease = l].id = f.id
  BY DEF RowForms
<1>3. ASSUME NEW f \in RowForms, NEW l \in Requests \cup Buttons \cup {NoOne}
      PROVE  /\ [f EXCEPT !.lease = l] \in RowForms
             /\ [f EXCEPT !.lease = l].status = f.status /\ [f EXCEPT !.lease = l].id = f.id
  BY DEF RowForms
<1>4. ASSUME NEW f \in RowForms, f.armed < MaxArms
      PROVE  /\ [f EXCEPT !.armed = @ + 1] \in RowForms
             /\ [f EXCEPT !.armed = @ + 1].status = f.status
             /\ [f EXCEPT !.armed = @ + 1].id = f.id
  BY <1>0, <1>4 DEF RowForms
<1>5. ASSUME NEW i \in W!Issues
      PROVE  /\ [W!NoRow EXCEPT !.id = i, !.status = "pending"] \in RowForms
             /\ [W!NoRow EXCEPT !.id = i, !.status = "pending"].id = i
  <2>1. i \in 0..MaxIssues  BY <1>0 DEF W!Issues
  <2>2. \A f \in RowForms : /\ [f EXCEPT !.id = i, !.status = "pending"] \in RowForms
                            /\ [f EXCEPT !.id = i, !.status = "pending"].id = i
    BY <2>1 DEF RowForms, Statuses
  <2>3. QED  BY <1>1, <2>2
<1>6. QED  BY <1>1, <1>2, <1>3, <1>4, <1>5

-----------------------------------------------------------------------------
(* Who takes a challenge, and what comes of it *)

\* A step that takes no challenge.
LEMMA OwnersKeep ==
  ASSUME OwnersFit, OneOwner, issued \in Nat, issued' \in {issued, issued + 1},
         pageRow'.status = "pending" /\ issued' = issued => pageRow.status = "pending",
         \A r \in Requests : pageTask'[r] # "none" =>
            /\ pageTask[r] # "none" /\ req'[r].id = req[r].id /\ req'[r].at \in OwnerDesks,
         \A b \in Buttons : /\ button'[b].id = button[b].id
                            /\ button'[b].at # "new" <=> button[b].at # "new"
  PROVE  OwnersFit' /\ OneOwner'
<1>1. OwnersFit'
  <2>1. \A i \in 1..issued : i \in 1..issued' /\ (i = issued' => i = issued
            /\ issued' = issued)
    OBVIOUS
  <2>2. QED  BY <2>1 DEF OwnersFit
<1>2. OneOwner'  BY DEF OneOwner
<1>3. QED  BY <1>1, <1>2

\* A step that passes and rejects nobody.
LEMMA VerdictsKeep ==
  ASSUME OwnersVerdicts, pageReleased' = pageReleased, rejected' = rejected,
         \A r \in Requests : pageTask[r] # "none" => pageTask'[r] # "none"
             /\ req'[r].id = req[r].id,
         \A b \in Buttons : button[b].at # "new" =>
            /\ button'[b].id = button[b].id
            /\ button[b].at \notin Unpassed => button'[b].at \notin Unpassed
            /\ button[b].at \notin Unrejected => button'[b].at \notin Unrejected
  PROVE  OwnersVerdicts'
<1>1. ASSUME NEW i \in pageReleased
      PROVE  \/ \E r \in Requests : pageTask'[r] # "none" /\ req'[r].id = i
             \/ \E b \in Buttons : button'[b].id = i /\ button'[b].at \notin Unpassed
  <2>1. CASE \E r \in Requests : pageTask[r] # "none" /\ req[r].id = i  BY <2>1
  <2>2. CASE \E b \in Buttons : button[b].id = i /\ button[b].at \notin Unpassed
    BY <2>2 DEF Unpassed
  <2>3. QED  BY <2>1, <2>2 DEF OwnersVerdicts
<1>2. ASSUME NEW i \in rejected
      PROVE  \E b \in Buttons : button'[b].id = i /\ button'[b].at \notin Unrejected
  BY <1>2 DEF OwnersVerdicts, Unrejected
<1>3. QED  BY <1>1, <1>2 DEF OwnersVerdicts

\* No submission has passed a challenge an administrator has rejected.
LEMMA OwnerUnrejected ==
  ASSUME Taking, NEW r \in Requests, pageTask[r] # "none"
  PROVE  req[r].id \notin rejected
  BY DEF Taking, OneOwner, OwnersVerdicts, OwnersFit, Unrejected

-----------------------------------------------------------------------------
(* The cache of running verifications *)

\* What becomes of entries that are closed with v.
Closes(v) ==
  /\ current' \in [W!Issues -> Requests \cup {NoOne}]
  /\ future' \in [Requests -> {"none", "open", "yes", "no"}]
  /\ \A i \in W!Issues : current'[i] \in {current[i], NoOne}
  /\ \A y \in Requests :
       \/ future'[y] = future[y]
       \/ future[y] = "open" /\ future'[y] = v
  /\ \A i \in W!Issues : current[i] # NoOne =>
       (current'[i] = NoOne <=> future'[current[i]] = v)

\* Closing nothing.
LEMMA NothingCloses ==
  ASSUME PageForms, W!EntriesLive, UNCHANGED <<current, future>>, NEW v \in {"yes", "no"}
  PROVE  Closes(v)
  BY DEF Closes, PageForms, W!EntriesLive

\* _mark_verification_completed and _fail_verification_active close the entry of the
\* request's own fingerprint, if it is there.
LEMMA SettleCloses ==
  ASSUME W!VerifyPageAssumption, PageForms, W!EntriesLive, NEW r \in Requests,
         NEW v \in {"yes", "no"}, req[r].id \in W!Issues, W!Settle(r, v)
  PROVE  /\ Closes(v) /\ future'[r] # "open"
         /\ \A y \in Requests : future'[y] # future[y] => req[y].id = req[r].id
<1> DEFINE i == req[r].id
<1> DEFINE x == W!EntryOf(i, W!Mark(r))
<1>1. x = IF current[i] # NoOne /\ W!Mark(current[i]) = W!Mark(r) THEN current[i] ELSE NoOne
  BY DEF W!EntryOf
<1>2. CASE x = NoOne
  <2>1. UNCHANGED <<current, future>>  BY <1>2 DEF W!Settle
  <2>2. future[r] # "open"
    BY <1>1, <1>2 DEF W!EntriesLive, W!VerifyPageAssumption
  <2>3. QED  BY <2>1, <2>2, NothingCloses
<1>3. CASE x # NoOne
  <2>1. /\ current' = [current EXCEPT ![i] = NoOne] /\ x = current[i] /\ x \in Requests
        /\ future' = [future EXCEPT ![x] = IF @ = "open" THEN v ELSE @]
    BY <1>1, <1>3 DEF W!Settle, W!Resolve, PageForms
  <2>2. future[x] = "open" /\ req[x].id = i  BY <1>3, <2>1 DEF W!EntriesLive
  <2> HIDE DEF x
  <2>3. /\ \A j \in W!Issues : current'[j] = IF j = i THEN NoOne ELSE current[j]
        /\ \A y \in Requests : future'[y] = IF y = x THEN v ELSE future[y]
        /\ current' \in [W!Issues -> Requests \cup {NoOne}]
        /\ future' \in [Requests -> {"none", "open", "yes", "no"}]
    BY <2>1, <2>2 DEF PageForms
  <2>4. \A j \in W!Issues : current[j] # NoOne =>
           /\ current[j] \in Requests /\ future[current[j]] = "open"
           /\ current[j] = x => j = i
    BY <2>2 DEF W!EntriesLive, PageForms
  <2>5. Closes(v)  BY <2>1, <2>2, <2>3, <2>4 DEF Closes
  <2>6. future[r] = "open" => r = x  BY <2>1 DEF W!EntriesLive
  <2>7. QED  BY <2>2, <2>3, <2>5, <2>6
<1>4. QED  BY <1>2, <1>3

\* release_active closes the request's own entry, if it is still there.
LEMMA ReleaseCloses ==
  ASSUME W!VerifyPageAssumption, PageForms, W!EntriesLive, NEW r \in Requests,
         req[r].id \in W!Issues, W!Release(r)
  PROVE  Closes("no") /\ future'[r] # "open"
<1> DEFINE i == req[r].id
<1>1. CASE current[i] # r
  <2>1. UNCHANGED <<current, future>>  BY <1>1 DEF W!Release
  <2>2. future[r] # "open"  BY <1>1 DEF W!EntriesLive
  <2>3. QED  BY <2>1, <2>2, NothingCloses
<1>2. CASE current[i] = r
  <2>1. /\ current' = [current EXCEPT ![i] = NoOne]
        /\ future' = [future EXCEPT ![r] = IF @ = "open" THEN "no" ELSE @]
    BY <1>2 DEF W!Release, W!Resolve
  <2>2. r # NoOne /\ future[r] = "open"  BY <1>2 DEF W!EntriesLive, W!VerifyPageAssumption
  <2>3. /\ \A j \in W!Issues : current'[j] = IF j = i THEN NoOne ELSE current[j]
        /\ \A y \in Requests : future'[y] = IF y = r THEN "no" ELSE future[y]
        /\ current' \in [W!Issues -> Requests \cup {NoOne}]
        /\ future' \in [Requests -> {"none", "open", "yes", "no"}]
    BY <2>1, <2>2 DEF PageForms
  <2>4. \A j \in W!Issues : current[j] # NoOne =>
           /\ current[j] \in Requests /\ future[current[j]] = "open"
           /\ current[j] = r => j = i
    BY DEF W!EntriesLive, PageForms
  <2>5. Closes("no")  BY <1>2, <2>2, <2>3, <2>4 DEF Closes
  <2>6. QED  BY <2>3, <2>5
<1>3. QED  BY <1>1, <1>2

\* Entries closed leave the others live, as long as their requests stay.
LEMMA EntriesKeep ==
  ASSUME PageForms, W!EntriesLive, DesksFit, NEW v \in {"yes", "no"}, Closes(v),
         \A y \in Requests : future'[y] = "open" =>
            req'[y].id = req[y].id /\ req'[y].at \in EntryDesks
  PROVE  W!EntriesLive'
<1>1. ASSUME NEW i \in W!Issues, current'[i] # NoOne
      PROVE  /\ req'[current'[i]].id = i /\ future'[current'[i]] = "open"
             /\ req'[current'[i]].at \in EntryDesks
  <2>1. current'[i] = current[i] /\ current[i] \in Requests
    BY <1>1 DEF Closes, PageForms
  <2>2. future[current[i]] = "open" /\ req[current[i]].id = i
    BY <1>1, <2>1 DEF W!EntriesLive
  <2>3. future'[current[i]] = "open"  BY <1>1, <2>1, <2>2 DEF Closes
  <2>4. QED  BY <2>1, <2>2, <2>3
<1>2. ASSUME NEW y \in Requests, future'[y] = "open"  PROVE current'[req'[y].id] = y
  <2>1. future[y] = "open"  BY <1>2 DEF Closes
  <2>2. current[req[y].id] = y /\ req'[y].id = req[y].id  BY <1>2, <2>1 DEF W!EntriesLive
  <2>3. req[y].id \in W!Issues  BY <2>1 DEF DesksFit
  <2>4. QED  BY <1>2, <2>2, <2>3 DEF Closes
<1>3. QED  BY <1>1, <1>2 DEF W!EntriesLive, EntryDesks

\* What the requests are told, and what is kept of passes, after a step that lets no request
\* read the row.
LEMMA TellingKeeps ==
  ASSUME PageForms, Telling, NEW v \in {"yes", "no"}, Closes(v),
         pageReleased \subseteq pageReleased',
         OwnersVerdicts',
         \A y \in Requests :
            /\ req'[y].id = req[y].id /\ req'[y].on = req[y].on
            /\ req'[y].at = "new" <=> req[y].at = "new"
            /\ req'[y].at = "wait" => req[y].at = "wait"
            /\ future'[y] = "open" => req'[y].at \in EntryDesks
            /\ future'[y] = "yes" => future[y] = "yes" \/ req[y].id \in pageReleased'
            /\ pageTask'[y] \in PassedTasks => req[y].id \in pageReleased'
            /\ pageTask'[y] = "close" => future'[y] # "open"
            /\ answer'[y] # "none" => req'[y].at # "new"
            /\ answer'[y] = "ok" => answer[y] = "ok" \/ req[y].id \in pageReleased',
         \A i \in W!Issues : completed'[i] # W!NoMark => completed[i] # W!NoMark
             \/ i \in pageReleased'
  PROVE  Telling'
<1>1. W!EntriesLive'  BY EntriesKeep DEF Telling
<1>2. PassesKept'  BY DEF Telling, PassesKept
<1>3. DesksFit'
  <2>1. \A y \in Requests : future'[y] # "none" => future[y] # "none"  BY DEF Closes
  <2>2. ASSUME NEW y \in Requests, req'[y].at = "wait"
        PROVE  /\ req'[y].on \in Requests /\ req'[req'[y].on].id = req'[y].id
               /\ req'[req'[y].on].at # "new"
    BY <2>2 DEF Telling, DesksFit
  <2>3. QED  BY <2>1, <2>2 DEF Telling, DesksFit
<1>4. W!OkHonest'  BY DEF Telling, W!OkHonest, OwnersVerdicts
<1>5. QED  BY <1>1, <1>2, <1>3, <1>4 DEF Telling

\* This module, too, counts as the library does.
LEMMA CountsAlike == \A N : W!Cardinality(N) = Cardinality(N)
  BY DEF W!Cardinality, Cardinality

\* It, too, speaks of the same finiteness.
LEMMA FiniteAlike == \A N : W!IsFiniteSet(N) <=> IsFiniteSet(N)
  BY DEF W!IsFiniteSet, IsFiniteSet

\* Requests that neither begin nor stop waiting for the captcha service keep the count.
LEMMA SlotsKeep ==
  ASSUME W!SlotsReturned, slots' = slots,
         \A y \in Requests : req'[y].at = "verify" <=> req[y].at = "verify"
  PROVE  W!SlotsReturned'
<1>1. {y \in Requests : req'[y].at = "verify"} = {y \in Requests : req[y].at = "verify"}
  OBVIOUS
<1>2. QED  BY <1>1 DEF W!SlotsReturned

\* One that stops gives a slot back.
LEMMA SlotGivenBack ==
  ASSUME W!VerifyPageAssumption, PageForms, W!SlotsReturned, NEW r \in Requests,
         req[r].at = "verify", slots' = slots - 1, req'[r].at # "verify",
         \A y \in Requests : y # r => req'[y] = req[y]
  PROVE  W!SlotsReturned' /\ slots' \in 0..PageSlots
<1> DEFINE InService == {y \in Requests : req[y].at = "verify"}
<1>1. InService \in SUBSET Requests /\ r \in InService  OBVIOUS
<1>2. {y \in Requests : req'[y].at = "verify"} = InService \ {r}  OBVIOUS
<1> HIDE DEF InService
<1>3. IsFiniteSet(InService)  BY <1>1, FS_Subset, FiniteAlike DEF W!VerifyPageAssumption
<1>4. Cardinality(InService \ {r}) = Cardinality(InService) - 1
          /\ Cardinality(InService) \in Nat
  BY <1>1, <1>3, FS_RemoveElement, FS_CardinalityType
<1>5. IsFiniteSet(InService \ {r})  BY <1>3, FS_RemoveElement
<1>6. Cardinality(InService \ {r}) \in Nat  BY <1>5, FS_CardinalityType
<1>7. slots = Cardinality(InService)  BY CountsAlike DEF W!SlotsReturned, InService
<1>8. W!SlotsReturned'  BY <1>2, <1>4, <1>7, CountsAlike DEF W!SlotsReturned
<1>9. slots \in 0..PageSlots /\ PageSlots \in Nat  BY DEF PageForms, W!VerifyPageAssumption
<1>10. slots' \in 0..PageSlots  BY <1>4, <1>6, <1>7, <1>9
<1>11. QED  BY <1>8, <1>10

\* One that begins takes one.
LEMMA SlotTaken ==
  ASSUME W!VerifyPageAssumption, PageForms, W!SlotsReturned, NEW r \in Requests,
         req[r].at # "verify", slots < PageSlots, slots' = slots + 1, req'[r].at = "verify",
         \A y \in Requests : y # r => req'[y] = req[y]
  PROVE  W!SlotsReturned' /\ slots' \in 0..PageSlots
<1> DEFINE InService == {y \in Requests : req[y].at = "verify"}
<1>1. InService \in SUBSET Requests /\ r \notin InService  OBVIOUS
<1>2. {y \in Requests : req'[y].at = "verify"} = InService \cup {r}  OBVIOUS
<1> HIDE DEF InService
<1>3. IsFiniteSet(InService)  BY <1>1, FS_Subset, FiniteAlike DEF W!VerifyPageAssumption
<1>4. Cardinality(InService \cup {r}) = Cardinality(InService) + 1
  BY <1>1, <1>3, FS_AddElement
<1>5. slots = Cardinality(InService)  BY CountsAlike DEF W!SlotsReturned, InService
<1>6. W!SlotsReturned'  BY <1>2, <1>4, <1>5, CountsAlike DEF W!SlotsReturned
<1>7. slots \in 0..PageSlots /\ PageSlots \in Nat  BY DEF PageForms, W!VerifyPageAssumption
<1>8. QED  BY <1>6, <1>7

-----------------------------------------------------------------------------
(* The kinds of steps *)

\* The members of the state a request or a press takes for granted.
LEMMA Surroundings ==
  ASSUME W!VerifyPageAssumption, PageInv
  PROVE  /\ PageForms /\ issued \in Nat /\ MaxPageFaults \in Nat /\ NoOne \notin Requests
         /\ W!Spend => spent' \in 0..MaxPageFaults
         /\ \A r \in Requests : pageTask[r] # "none" =>
              req[r].at \in OwnerDesks /\ req[r].id \in W!Issues
         /\ \A r \in Requests : req[r].at # "new" => req[r].id \in W!Issues
         /\ \A r \in Requests : future[r] = "open" => req[r].at \in EntryDesks
<1>1. PageForms  BY FormsAreTypes DEF PageInv
<1>2. issued \in Nat /\ MaxPageFaults \in Nat /\ NoOne \notin Requests
  BY <1>1 DEF PageForms, W!Issues, W!VerifyPageAssumption
<1>3. W!Spend => spent' \in 0..MaxPageFaults
  BY <1>1, <1>2 DEF PageForms, W!Spend
<1>4. \A r \in Requests : req[r].at # "new" => req[r].id \in W!Issues
  BY DEF PageInv, Telling, DesksFit
<1>5. \A r \in Requests : pageTask[r] # "none" => req[r].at \in OwnerDesks
          /\ req[r].id \in W!Issues
  BY <1>4 DEF PageInv, Taking, OwnersFit, OwnerDesks
<1>6. ASSUME NEW r \in Requests, future[r] = "open"  PROVE req[r].at \in EntryDesks
  <2>1. req[r].id \in W!Issues /\ current[req[r].id] = r /\ r # NoOne
    BY <1>2, <1>4, <1>6 DEF PageInv, Telling, DesksFit, W!EntriesLive
  <2>2. QED  BY <2>1 DEF PageInv, Telling, W!EntriesLive, EntryDesks
<1>7. QED  BY <1>1, <1>2, <1>3, <1>4, <1>5, <1>6

\* A request moves on, is told something, and may close entries.
DeskMoves(r, s) ==
  /\ req' = [req EXCEPT ![r].at = s] /\ req[r].at # "new"
  /\ pageTask[r] # "none" => s \in OwnerDesks
  /\ answer' \in [Requests -> {"none", "ok", "retry", "terminal", "error"}]
  /\ answer'[r] = "ok" => answer[r] = "ok" \/ req[r].id \in pageReleased
  /\ \A y \in Requests : y # r => answer'[y] = answer[y]
  /\ Closes("no") /\ (future'[r] = "open" => s \in EntryDesks)
  /\ UNCHANGED <<completed, pageTask, button>> /\ UNCHANGED W!ledger
  /\ spent' \in 0..MaxPageFaults /\ slots' \in 0..PageSlots /\ W!SlotsReturned'

\* Such a step keeps the invariant.
LEMMA DeskStep ==
  ASSUME W!VerifyPageAssumption, PageInv, NEW r \in Requests, NEW s \in {"claim", "aborted",
         "done"},
         DeskMoves(r, s)
  PROVE  PageInv'
<1> USE DEF DeskMoves
<1>1. /\ req' \in [Requests -> ReqForms] /\ req'[r].at = s
      /\ \A x \in Requests : x # r => req'[x] = req[x]
      /\ \A x \in Requests : req'[x].id = req[x].id /\ req'[x].on = req[x].on
  BY Surroundings, RequestMoves DEF PageForms, Desks
<1>2. W!TypeOK'
  <2>1. PageForms'
    BY <1>1, Surroundings DEF PageForms, Closes, W!ledger
  <2>2. QED  BY <2>1, FormsStayTypes
<1>3. \A y \in Requests : pageTask'[y] # "none" =>
         /\ pageTask[y] # "none" /\ req'[y].id = req[y].id /\ req'[y].at \in OwnerDesks
  BY <1>1, Surroundings
<1>4. Taking'
  <2>1. RowFits'  BY DEF PageInv, Taking, RowFits, W!ledger
  <2>2. OwnersFit' /\ OneOwner'
    BY <1>3, OwnersKeep, Surroundings DEF PageInv, Taking, W!ledger
  <2>3. OwnersVerdicts'
    BY <1>1, VerdictsKeep DEF PageInv, Taking, W!ledger
  <2>4. QED  BY <2>1, <2>2, <2>3 DEF Taking
<1>5. Telling'
  <2>1. /\ PageForms /\ Telling /\ OwnersVerdicts' /\ pageReleased \subseteq pageReleased'
    BY <1>4, Surroundings DEF PageInv, Taking, W!ledger
  <2>2. \A y \in Requests :
           /\ req'[y].id = req[y].id /\ req'[y].on = req[y].on
           /\ req'[y].at = "new" <=> req[y].at = "new"
           /\ req'[y].at = "wait" => req[y].at = "wait"
    BY <1>1
  <2>3. \A y \in Requests :
           /\ future'[y] = "open" => req'[y].at \in EntryDesks
           /\ future'[y] = "yes" => future[y] = "yes"
           /\ pageTask'[y] = "close" => future'[y] # "open"
    BY <1>1, <2>1, Surroundings DEF Closes, Telling, DesksFit
  <2>4. \A y \in Requests : pageTask'[y] \in PassedTasks => req[y].id \in pageReleased'
    BY DEF PageInv, Telling, PassesKept, W!ledger
  <2>5. \A y \in Requests :
           /\ answer'[y] # "none" => req'[y].at # "new"
           /\ answer'[y] = "ok" => answer[y] = "ok" \/ req[y].id \in pageReleased'
    BY <1>1, <2>1 DEF Telling, DesksFit, W!ledger
  <2>6. QED  BY <2>1, <2>2, <2>3, <2>4, <2>5, TellingKeeps
<1>6. QED  BY <1>2, <1>4, <1>5 DEF PageInv

\* A step of a terminal task, which may answer its request.
LEMMA TaskStep ==
  ASSUME W!VerifyPageAssumption, PageInv, NEW r \in Requests, pageTask[r] # "none",
         NEW t \in TaskSteps \ {"none"}, pageTask' = [pageTask EXCEPT ![r] = t],
         req' \in [Requests -> ReqForms], req'[r].at \in {req[r].at, "done"},
         \A x \in Requests : x # r => req'[x] = req[x],
         req'[r].id = req[r].id, req'[r].on = req[r].on,
         answer' \in [Requests -> {"none", "ok", "retry", "terminal", "error"}],
         \A y \in Requests : y # r => answer'[y] = answer[y],
         answer'[r] = "ok" => answer[r] = "ok" \/ req[r].id \in pageReleased,
         NEW v \in {"yes", "no"}, Closes(v),
         \A y \in Requests : future'[y] = "yes" => future[y] = "yes"
             \/ req[y].id \in pageReleased',
         future'[r] = "open" => req'[r].at = req[r].at /\ t # "close",
         completed' \in [W!Issues -> (W!Issues \X (0..MaxArms)) \cup {W!NoMark}],
         \A i \in W!Issues : completed'[i] # W!NoMark => completed[i] # W!NoMark
             \/ i \in pageReleased',
         t \in PassedTasks => req[r].id \in pageReleased',
         member' \in {"muted", "free", "banned", "out"}, pageRow' \in {pageRow, W!NoRow},
         pageReleased' \in {pageReleased, pageReleased \cup {req[r].id}},
         spent' \in 0..MaxPageFaults, UNCHANGED <<issued, barred, rejected, slots, button>>
  PROVE  PageInv'
<1>0. /\ req[r].at \in OwnerDesks /\ req[r].id \in W!Issues /\ req'[r].at \in OwnerDesks
      /\ PageForms /\ Taking /\ Telling
  BY Surroundings DEF OwnerDesks, PageInv
<1>1. /\ pageTask' \in [Requests -> TaskSteps] /\ pageTask'[r] = t
      /\ \A y \in Requests : y # r => pageTask'[y] = pageTask[y]
  BY <1>0 DEF PageForms
<1>2. W!TypeOK'
  <2>1. pageRow' \in RowForms  BY <1>0, RowRecords DEF PageForms
  <2>2. PageForms'
    BY <1>0, <1>1, <2>1 DEF PageForms, Closes
  <2>3. QED  BY <2>2, FormsStayTypes
<1>3. \A y \in Requests :
        /\ pageTask'[y] # "none" <=> pageTask[y] # "none"
        /\ req'[y].id = req[y].id /\ req'[y].on = req[y].on
        /\ pageTask[y] # "none" => req'[y].at \in OwnerDesks
  BY <1>0, <1>1, Surroundings
<1>4. Taking'
  <2>1. RowFits' /\ (pageRow'.status = "pending" => pageRow.status = "pending")
    BY <1>0, RowRecords DEF Taking, RowFits
  <2>2. OwnersFit' /\ OneOwner'
    BY <1>0, <1>3, <2>1, OwnersKeep, Surroundings DEF Taking
  <2>3. OwnersVerdicts'
    <3>1. CASE pageReleased' = pageReleased
      BY <1>0, <1>3, <3>1, VerdictsKeep DEF Taking
    <3>2. CASE pageReleased' = pageReleased \cup {req[r].id}
      <4>1. pageReleased' \cap rejected' = {}
        BY <1>0, <3>2, OwnerUnrejected DEF Taking, OwnersVerdicts
      <4>2. ASSUME NEW i \in pageReleased'
            PROVE  \/ \E y \in Requests : pageTask'[y] # "none" /\ req'[y].id = i
                   \/ \E b \in Buttons : button'[b].id = i /\ button'[b].at \notin Unpassed
        <5>1. CASE i = req[r].id  BY <1>3, <5>1
        <5>2. CASE i \in pageReleased  BY <1>0, <1>3, <5>2 DEF Taking, OwnersVerdicts
        <5>3. QED  BY <3>2, <4>2, <5>1, <5>2
      <4>3. QED  BY <1>0, <4>1, <4>2 DEF Taking, OwnersVerdicts
    <3>3. QED  BY <3>1, <3>2
  <2>4. QED  BY <2>1, <2>2, <2>3 DEF Taking
<1>5. Telling'
  <2>1. OwnersVerdicts' /\ pageReleased \subseteq pageReleased'  BY <1>4 DEF Taking
  <2>2. \A y \in Requests :
           /\ req'[y].at = "new" <=> req[y].at = "new"
           /\ req'[y].at = "wait" => req[y].at = "wait"
    BY <1>0 DEF OwnerDesks
  <2>3. \A y \in Requests :
           /\ future'[y] = "open" => req'[y].at \in EntryDesks
           /\ pageTask'[y] = "close" => future'[y] # "open"
    BY <1>0, <1>1, Surroundings DEF Closes, Telling, DesksFit
  <2>4. \A y \in Requests : pageTask'[y] \in PassedTasks => req[y].id \in pageReleased'
    BY <1>0, <1>1, <2>1 DEF Telling, PassesKept
  <2>5. \A y \in Requests :
           /\ answer'[y] # "none" => req'[y].at # "new"
           /\ answer'[y] = "ok" => answer[y] = "ok" \/ req[y].id \in pageReleased'
    BY <1>0, <2>1 DEF Telling, DesksFit, OwnerDesks
  <2>6. QED
    BY <1>0, <1>3, <2>1, <2>2, <2>3, <2>4, <2>5, TellingKeeps
<1>6. W!SlotsReturned'
  <2>1. \A y \in Requests : req'[y].at = "verify" <=> req[y].at = "verify"
    BY <1>0 DEF OwnerDesks
  <2>2. QED  BY <2>1, SlotsKeep DEF PageInv
<1>7. QED  BY <1>2, <1>4, <1>5, <1>6 DEF PageInv

\* Nothing is told, and nothing of what the requests were told changes.
LEMMA TellingStays ==
  ASSUME W!VerifyPageAssumption, PageInv, UNCHANGED W!cache, UNCHANGED W!desk,
         UNCHANGED pageTask,
         pageReleased \subseteq pageReleased', OwnersVerdicts'
  PROVE  Telling'
<1>1. W!EntriesLive'  BY DEF PageInv, Telling, W!EntriesLive, W!cache, W!desk
<1>2. PassesKept'  BY DEF PageInv, Telling, PassesKept, W!cache, W!desk
<1>3. DesksFit'  BY DEF PageInv, Telling, DesksFit, W!cache, W!desk
<1>4. W!OkHonest'  BY DEF PageInv, Telling, W!OkHonest, OwnersVerdicts, W!desk
<1>5. QED  BY <1>1, <1>2, <1>3, <1>4 DEF Telling

\* A step of a press.
PressDoes(b, s) ==
  /\ button[b].at # "new" /\ W!Step(b, s) /\ UNCHANGED W!cache /\ UNCHANGED W!desk
  /\ UNCHANGED <<pageTask, slots, issued>> /\ pageRow' \in {pageRow, W!NoRow}
      /\ barred' \in BOOLEAN
  /\ member' \in {"muted", "free", "banned", "out"} /\ spent' \in 0..MaxPageFaults
  /\ pageReleased \subseteq pageReleased' /\ pageReleased' \subseteq W!Issues
      /\ rejected' \subseteq W!Issues
  /\ OwnersVerdicts'

\* Such a step keeps the invariant.
LEMMA PressStep ==
  ASSUME W!VerifyPageAssumption, PageInv, NEW b \in Buttons, NEW s \in ButtonSteps \ {"new"},
         PressDoes(b, s)
  PROVE  PageInv'
<1> USE DEF PressDoes
<1>0. /\ button' \in [Buttons -> ButtonForms] /\ button'[b].at = s
      /\ \A c \in Buttons : c # b => button'[c] = button[c]
      /\ \A c \in Buttons : button'[c].id = button[c].id
  BY ButtonMoves, Surroundings DEF PageForms
<1>1. W!TypeOK'
  <2>1. pageRow' \in RowForms  BY RowRecords, Surroundings DEF PageForms
  <2>2. PageForms'
    BY <1>0, <2>1, Surroundings DEF PageForms, W!cache, W!desk
  <2>3. QED  BY <2>2, FormsStayTypes
<1>2. Taking'
  <2>1. RowFits' /\ (pageRow'.status = "pending" => pageRow.status = "pending")
    BY RowRecords DEF PageInv, Taking, RowFits
  <2>2. \A r \in Requests : pageTask'[r] # "none" =>
           /\ pageTask[r] # "none" /\ req'[r].id = req[r].id /\ req'[r].at \in OwnerDesks
    BY Surroundings DEF W!desk
  <2>3. \A c \in Buttons : /\ button'[c].id = button[c].id
                           /\ button'[c].at # "new" <=> button[c].at # "new"
    BY <1>0
  <2>4. OwnersFit' /\ OneOwner'
    BY <2>1, <2>2, <2>3, OwnersKeep, Surroundings DEF PageInv, Taking
  <2>5. QED  BY <2>1, <2>4 DEF Taking
<1>3. Telling'  BY TellingStays
<1>4. W!SlotsReturned'  BY SlotsKeep DEF PageInv, W!desk
<1>5. QED  BY <1>1, <1>2, <1>3, <1>4 DEF PageInv

\* A step of the challenge itself.
LEMMA ChallengeStep ==
  ASSUME W!VerifyPageAssumption, PageInv, UNCHANGED W!cache, UNCHANGED W!desk,
         UNCHANGED <<pageTask, slots, button, barred, pageReleased, rejected>>,
         pageRow' \in RowForms, RowFits', issued' \in W!Issues, issued' \in {issued,
         issued + 1},
         pageRow'.status = "pending" /\ issued' = issued => pageRow.status = "pending",
         member' \in {"muted", "free", "banned", "out"}, spent' \in 0..MaxPageFaults
  PROVE  PageInv'
<1>1. W!TypeOK'
  <2>1. PageForms'
    BY Surroundings DEF PageForms, W!cache, W!desk
  <2>2. QED  BY <2>1, FormsStayTypes
<1>2. Taking'
  <2>1. \A r \in Requests : pageTask'[r] # "none" =>
           /\ pageTask[r] # "none" /\ req'[r].id = req[r].id /\ req'[r].at \in OwnerDesks
    BY Surroundings DEF W!desk
  <2>2. OwnersFit' /\ OneOwner'
    BY <2>1, OwnersKeep, Surroundings DEF PageInv, Taking
  <2>3. OwnersVerdicts'
    BY VerdictsKeep DEF PageInv, Taking, W!desk
  <2>4. QED  BY <2>2, <2>3 DEF Taking
<1>3. Telling'  BY <1>2, TellingStays DEF Taking
<1>4. W!SlotsReturned'  BY SlotsKeep DEF PageInv, W!desk
<1>5. QED  BY <1>1, <1>2, <1>3, <1>4 DEF PageInv

-----------------------------------------------------------------------------
(* The submissions *)

\* What a request that moves on is told.
LEMMA Replies ==
  ASSUME W!VerifyPageAssumption, PageInv, NEW r \in Requests,
         NEW a \in {"ok", "retry", "terminal", "error"}, W!Reply(r, a)
  PROVE  /\ req' = [req EXCEPT ![r].at = "done"]
         /\ answer' \in [Requests -> {"none", "ok", "retry", "terminal", "error"}]
         /\ answer'[r] = a /\ \A y \in Requests : y # r => answer'[y] = answer[y]
  BY Surroundings DEF W!Reply, PageForms

\* The captcha service answers.
LEMMA VerifyKeeps ==
  ASSUME W!VerifyPageAssumption, PageInv, NEW r \in Requests, W!Verify(r)
  PROVE  PageInv'
<1>0. /\ req[r].at = "verify" /\ slots' = slots - 1 /\ pageTask[r] = "none"
          /\ req[r].id \in W!Issues
      /\ UNCHANGED <<completed, pageTask, button>> /\ UNCHANGED W!ledger /\ PageForms
  BY Surroundings DEF W!Verify, OwnerDesks
<1>1. CASE W!Goto(r, "claim") /\ UNCHANGED <<current, future, spent>>
  <2>1. req' = [req EXCEPT ![r].at = "claim"] /\ answer' = answer  BY <1>1 DEF W!Goto
  <2>2. /\ req'[r].at = "claim" /\ \A y \in Requests : y # r => req'[y] = req[y]
    BY <1>0, <2>1, RequestMoves DEF PageForms, Desks
  <2>3. W!SlotsReturned' /\ slots' \in 0..PageSlots
    BY <1>0, <2>2, SlotGivenBack DEF PageInv
  <2>4. Closes("no")  BY <1>0, <1>1, NothingCloses DEF PageInv, Telling
  <2>5. DeskMoves(r, "claim")
    BY <1>0, <1>1, <2>1, <2>3, <2>4 DEF PageForms, EntryDesks, DeskMoves
  <2>6. QED  BY <2>5, DeskStep
<1>2. CASE W!Reply(r, "retry") /\ W!Release(r) /\ W!Spend
  <2>1. /\ req' = [req EXCEPT ![r].at = "done"] /\ answer'[r] = "retry"
        /\ answer' \in [Requests -> {"none", "ok", "retry", "terminal", "error"}]
        /\ \A y \in Requests : y # r => answer'[y] = answer[y]
    BY <1>2, Replies
  <2>2. /\ req'[r].at = "done" /\ \A y \in Requests : y # r => req'[y] = req[y]
    BY <1>0, <2>1, RequestMoves DEF PageForms, Desks
  <2>3. W!SlotsReturned' /\ slots' \in 0..PageSlots
    BY <1>0, <2>2, SlotGivenBack DEF PageInv
  <2>4. Closes("no") /\ future'[r] # "open"
    BY <1>0, <1>2, ReleaseCloses DEF PageInv, Telling
  <2>5. spent' \in 0..MaxPageFaults  BY <1>2, Surroundings
  <2>6. DeskMoves(r, "done")  BY <1>0, <2>1, <2>3, <2>4, <2>5 DEF DeskMoves
  <2>7. QED  BY <2>6, DeskStep
<1>3. QED  BY <1>1, <1>2 DEF W!Verify

\* Whoever waited hears what became of the entry of his challenge.
LEMMA WaitKeeps ==
  ASSUME W!VerifyPageAssumption, PageInv, NEW r \in Requests, W!Wait(r)
  PROVE  PageInv'
<1>0. /\ req[r].at = "wait" /\ pageTask[r] = "none" /\ PageForms
      /\ req[r].on \in Requests /\ req[req[r].on].id = req[r].id /\ future[r] # "open"
      /\ UNCHANGED <<pageTask, slots, button>> /\ UNCHANGED W!cache /\ UNCHANGED W!ledger
  BY Surroundings DEF W!Wait, OwnerDesks, EntryDesks, PageInv, Telling, DesksFit
<1>1. PICK a \in {"ok", "retry"} :
        /\ W!Reply(r, a) /\ (a = "ok" => future[req[r].on] = "yes")
        /\ W!Spend \/ UNCHANGED spent
  <2>1. CASE /\ future[req[r].on] = "yes" /\ UNCHANGED spent
             /\ W!Reply(r, IF pageRow.status = "pending"
                 /\ pageRow.id = req[r].id THEN "retry" ELSE "ok")
    BY <2>1
  <2>2. CASE future[req[r].on] # "yes"  BY <2>2 DEF W!Wait
  <2>3. QED  BY <2>1, <2>2 DEF W!Wait
<1>2. a = "ok" => req[r].id \in pageReleased
  BY <1>0, <1>1 DEF PageInv, Telling, PassesKept
<1>3. /\ req' = [req EXCEPT ![r].at = "done"] /\ answer'[r] = a
      /\ answer' \in [Requests -> {"none", "ok", "retry", "terminal", "error"}]
      /\ \A y \in Requests : y # r => answer'[y] = answer[y]
  BY <1>1, Replies
<1>4. /\ req'[r].at = "done" /\ \A y \in Requests : y # r => req'[y] = req[y]
  BY <1>0, <1>3, RequestMoves DEF PageForms, Desks
<1>5. W!SlotsReturned' /\ slots' \in 0..PageSlots
  BY <1>0, <1>4, SlotsKeep DEF PageInv, PageForms
<1>6. Closes("no")  BY <1>0, NothingCloses DEF PageInv, Telling, W!cache
<1>7. spent' \in 0..MaxPageFaults  BY <1>0, <1>1, Surroundings DEF PageForms
<1>8. DeskMoves(r, "done")
  BY <1>0, <1>2, <1>3, <1>5, <1>6, <1>7 DEF W!cache, DeskMoves
<1>9. QED  BY <1>8, DeskStep

\* A cancelled request closes its entry, or leaves it to the terminal task.
LEMMA RequestCancelKeeps ==
  ASSUME W!VerifyPageAssumption, PageInv, NEW r \in Requests, W!Cancel(r)
  PROVE  PageInv'
<1>0. /\ spent' \in 0..MaxPageFaults /\ PageForms
      /\ UNCHANGED <<completed, pageTask, button>> /\ UNCHANGED W!ledger
  BY Surroundings DEF W!Cancel
<1>1. CASE req[r].at = "task" /\ W!Goto(r, "aborted") /\ UNCHANGED <<slots, current, future>>
  <2>1. req' = [req EXCEPT ![r].at = "aborted"] /\ answer' = answer  BY <1>1 DEF W!Goto
  <2>2. /\ req'[r].at = "aborted" /\ \A y \in Requests : y # r => req'[y] = req[y]
    BY <1>0, <2>1, RequestMoves DEF PageForms, Desks
  <2>3. W!SlotsReturned' /\ slots' \in 0..PageSlots
    BY <1>0, <1>1, <2>2, SlotsKeep DEF PageInv, PageForms
  <2>4. Closes("no")  BY <1>0, <1>1, NothingCloses DEF PageInv, Telling
  <2>5. DeskMoves(r, "aborted")
    BY <1>0, <1>1, <2>1, <2>3, <2>4 DEF PageForms, EntryDesks, OwnerDesks, DeskMoves
  <2>6. QED  BY <2>5, DeskStep
<1>2. CASE req[r].at \in {"verify", "claim", "wait", "aborted"} /\ W!Release(r)
               /\ W!Reply(r, "error")
           /\ slots' = IF req[r].at = "verify" THEN slots - 1 ELSE slots
  <2>0. req[r].id \in W!Issues  BY <1>2, Surroundings
  <2>1. /\ req' = [req EXCEPT ![r].at = "done"] /\ answer'[r] = "error"
        /\ answer' \in [Requests -> {"none", "ok", "retry", "terminal", "error"}]
        /\ \A y \in Requests : y # r => answer'[y] = answer[y]
    BY <1>2, Replies
  <2>2. /\ req'[r].at = "done" /\ \A y \in Requests : y # r => req'[y] = req[y]
    BY <1>0, <2>1, RequestMoves DEF PageForms, Desks
  <2>3. W!SlotsReturned' /\ slots' \in 0..PageSlots
    <3>1. CASE req[r].at = "verify"
      BY <1>0, <1>2, <2>2, <3>1, SlotGivenBack DEF PageInv
    <3>2. CASE req[r].at # "verify"
      BY <1>0, <1>2, <2>2, <3>2, SlotsKeep DEF PageInv, PageForms
    <3>3. QED  BY <3>1, <3>2
  <2>4. Closes("no") /\ future'[r] # "open"
    BY <1>0, <1>2, <2>0, ReleaseCloses DEF PageInv, Telling
  <2>5. DeskMoves(r, "done")  BY <1>0, <1>2, <2>1, <2>3, <2>4 DEF OwnerDesks, DeskMoves
  <2>6. QED  BY <2>5, DeskStep
<1>3. QED  BY <1>1, <1>2 DEF W!Cancel

\* An entry of two minutes is given up.
LEMMA PruneKeeps ==
  ASSUME W!VerifyPageAssumption, PageInv, W!Prune
  PROVE  PageInv'
<1>0. /\ spent' \in 0..MaxPageFaults /\ PageForms /\ W!EntriesLive
      /\ UNCHANGED <<completed, slots, pageTask, button>> /\ UNCHANGED W!desk
          /\ UNCHANGED W!ledger
  BY Surroundings DEF W!Prune, PageInv, Telling
<1>1. PICK i \in W!Issues : /\ current[i] # NoOne /\ current' = [current EXCEPT ![i] = NoOne]
                            /\ future' = W!Resolve(current[i], "no")
  BY DEF W!Prune
<1>2. Closes("no")
  <2> DEFINE x == current[i]
  <2>1. x \in Requests /\ future[x] = "open" /\ req[x].id = i
    BY <1>0, <1>1 DEF W!EntriesLive, PageForms
  <2>2. future' = [future EXCEPT ![x] = IF @ = "open" THEN "no" ELSE @]
    BY <1>1 DEF W!Resolve
  <2>3. \A j \in W!Issues : current[j] # NoOne =>
           /\ current[j] \in Requests /\ future[current[j]] = "open"
           /\ current[j] = x => j = i
    BY <1>0, <2>1 DEF W!EntriesLive, PageForms
  <2> HIDE DEF x
  <2>4. /\ \A j \in W!Issues : current'[j] = IF j = i THEN NoOne ELSE current[j]
        /\ \A y \in Requests : future'[y] = IF y = x THEN "no" ELSE future[y]
        /\ current' \in [W!Issues -> Requests \cup {NoOne}]
        /\ future' \in [Requests -> {"none", "open", "yes", "no"}]
    BY <1>0, <1>1, <2>1, <2>2 DEF PageForms
  <2>5. current[i] = x  BY DEF x
  <2>6. QED  BY <2>1, <2>3, <2>4, <2>5 DEF Closes
<1>3. W!TypeOK'
  <2>1. PageForms'  BY <1>0, <1>2 DEF PageForms, Closes, W!desk, W!ledger
  <2>2. QED  BY <2>1, FormsStayTypes
<1>4. Taking'
  <2>1. RowFits'  BY <1>0 DEF PageInv, Taking, RowFits, W!ledger
  <2>2. \A r \in Requests : pageTask'[r] # "none" =>
           /\ pageTask[r] # "none" /\ req'[r].id = req[r].id /\ req'[r].at \in OwnerDesks
    BY <1>0, Surroundings DEF W!desk
  <2>3. OwnersFit' /\ OneOwner'
    BY <1>0, <2>2, OwnersKeep, Surroundings DEF PageInv, Taking, W!ledger
  <2>4. OwnersVerdicts'
    BY <1>0, VerdictsKeep DEF PageInv, Taking, W!desk, W!ledger
  <2>5. QED  BY <2>1, <2>3, <2>4 DEF Taking
<1>5. Telling'
  <2>1. OwnersVerdicts' /\ pageReleased' = pageReleased  BY <1>0, <1>4 DEF Taking, W!ledger
  <2>2. \A y \in Requests :
           /\ future'[y] = "open" => req'[y].at \in EntryDesks
           /\ future'[y] = "yes" => future[y] = "yes"
           /\ pageTask'[y] = "close" => future'[y] # "open"
    BY <1>0, <1>2, Surroundings DEF Closes, PageInv, Telling, DesksFit, W!desk
  <2>3. \A y \in Requests :
           /\ pageTask'[y] \in PassedTasks => req[y].id \in pageReleased'
           /\ answer'[y] # "none" => req'[y].at # "new"
    BY <1>0, <2>1 DEF PageInv, Telling, PassesKept, DesksFit, W!desk
  <2>4. QED
    BY <1>0, <1>2, <2>1, <2>2, <2>3, TellingKeeps DEF PageInv, W!desk
<1>6. W!SlotsReturned'  BY <1>0, SlotsKeep DEF PageInv, W!desk
<1>7. QED  BY <1>3, <1>4, <1>5, <1>6 DEF PageInv

\* The row is read again: a challenge taken, overtaken or over.
LEMMA PageClaimKeeps ==
  ASSUME W!VerifyPageAssumption, PageInv, NEW r \in Requests, W!Claim(r)
  PROVE  PageInv'
<1>0. /\ req[r].at = "claim" /\ pageTask[r] = "none" /\ req[r].id \in W!Issues
      /\ UNCHANGED <<issued, member, barred, pageReleased, rejected, completed, slots, button,
                     spent>>
      /\ PageForms /\ Taking /\ Telling
  BY Surroundings DEF W!Claim, OwnerDesks, PageInv
<1>1. CASE /\ pageRow.id = req[r].id /\ pageRow.status = "pending"
           /\ pageRow' = [pageRow EXCEPT !.status = "releasing", !.lease = r]
           /\ pageTask' = [pageTask EXCEPT ![r] = "restore"] /\ W!Goto(r, "task")
           /\ UNCHANGED <<current, future>>
  <2>1. /\ req' \in [Requests -> ReqForms] /\ req'[r].at = "task"
        /\ \A x \in Requests : x # r => req'[x] = req[x]
        /\ \A x \in Requests : req'[x].id = req[x].id /\ req'[x].on = req[x].on
        /\ answer' = answer
    BY <1>0, <1>1, RequestMoves DEF PageForms, Desks, W!Goto
  <2>2. /\ pageTask' \in [Requests -> TaskSteps] /\ pageTask'[r] = "restore"
        /\ \A x \in Requests : x # r => pageTask'[x] = pageTask[x]
    BY <1>0, <1>1 DEF PageForms, TaskSteps
  <2>3. pageRow' \in RowForms /\ pageRow'.status = "releasing" /\ pageRow'.id = pageRow.id
    <3>1. ASSUME NEW f \in RowForms
          PROVE  /\ [f EXCEPT !.status = "releasing", !.lease = r] \in RowForms
                 /\ [f EXCEPT !.status = "releasing", !.lease = r].status = "releasing"
                 /\ [f EXCEPT !.status = "releasing", !.lease = r].id = f.id
      BY DEF RowForms, Statuses
    <3>2. pageRow \in RowForms  BY <1>0 DEF PageForms
    <3>3. QED  BY <1>1, <3>1, <3>2
  <2>4. W!TypeOK'
    <3>1. PageForms'  BY <1>0, <1>1, <2>1, <2>2, <2>3 DEF PageForms
    <3>2. QED  BY <3>1, FormsStayTypes
  <2>5. /\ pageRow.id = issued /\ req[r].id = issued /\ issued \in Nat /\ issued \in 1..issued
    BY <1>0, <1>1, Surroundings DEF Taking, RowFits, PageForms, W!Issues
  <2>6. /\ \A x \in Requests : pageTask[x] # "none" => req[x].id # issued
        /\ \A b \in Buttons : button[b].id # issued
    BY <1>0, <1>1, <2>5 DEF Taking, OwnersFit
  <2>7. RowFits'  BY <1>0, <2>3, <2>5 DEF RowFits
  <2>8. OwnersFit'
    <3>1. ASSUME NEW x \in Requests, pageTask'[x] # "none"
          PROVE  /\ req'[x].at \in OwnerDesks /\ req'[x].id \in 1..issued
                 /\ pageRow'.status # "pending"
      <4>1. CASE x = r  BY <2>1, <2>3, <2>5, <4>1 DEF OwnerDesks
      <4>2. CASE x # r  BY <1>0, <2>1, <2>2, <2>3, <3>1, <4>2 DEF Taking, OwnersFit
      <4>3. QED  BY <4>1, <4>2
    <3>2. QED  BY <1>0, <2>3, <3>1 DEF Taking, OwnersFit
  <2>9. OneOwner'
    BY <1>0, <2>1, <2>2, <2>5, <2>6 DEF Taking, OneOwner
  <2>10. OwnersVerdicts'
    <3>1. \A x \in Requests : pageTask[x] # "none" => pageTask'[x] # "none"
              /\ req'[x].id = req[x].id
      BY <2>1, <2>2
    <3>2. QED  BY <1>0, <3>1, VerdictsKeep DEF Taking
  <2>11. Telling'
    <3>1. Closes("no")  BY <1>0, <1>1, NothingCloses DEF Telling
    <3>2. \A y \in Requests :
           /\ req'[y].at = "new" <=> req[y].at = "new"
           /\ req'[y].at = "wait" => req[y].at = "wait"
      BY <1>0, <2>1
    <3>3. \A y \in Requests :
           /\ future'[y] = "open" => req'[y].at \in EntryDesks
           /\ pageTask'[y] = "close" => future'[y] # "open"
      BY <1>0, <1>1, <2>1, <2>2, Surroundings DEF Telling, DesksFit, EntryDesks
    <3>4. \A y \in Requests : pageTask'[y] \in PassedTasks => req[y].id \in pageReleased'
      BY <1>0, <2>2 DEF Telling, PassesKept, PassedTasks
    <3>5. \A y \in Requests : answer'[y] # "none" => req'[y].at # "new"
      BY <1>0, <2>1, <3>2 DEF Telling, DesksFit
    <3>6. QED
      BY <1>0, <1>1, <2>1, <2>10, <3>1, <3>2, <3>3, <3>4, <3>5, TellingKeeps
  <2>12. W!SlotsReturned'
    <3>1. \A y \in Requests : req'[y].at = "verify" <=> req[y].at = "verify"
      BY <1>0, <2>1
    <3>2. QED  BY <1>0, <3>1, SlotsKeep DEF PageInv
  <2>13. QED
    BY <2>4, <2>7, <2>8, <2>9, <2>10, <2>11, <2>12 DEF PageInv, Taking
<1>2. CASE pageRow' \in {pageRow, W!NoRow} /\ W!Settle(r, "no") /\ W!Reply(r, "terminal")
               /\ pageTask' = pageTask
  <2>1. Closes("no") /\ future'[r] # "open"  BY <1>0, <1>2, SettleCloses DEF Telling
  <2>2. /\ req' = [req EXCEPT ![r].at = "done"] /\ answer'[r] = "terminal"
        /\ answer' \in [Requests -> {"none", "ok", "retry", "terminal", "error"}]
        /\ \A y \in Requests : y # r => answer'[y] = answer[y]
    BY <1>2, Replies
  <2>3. /\ req' \in [Requests -> ReqForms] /\ req'[r].at = "done"
        /\ \A y \in Requests : y # r => req'[y] = req[y]
        /\ \A y \in Requests : req'[y].id = req[y].id /\ req'[y].on = req[y].on
    BY <1>0, <2>2, RequestMoves DEF PageForms, Desks
  <2>4. W!TypeOK'
    <3>1. pageRow' \in RowForms  BY <1>0, <1>2, RowRecords DEF PageForms
    <3>2. PageForms'  BY <1>0, <1>2, <2>1, <2>2, <2>3, <3>1 DEF PageForms, Closes
    <3>3. QED  BY <3>2, FormsStayTypes
  <2>5. Taking'
    <3>1. RowFits' /\ (pageRow'.status = "pending" => pageRow.status = "pending")
      BY <1>0, <1>2, RowRecords DEF Taking, RowFits
    <3>2. \A y \in Requests : pageTask'[y] # "none" =>
            /\ pageTask[y] # "none" /\ req'[y].id = req[y].id /\ req'[y].at \in OwnerDesks
      BY <1>0, <1>2, <2>3, Surroundings
    <3>3. OwnersFit' /\ OneOwner'
      BY <1>0, <3>1, <3>2, OwnersKeep, Surroundings DEF Taking
    <3>4. OwnersVerdicts'  BY <1>0, <1>2, <2>3, VerdictsKeep DEF Taking
    <3>5. QED  BY <3>1, <3>3, <3>4 DEF Taking
  <2>6. Telling'
    <3>1. OwnersVerdicts'  BY <2>5 DEF Taking
    <3>2. \A y \in Requests :
           /\ req'[y].at = "new" <=> req[y].at = "new"
           /\ req'[y].at = "wait" => req[y].at = "wait"
           /\ answer'[y] = "ok" => answer[y] = "ok"
      BY <1>0, <2>2, <2>3
    <3>3. \A y \in Requests :
           /\ future'[y] = "open" => req'[y].at \in EntryDesks
           /\ future'[y] = "yes" => future[y] = "yes"
           /\ pageTask'[y] = "close" => future'[y] # "open"
      BY <1>0, <1>2, <2>1, <2>3, Surroundings DEF Closes, Telling, DesksFit
    <3>4. \A y \in Requests :
           /\ pageTask'[y] \in PassedTasks => req[y].id \in pageReleased'
           /\ answer'[y] # "none" => req'[y].at # "new"
      BY <1>0, <1>2, <2>2, <2>3, <3>2 DEF Telling, PassesKept, DesksFit
    <3>5. QED
      BY <1>0, <2>1, <2>3, <3>1, <3>2, <3>3, <3>4, TellingKeeps
  <2>7. W!SlotsReturned'
    <3>1. \A y \in Requests : req'[y].at = "verify" <=> req[y].at = "verify"
      BY <1>0, <2>3
    <3>2. QED  BY <1>0, <3>1, SlotsKeep DEF PageInv
  <2>8. QED  BY <2>4, <2>5, <2>6, <2>7 DEF PageInv
<1>3. CASE /\ W!Release(r) /\ W!Reply(r, IF future'[r] = "yes" THEN "ok" ELSE "terminal")
           /\ UNCHANGED <<pageRow, pageTask>>
  <2>1. Closes("no") /\ future'[r] # "open"  BY <1>0, <1>3, ReleaseCloses DEF Telling
  <2>2. PICK a \in {"ok", "terminal"} : W!Reply(r, a) /\ (a = "ok" => future'[r] = "yes")
    BY <1>3
  <2>3. /\ req' = [req EXCEPT ![r].at = "done"] /\ answer'[r] = a
        /\ answer' \in [Requests -> {"none", "ok", "retry", "terminal", "error"}]
        /\ \A y \in Requests : y # r => answer'[y] = answer[y]
    BY <2>2, Replies
  <2>4. future'[r] = "yes" => future[r] = "yes"  BY <2>1 DEF Closes
  <2>5. answer'[r] = "ok" => req[r].id \in pageReleased
    BY <1>0, <2>2, <2>3, <2>4 DEF Telling, PassesKept
  <2>6. /\ req'[r].at = "done" /\ \A y \in Requests : y # r => req'[y] = req[y]
    BY <1>0, <2>3, RequestMoves DEF PageForms, Desks
  <2>7. W!SlotsReturned' /\ slots' \in 0..PageSlots
    BY <1>0, <2>6, SlotsKeep DEF PageInv, PageForms
  <2>8. DeskMoves(r, "done")
    BY <1>0, <1>3, <2>1, <2>3, <2>5, <2>7 DEF DeskMoves, PageForms, W!ledger
  <2>9. QED  BY <2>8, DeskStep
<1>4. QED  BY <1>1, <1>2, <1>3 DEF W!Claim

-----------------------------------------------------------------------------
(* The terminal task *)

\* The request is answered once, and with what the task came to.
LEMMA AnsweredMoves ==
  ASSUME W!VerifyPageAssumption, PageInv, NEW r \in Requests,
         NEW a \in {"ok", "retry", "error"}, W!Answered(r, a)
  PROVE  /\ req' \in [Requests -> ReqForms] /\ req'[r].at = "done"
         /\ \A x \in Requests : x # r => req'[x] = req[x]
         /\ req'[r].id = req[r].id /\ req'[r].on = req[r].on
         /\ answer' \in [Requests -> {"none", "ok", "retry", "terminal", "error"}]
         /\ \A y \in Requests : y # r => answer'[y] = answer[y]
         /\ answer'[r] = "ok" => answer[r] = "ok" \/ a = "ok"
<1>0. PageForms  BY Surroundings
<1>1. CASE req[r].at = "done"
  BY <1>0, <1>1 DEF W!Answered, W!desk, PageForms
<1>2. CASE req[r].at # "done"
  <2>1. PICK c \in {"ok", "retry", "error"} : W!Reply(r, c) /\ (c = "ok" => a = "ok")
    BY <1>2 DEF W!Answered
  <2>2. /\ req' = [req EXCEPT ![r].at = "done"] /\ answer'[r] = c
        /\ answer' \in [Requests -> {"none", "ok", "retry", "terminal", "error"}]
        /\ \A y \in Requests : y # r => answer'[y] = answer[y]
    BY <2>1, Replies
  <2>3. QED  BY <1>0, <2>1, <2>2, RequestMoves DEF PageForms, Desks
<1>3. QED  BY <1>1, <1>2

\* What a step of a terminal task does.
TaskMoves(r, t, v) ==
  /\ pageTask[r] # "none" /\ pageTask' = [pageTask EXCEPT ![r] = t]
  /\ req' \in [Requests -> ReqForms] /\ req'[r].at \in {req[r].at, "done"}
  /\ \A x \in Requests : x # r => req'[x] = req[x]
  /\ req'[r].id = req[r].id /\ req'[r].on = req[r].on
  /\ answer' \in [Requests -> {"none", "ok", "retry", "terminal", "error"}]
  /\ \A y \in Requests : y # r => answer'[y] = answer[y]
  /\ answer'[r] = "ok" => answer[r] = "ok" \/ req[r].id \in pageReleased
  /\ Closes(v)
  /\ \A y \in Requests : future'[y] = "yes" => future[y] = "yes" \/ req[y].id \in pageReleased'
  /\ future'[r] = "open" => req'[r].at = req[r].at /\ t # "close"
  /\ completed' \in [W!Issues -> (W!Issues \X (0..MaxArms)) \cup {W!NoMark}]
  /\ \A i \in W!Issues : completed'[i] # W!NoMark => completed[i] # W!NoMark
      \/ i \in pageReleased'
  /\ t \in PassedTasks => req[r].id \in pageReleased'
  /\ member' \in {"muted", "free", "banned", "out"} /\ pageRow' \in {pageRow, W!NoRow}
  /\ pageReleased' \in {pageReleased, pageReleased \cup {req[r].id}}
  /\ spent' \in 0..MaxPageFaults /\ UNCHANGED <<issued, barred, rejected, slots, button>>

\* The permissions are given back, or not.
LEMMA RestoreKeeps ==
  ASSUME W!VerifyPageAssumption, PageInv, NEW r \in Requests, W!Restore(r)
  PROVE  PageInv'
<1>0. /\ PageForms /\ Telling /\ pageTask[r] \in {"restore", "again"}
      /\ UNCHANGED <<issued, pageRow, barred, rejected, slots, button>>
      /\ UNCHANGED W!cache /\ UNCHANGED W!desk
  BY Surroundings DEF W!Restore, PageInv
<1>1. PICK good \in {"complete", "again.complete"}, bad \in {"defer", "again.defer"} :
        W!Unmute(r, good, bad)
  BY DEF W!Restore
<1>2. PICK t \in {good, bad} :
        /\ pageTask' = [pageTask EXCEPT ![r] = t]
            /\ pageReleased' \in {pageReleased, pageReleased \cup {req[r].id}}
        /\ t = good => req[r].id \in pageReleased'
        /\ member' \in {member, IF member = "muted" THEN "free" ELSE member}
        /\ W!Spend \/ UNCHANGED spent
  BY <1>1 DEF W!Unmute
<1>3. Closes("no")  BY <1>0, NothingCloses DEF Telling, W!cache
<1>4. spent' \in 0..MaxPageFaults /\ member' \in {"muted", "free", "banned", "out"}
  BY <1>0, <1>2, Surroundings DEF PageForms
<1>5. t \in TaskSteps \ {"none"} /\ t # "close"  BY DEF TaskSteps
<1>6. t \in PassedTasks => req[r].id \in pageReleased'  BY <1>2 DEF PassedTasks
<1>7. TaskMoves(r, t, "no")
  BY <1>0, <1>2, <1>3, <1>4, <1>5, <1>6 DEF TaskMoves, PageForms, W!cache, W!desk
<1>8. QED  BY <1>5, <1>7, TaskStep DEF TaskMoves

\* The row goes, or the task raises.
LEMMA CompleteKeeps ==
  ASSUME W!VerifyPageAssumption, PageInv, NEW r \in Requests, W!Complete(r)
  PROVE  PageInv'
<1>0. /\ PageForms /\ Telling /\ pageTask[r] \in {"complete", "again.complete"}
      /\ UNCHANGED <<issued, member, barred, pageReleased, rejected, slots, button>>
      /\ UNCHANGED W!cache /\ UNCHANGED W!desk
  BY Surroundings DEF W!Complete, PageInv
<1>1. PICK t \in {"mark", "again.mark", "again", "ended"} :
        /\ pageTask' = [pageTask EXCEPT ![r] = t] /\ pageRow' \in {pageRow, W!NoRow}
        /\ W!Spend \/ UNCHANGED spent
  BY DEF W!Complete, W!Raise
<1>2. req[r].id \in pageReleased  BY <1>0 DEF Telling, PassesKept, PassedTasks
<1>3. Closes("no")  BY <1>0, NothingCloses DEF Telling, W!cache
<1>4. spent' \in 0..MaxPageFaults  BY <1>0, <1>1, Surroundings DEF PageForms
<1>5. TaskMoves(r, t, "no")
  BY <1>0, <1>1, <1>2, <1>3, <1>4 DEF TaskMoves, PageForms, W!cache, W!desk
<1>6. t \in TaskSteps \ {"none"}  BY DEF TaskSteps
<1>7. QED  BY <1>5, <1>6, TaskStep DEF TaskMoves

\* The pass is recorded and its entry told.
LEMMA PassRecordedKeeps ==
  ASSUME W!VerifyPageAssumption, PageInv, NEW r \in Requests, W!Done(r)
  PROVE  PageInv'
<1>0. /\ PageForms /\ Telling /\ pageTask[r] = "mark"
          /\ pageTask' = [pageTask EXCEPT ![r] = "close"]
      /\ W!Settle(r, "yes") /\ completed' = [completed EXCEPT ![req[r].id] = W!Mark(r)]
      /\ UNCHANGED <<slots, button, spent>> /\ UNCHANGED W!desk /\ UNCHANGED W!ledger
      /\ req[r].id \in W!Issues
  BY Surroundings DEF W!Done, PageInv
<1>1. req[r].id \in pageReleased  BY <1>0 DEF Telling, PassesKept, PassedTasks
<1>2. /\ Closes("yes") /\ future'[r] # "open"
      /\ \A y \in Requests : future'[y] # future[y] => req[y].id = req[r].id
  BY <1>0, SettleCloses DEF Telling
<1>3. W!Mark(r) \in W!Issues \X (0..MaxArms)
  BY <1>0 DEF W!Mark, PageForms, ReqForms
<1>4. /\ completed' \in [W!Issues -> (W!Issues \X (0..MaxArms)) \cup {W!NoMark}]
      /\ \A i \in W!Issues : i # req[r].id => completed'[i] = completed[i]
  BY <1>0, <1>3 DEF PageForms
<1>5. TaskMoves(r, "close", "yes")
  BY <1>0, <1>1, <1>2, <1>4 DEF TaskMoves, PageForms, W!desk, W!ledger
<1>6. QED  BY <1>5, TaskStep DEF TaskMoves, TaskSteps

\* The message is closed, or the task raises.
LEMMA CloseKeeps ==
  ASSUME W!VerifyPageAssumption, PageInv, NEW r \in Requests, W!Close(r)
  PROVE  PageInv'
<1>0. /\ PageForms /\ Telling /\ pageTask[r] = "close" /\ future[r] # "open"
      /\ UNCHANGED <<slots, button>> /\ UNCHANGED W!cache /\ UNCHANGED W!ledger
  BY Surroundings DEF W!Close, PageInv, Telling, DesksFit
<1>1. req[r].id \in pageReleased  BY <1>0 DEF Telling, PassesKept, PassedTasks
<1>2. Closes("no")  BY <1>0, NothingCloses DEF Telling, W!cache
<1>3. CASE pageTask' = [pageTask EXCEPT ![r] = "ended"] /\ W!Answered(r, "ok")
               /\ UNCHANGED spent
  <2>1. /\ req' \in [Requests -> ReqForms] /\ req'[r].at = "done"
        /\ \A x \in Requests : x # r => req'[x] = req[x]
        /\ req'[r].id = req[r].id /\ req'[r].on = req[r].on
        /\ answer' \in [Requests -> {"none", "ok", "retry", "terminal", "error"}]
        /\ \A y \in Requests : y # r => answer'[y] = answer[y]
    BY <1>3, AnsweredMoves
  <2>2. TaskMoves(r, "ended", "no")
    BY <1>0, <1>1, <1>2, <1>3, <2>1 DEF TaskMoves, PageForms, W!cache, W!ledger
  <2>3. QED  BY <2>2, TaskStep DEF TaskMoves, TaskSteps
<1>4. CASE W!Raise(r) /\ W!Spend /\ UNCHANGED W!desk
  <2>1. PICK t \in {"again", "ended"} : pageTask' = [pageTask EXCEPT ![r] = t]
    BY <1>4 DEF W!Raise
  <2>2. spent' \in 0..MaxPageFaults  BY <1>4, Surroundings
  <2>3. TaskMoves(r, t, "no")
    BY <1>0, <1>1, <1>2, <1>4, <2>1, <2>2 DEF TaskMoves, PageForms, W!cache, W!ledger, W!desk
  <2>4. t \in TaskSteps \ {"none"}  BY DEF TaskSteps
  <2>5. QED  BY <2>3, <2>4, TaskStep DEF TaskMoves
<1>5. QED  BY <1>3, <1>4 DEF W!Close

\* The end of a task that did not restore, or of the recovery.
LEMMA EndKeeps ==
  ASSUME W!VerifyPageAssumption, PageInv, NEW r \in Requests, W!Postpone(r) \/ W!Recovered(r)
  PROVE  PageInv'
<1>0. /\ PageForms /\ Telling /\ pageTask[r] \in {"defer", "again.mark", "again.defer"}
      /\ pageTask' = [pageTask EXCEPT ![r] = "ended"]
      /\ UNCHANGED <<slots, button, spent>> /\ UNCHANGED W!ledger /\ req[r].id \in W!Issues
  BY Surroundings DEF W!Postpone, W!Recovered, PageInv
<1>1. PICK v \in {"yes", "no"}, a \in {"retry", "error"} :
        /\ W!Settle(r, v) /\ W!Answered(r, a) /\ (v = "yes" => pageTask[r] = "again.mark")
        /\ completed' = IF v = "yes" THEN [completed EXCEPT ![req[r].id] = W!Mark(r)]
                        ELSE completed
  <2>1. CASE W!Postpone(r)  BY <2>1 DEF W!Postpone
  <2>2. CASE W!Recovered(r) /\ pageTask[r] = "again.mark"  BY <2>2 DEF W!Recovered
  <2>3. CASE W!Recovered(r) /\ pageTask[r] = "again.defer"  BY <2>3 DEF W!Recovered
  <2>4. QED  BY <2>1, <2>2, <2>3 DEF W!Recovered
<1>2. v = "yes" => req[r].id \in pageReleased
  BY <1>0, <1>1 DEF Telling, PassesKept, PassedTasks
<1>3. /\ Closes(v) /\ future'[r] # "open"
      /\ \A y \in Requests : future'[y] # future[y] => req[y].id = req[r].id
  BY <1>0, <1>1, SettleCloses DEF Telling
<1>4. W!Mark(r) \in W!Issues \X (0..MaxArms)
  BY <1>0 DEF W!Mark, PageForms, ReqForms
<1>5. /\ completed' \in [W!Issues -> (W!Issues \X (0..MaxArms)) \cup {W!NoMark}]
      /\ \A i \in W!Issues : i # req[r].id \/ v = "no" => completed'[i] = completed[i]
  BY <1>0, <1>1, <1>4 DEF PageForms
<1>6. /\ req' \in [Requests -> ReqForms] /\ req'[r].at = "done"
      /\ \A x \in Requests : x # r => req'[x] = req[x]
      /\ req'[r].id = req[r].id /\ req'[r].on = req[r].on
      /\ answer' \in [Requests -> {"none", "ok", "retry", "terminal", "error"}]
      /\ \A y \in Requests : y # r => answer'[y] = answer[y]
      /\ answer'[r] = "ok" => answer[r] = "ok"
  BY <1>1, AnsweredMoves
<1>7. \A y \in Requests : future'[y] = "yes" => future[y] = "yes"
          \/ req[y].id \in pageReleased'
  BY <1>0, <1>2, <1>3 DEF Closes, W!ledger
<1>8. TaskMoves(r, "ended", v)
  BY <1>0, <1>2, <1>3, <1>5, <1>6, <1>7 DEF TaskMoves, PageForms, W!ledger, PassedTasks
<1>9. QED  BY <1>8, TaskStep DEF TaskMoves, TaskSteps

-----------------------------------------------------------------------------
(* The row is read *)

\* What a step in which a request reads the row does.
ReadMoves(r) ==
  /\ req[r].at = "new" /\ req' \in [Requests -> ReqForms]
  /\ \A x \in Requests : x # r => req'[x] = req[x]
  /\ req'[r].at \in {"verify", "wait", "done"} /\ req'[r].id \in W!Issues
  /\ req'[r].at = "wait" => /\ req'[r].on \in Requests /\ req[req'[r].on].id = req'[r].id
                            /\ req[req'[r].on].at # "new"
  /\ answer' \in [Requests -> {"none", "ok", "retry", "terminal", "error"}]
  /\ \A y \in Requests : y # r => answer'[y] = answer[y]
  /\ answer'[r] = "ok" => req'[r].id \in pageReleased
  /\ current' \in [W!Issues -> Requests \cup {NoOne}]
  /\ future' \in [Requests -> {"none", "open", "yes", "no"}]
  /\ \A y \in Requests : /\ future'[y] = "yes" => future[y] = "yes"
                         /\ y # r => (future'[y] # "none" <=> future[y] # "none")
                         /\ y # r /\ future'[y] = "open" => future[y] = "open"
  /\ W!EntriesLive' /\ UNCHANGED <<completed, pageTask, button, spent>> /\ UNCHANGED W!ledger
  /\ slots' \in 0..PageSlots /\ W!SlotsReturned'

\* A request that has not read the row has no task, entry or answer.
LEMMA Unread ==
  ASSUME W!VerifyPageAssumption, PageInv, NEW r \in Requests, req[r].at = "new"
  PROVE  /\ pageTask[r] = "none" /\ future[r] = "none" /\ answer[r] = "none"
         /\ \A i \in W!Issues : current[i] # r
         /\ \A x \in Requests : pageTask[x] # "none" => x # r
<1>1. pageTask[r] = "none"  BY Surroundings DEF OwnerDesks
<1>2. future[r] = "none" /\ answer[r] = "none"
  BY DEF PageInv, Telling, DesksFit
<1>3. \A i \in W!Issues : current[i] # r
  BY <1>2, Surroundings DEF PageInv, Telling, W!EntriesLive
<1>4. QED  BY <1>1, <1>2, <1>3

\* Such a step keeps the invariant.
LEMMA ReadStep ==
  ASSUME W!VerifyPageAssumption, PageInv, NEW r \in Requests, ReadMoves(r)
  PROVE  PageInv'
<1> USE DEF ReadMoves
<1>0. /\ PageForms /\ Taking /\ Telling /\ pageTask[r] = "none"
      /\ future[r] = "none" /\ answer[r] = "none"
  BY Surroundings, Unread DEF PageInv
<1>1. W!TypeOK'
  <2>1. PageForms'  BY <1>0 DEF PageForms, W!ledger
  <2>2. QED  BY <2>1, FormsStayTypes
<1>2. Taking'
  <2>1. RowFits'  BY <1>0 DEF Taking, RowFits, W!ledger
  <2>2. \A y \in Requests : pageTask'[y] # "none" =>
           /\ pageTask[y] # "none" /\ req'[y].id = req[y].id /\ req'[y].at \in OwnerDesks
    BY <1>0, Surroundings
  <2>3. OwnersFit' /\ OneOwner'
    BY <1>0, <2>2, OwnersKeep, Surroundings DEF Taking, W!ledger
  <2>4. \A y \in Requests : pageTask[y] # "none" => pageTask'[y] # "none"
            /\ req'[y].id = req[y].id
    BY <1>0
  <2>5. OwnersVerdicts'  BY <1>0, <2>4, VerdictsKeep DEF Taking, W!ledger
  <2>6. QED  BY <2>1, <2>3, <2>5 DEF Taking
<1>3. PassesKept'
  <2>1. \A y \in Requests : pageTask[y] \in PassedTasks => y # r  BY <1>0 DEF PassedTasks
  <2>2. \A y \in Requests : future'[y] = "yes" => y # r  BY <1>0
  <2>3. QED  BY <1>0, <2>1, <2>2 DEF Telling, PassesKept, W!ledger
<1>4. DesksFit'
  <2>1. ASSUME NEW y \in Requests, y # r
        PROVE  /\ req'[y].at # "new" => req'[y].id \in W!Issues
               /\ future'[y] # "none" \/ answer'[y] # "none" => req'[y].at # "new"
               /\ pageTask'[y] = "close" => future'[y] # "open"
    BY <1>0, <2>1 DEF Telling, DesksFit
  <2>2. ASSUME NEW y \in Requests, y # r, req'[y].at = "wait"
        PROVE  /\ req'[y].on \in Requests /\ req'[req'[y].on].id = req'[y].id
               /\ req'[req'[y].on].at # "new"
    <3>1. /\ req'[y] = req[y] /\ req[y].on \in Requests /\ req[req[y].on].id = req[y].id
          /\ req[req[y].on].at # "new"
      BY <1>0, <2>2 DEF Telling, DesksFit
    <3>2. req[y].on # r  BY <3>1
    <3>3. QED  BY <3>1, <3>2
  <2>3. /\ req'[r].at # "new" /\ pageTask'[r] # "close"
        /\ req'[r].at = "wait" => /\ req'[r].on \in Requests
                                  /\ req'[req'[r].on].id = req'[r].id
                                  /\ req'[req'[r].on].at # "new"
    BY <1>0
  <2>4. QED  BY <2>1, <2>2, <2>3 DEF DesksFit
<1>5. W!OkHonest'
  BY <1>0, <1>2 DEF Telling, W!OkHonest, Taking, OwnersVerdicts, W!ledger
<1>6. QED  BY <1>1, <1>2, <1>3, <1>4, <1>5 DEF PageInv, Telling

\* Where the cache is not touched its entries stay live.
LEMMA EntriesUntouched ==
  ASSUME W!VerifyPageAssumption, PageInv, NEW r \in Requests, req[r].at = "new",
         UNCHANGED <<current, future>>, \A x \in Requests : x # r => req'[x] = req[x]
  PROVE  W!EntriesLive'
<1>1. /\ W!EntriesLive /\ PageForms /\ future[r] = "none" /\ \A i \in W!Issues : current[i] # r
  BY Unread, Surroundings DEF PageInv, Telling
<1>2. ASSUME NEW i \in W!Issues, current[i] # NoOne
      PROVE  current[i] \in Requests /\ req'[current[i]] = req[current[i]]
  BY <1>1, <1>2 DEF PageForms
<1>3. \A y \in Requests : future[y] = "open" => req'[y] = req[y]  BY <1>1
<1>4. QED  BY <1>1, <1>2, <1>3 DEF W!EntriesLive

\* The pending row's number and arming.
LEMMA PendingRow ==
  ASSUME W!VerifyPageAssumption, PageInv, pageRow.status = "pending"
  PROVE  pageRow.id = issued /\ pageRow.id \in W!Issues /\ pageRow.id \in 0..MaxIssues
      /\ pageRow.armed \in 0..MaxArms
BY Surroundings DEF PageInv, Taking, RowFits, PageForms, RowForms

\* A submission joins the one that is being verified.
LEMMA JoinKeeps ==
  ASSUME W!VerifyPageAssumption, PageInv, NEW r \in Requests, W!Join(r)
  PROVE  PageInv'
<1>0. /\ PageForms /\ req[r].at = "new" /\ pageRow.status = "pending" /\ W!Running # NoOne
      /\ req' = [req EXCEPT ![r] = [at |-> "wait", id |-> pageRow.id, armed |-> pageRow.armed,
                                    on |-> W!Running]]
      /\ UNCHANGED <<answer, pageTask, slots, button, spent>> /\ UNCHANGED W!cache
          /\ UNCHANGED W!ledger
  BY Surroundings DEF W!Join, W!Reads
<1>1. pageRow.id \in W!Issues /\ pageRow.id \in 0..MaxIssues /\ pageRow.armed \in 0..MaxArms
  BY <1>0, PendingRow
<1>2. PICK x \in Requests : x = W!Running /\ x = current[pageRow.id]
  BY <1>0, <1>1 DEF W!Running, W!EntryOf, PageForms
<1>3. req[x].id = pageRow.id /\ req[x].at # "new"
  BY <1>0, <1>1, <1>2, Surroundings DEF PageInv, Telling, W!EntriesLive
<1>4. [at |-> "wait", id |-> pageRow.id, armed |-> pageRow.armed, on |-> x] \in ReqForms
  BY <1>1 DEF ReqForms, Desks
<1>5. /\ req' \in [Requests -> ReqForms] /\ \A y \in Requests : y # r => req'[y] = req[y]
      /\ req'[r].at = "wait" /\ req'[r].id = pageRow.id /\ req'[r].on = x
  BY <1>0, <1>2, <1>4 DEF PageForms
<1>6. W!EntriesLive'  BY <1>0, <1>5, EntriesUntouched DEF W!cache
<1>7. W!SlotsReturned'
  BY <1>0, <1>5, SlotsKeep DEF PageInv
<1>8. answer[r] = "none"  BY <1>0, Unread
<1>9. ReadMoves(r)
  BY <1>0, <1>1, <1>3, <1>5, <1>6, <1>7, <1>8 DEF ReadMoves, PageForms, W!cache
<1>10. QED  BY <1>9, ReadStep

\* A submission of a challenge that is not pending any more.
LEMMA LateKeeps ==
  ASSUME W!VerifyPageAssumption, PageInv, NEW r \in Requests, W!Late(r)
  PROVE  PageInv'
<1>0. /\ PageForms /\ Telling /\ req[r].at = "new" /\ answer[r] = "none"
      /\ UNCHANGED <<slots, pageTask, button, spent>> /\ UNCHANGED W!cache
          /\ UNCHANGED W!ledger
  BY Surroundings, Unread DEF W!Late, PageInv
<1>1. PICK p \in 1..issued :
        LET read == [req[r] EXCEPT !.id = p, !.at = "done"] IN
        \/ /\ req' = [req EXCEPT ![r] = read]
           /\ \/ completed[p] # W!NoMark /\ answer' = [answer EXCEPT ![r] = "ok"]
              \/ answer' = [answer EXCEPT ![r] = "terminal"]
        \/ /\ current[p] # NoOne /\ answer' = answer
           /\ req' = [req EXCEPT ![r] = [read EXCEPT !.at = "wait", !.on = current[p]]]
  BY DEF W!Late
<1>2. p \in W!Issues /\ p \in 0..MaxIssues
  BY <1>0 DEF PageForms, W!Issues, W!VerifyPageAssumption
<1> DEFINE read == [req[r] EXCEPT !.id = p, !.at = "done"]
<1>3. \A f \in ReqForms : LET g == [f EXCEPT !.id = p, !.at = "done"] IN
        /\ g \in ReqForms /\ g.at = "done" /\ g.id = p
        /\ \A x \in Requests : /\ [g EXCEPT !.at = "wait", !.on = x] \in ReqForms
                               /\ [g EXCEPT !.at = "wait", !.on = x].at = "wait"
                               /\ [g EXCEPT !.at = "wait", !.on = x].on = x
                               /\ [g EXCEPT !.at = "wait", !.on = x].id = p
  BY <1>2 DEF ReqForms, Desks
<1>4. /\ req' \in [Requests -> ReqForms] /\ \A y \in Requests : y # r => req'[y] = req[y]
      /\ req'[r].at \in {"wait", "done"} /\ req'[r].id = p
      /\ req'[r].at = "wait" => req'[r].on = current[p] /\ current[p] \in Requests
  <2>1. req[r] \in ReqForms  BY <1>0 DEF PageForms
  <2>2. CASE req' = [req EXCEPT ![r] = read]
    <3>1. read \in ReqForms /\ read.at = "done" /\ read.id = p  BY <1>3, <2>1
    <3> HIDE DEF read
    <3>2. QED  BY <1>0, <2>2, <3>1 DEF PageForms
  <2>3. CASE /\ current[p] # NoOne
             /\ req' = [req EXCEPT ![r] = [read EXCEPT !.at = "wait", !.on = current[p]]]
    <3>1. current[p] \in Requests  BY <1>0, <1>2, <2>3 DEF PageForms
    <3> DEFINE waits == [read EXCEPT !.at = "wait", !.on = current[p]]
    <3>2. /\ waits \in ReqForms /\ waits.at = "wait" /\ waits.on = current[p]
          /\ waits.id = p
      BY <1>3, <2>1, <3>1
    <3>3. req' = [req EXCEPT ![r] = waits]  BY <2>3
    <3> HIDE DEF waits, read
    <3>4. QED  BY <1>0, <3>1, <3>2, <3>3 DEF PageForms
  <2>4. QED  BY <1>1, <2>2, <2>3
<1>5. /\ answer' \in [Requests -> {"none", "ok", "retry", "terminal", "error"}]
      /\ \A y \in Requests : y # r => answer'[y] = answer[y]
      /\ answer'[r] = "ok" => completed[p] # W!NoMark
  BY <1>0, <1>1 DEF PageForms
<1>6. answer'[r] = "ok" => p \in pageReleased
  BY <1>0, <1>2, <1>5 DEF Telling, PassesKept
<1>7. req'[r].at = "wait" => req[current[p]].id = p /\ req[current[p]].at # "new"
  BY <1>0, <1>2, <1>4, Surroundings DEF Telling, W!EntriesLive
<1>8. W!EntriesLive'  BY <1>0, <1>4, EntriesUntouched DEF W!cache
<1>9. W!SlotsReturned'
  BY <1>0, <1>4, SlotsKeep DEF PageInv
<1>10. ReadMoves(r)
  BY <1>0, <1>2, <1>4, <1>5, <1>6, <1>7, <1>8, <1>9 DEF ReadMoves, PageForms, W!cache
<1>11. QED  BY <1>10, ReadStep

\* The first submission of a fingerprint takes the place of an older entry.
LEMMA OpenKeeps ==
  ASSUME W!VerifyPageAssumption, PageInv, NEW r \in Requests, W!Open(r)
  PROVE  PageInv'
<1>0. /\ PageForms /\ Telling /\ W!EntriesLive /\ req[r].at = "new"
          /\ pageRow.status = "pending"
      /\ answer[r] = "none" /\ future[r] = "none" /\ \A i \in W!Issues : current[i] # r
      /\ UNCHANGED <<completed, pageTask, button, spent>> /\ UNCHANGED W!ledger
  BY Surroundings, Unread DEF W!Open, W!Reads, PageInv, Telling
<1> DEFINE i == pageRow.id
<1> DEFINE c == current[i]
<1>1. i \in W!Issues /\ i \in 0..MaxIssues /\ pageRow.armed \in 0..MaxArms
  BY <1>0, PendingRow
<1>2. PICK s \in {"verify", "done"} :
        /\ req' = [req EXCEPT ![r] = [at |-> s, id |-> i, armed |-> pageRow.armed, on |-> r]]
        /\ current' = [current EXCEPT ![i] = IF s = "verify" THEN r ELSE NoOne]
        /\ future' = [W!Superseded EXCEPT ![r] = IF s = "verify" THEN "open" ELSE "no"]
        /\ IF s = "verify" THEN slots < PageSlots /\ slots' = slots + 1 /\ answer' = answer
                           ELSE slots' = slots /\ answer' = [answer EXCEPT ![r] = "retry"]
  BY DEF W!Open, W!TakeSlot
<1> HIDE DEF i
<1>3. [at |-> s, id |-> i, armed |-> pageRow.armed, on |-> r] \in ReqForms
  BY <1>1 DEF ReqForms, Desks
<1>4. /\ req' \in [Requests -> ReqForms] /\ \A y \in Requests : y # r => req'[y] = req[y]
      /\ req'[r].at = s /\ req'[r].id = i
  BY <1>0, <1>2, <1>3 DEF PageForms
<1>5. c # NoOne => c \in Requests /\ future[c] = "open" /\ req[c].id = i /\ c # r
  BY <1>0, <1>1 DEF W!EntriesLive, PageForms
<1>6. W!Superseded = IF c = NoOne THEN future
                   ELSE [future EXCEPT ![c] = IF @ = "open" THEN "no" ELSE @]
  BY DEF W!Superseded, W!Resolve, i
<1>7. /\ W!Superseded \in [Requests -> {"none", "open", "yes", "no"}]
      /\ \A y \in Requests : W!Superseded[y] = IF c # NoOne /\ y = c THEN "no" ELSE future[y]
  BY <1>0, <1>5, <1>6 DEF PageForms
<1>8. /\ future' \in [Requests -> {"none", "open", "yes", "no"}]
      /\ \A y \in Requests : y # r =>
           future'[y] = IF c # NoOne /\ y = c THEN "no" ELSE future[y]
      /\ future'[r] = IF s = "verify" THEN "open" ELSE "no"
  BY <1>2, <1>7
<1>9. /\ current' \in [W!Issues -> Requests \cup {NoOne}]
      /\ \A j \in W!Issues : j # i => current'[j] = current[j]
      /\ current'[i] = IF s = "verify" THEN r ELSE NoOne
  BY <1>0, <1>1, <1>2 DEF PageForms
<1>10. /\ answer' \in [Requests -> {"none", "ok", "retry", "terminal", "error"}]
       /\ \A y \in Requests : y # r => answer'[y] = answer[y]
       /\ answer'[r] # "ok"
  BY <1>0, <1>2 DEF PageForms
<1>11. W!SlotsReturned' /\ slots' \in 0..PageSlots
  <2>1. CASE s = "verify"
    BY <1>0, <1>2, <1>4, <2>1, SlotTaken DEF PageInv
  <2>2. CASE s = "done"
    BY <1>0, <1>2, <1>4, <2>2, SlotsKeep DEF PageInv, PageForms
  <2>3. QED  BY <2>1, <2>2
<1>12. W!EntriesLive'
  <2>1. ASSUME NEW j \in W!Issues, current'[j] # NoOne
        PROVE  /\ req'[current'[j]].id = j /\ future'[current'[j]] = "open"
               /\ req'[current'[j]].at \in {"verify", "claim", "task", "aborted"}
    <3>1. CASE j = i  BY <1>4, <1>8, <1>9, <2>1, <3>1
    <3>2. CASE j # i
      <4>1. current'[j] = current[j] /\ current[j] \in Requests /\ current[j] # r
        BY <1>0, <1>9, <2>1, <3>2 DEF PageForms
      <4>2. /\ req[current[j]].id = j /\ future[current[j]] = "open"
            /\ req[current[j]].at \in {"verify", "claim", "task", "aborted"}
        BY <1>0, <2>1, <4>1 DEF W!EntriesLive
      <4>3. c # NoOne => current[j] # c  BY <1>5, <3>2, <4>2
      <4>4. QED  BY <1>4, <1>8, <4>1, <4>2, <4>3
    <3>3. QED  BY <3>1, <3>2
  <2>2. ASSUME NEW y \in Requests, future'[y] = "open"  PROVE current'[req'[y].id] = y
    <3>1. CASE y = r  BY <1>4, <1>8, <1>9, <2>2, <3>1
    <3>2. CASE y # r
      <4>1. future[y] = "open" /\ (c = NoOne \/ y # c)  BY <1>8, <2>2, <3>2
      <4>2. current[req[y].id] = y /\ req[y].id \in W!Issues
        BY <1>0, <4>1 DEF W!EntriesLive, Telling, DesksFit
      <4>3. req[y].id # i  BY <1>5, <4>1, <4>2, Surroundings
      <4>4. QED  BY <1>4, <1>9, <3>2, <4>2, <4>3
    <3>3. QED  BY <3>1, <3>2
  <2>3. QED  BY <2>1, <2>2 DEF W!EntriesLive
<1>13. \A y \in Requests : /\ future'[y] = "yes" => future[y] = "yes"
                           /\ y # r => (future'[y] # "none" <=> future[y] # "none")
                           /\ y # r /\ future'[y] = "open" => future[y] = "open"
  BY <1>5, <1>8
<1>14. ReadMoves(r)
  BY <1>0, <1>1, <1>4, <1>8, <1>9, <1>10, <1>11, <1>12, <1>13 DEF ReadMoves
<1>15. QED  BY <1>14, ReadStep

-----------------------------------------------------------------------------
(* The presses *)

\* A press takes the pending row.
LEMMA PressKeeps ==
  ASSUME W!VerifyPageAssumption, PageInv, NEW b \in Buttons, W!Press(b)
  PROVE  PageInv'
<1>0. /\ PageForms /\ Taking /\ Telling /\ button[b].at = "new" /\ pageRow.status = "pending"
      /\ UNCHANGED <<issued, member, barred, pageReleased, rejected, slots, pageTask, spent>>
      /\ UNCHANGED W!cache /\ UNCHANGED W!desk
  BY Surroundings DEF W!Press, W!Pressable, W!Presses, PageInv
<1>1. PICK s \in {"restore", "mark"}, st \in {"releasing", "enforcing"} :
        /\ pageRow' = [pageRow EXCEPT !.status = st, !.lease = b]
        /\ button' = [button EXCEPT ![b] = [id |-> pageRow.id, at |-> s]]
  BY DEF W!Press
<1>2. pageRow' \in RowForms /\ pageRow'.status = st /\ pageRow'.id = pageRow.id
  <2>1. pageRow \in RowForms /\ st \in Statuses /\ b \in Requests \cup Buttons \cup {NoOne}
    BY <1>0 DEF PageForms, Statuses
  <2>2. ASSUME NEW f \in RowForms
        PROVE  /\ [f EXCEPT !.status = st, !.lease = b] \in RowForms
               /\ [f EXCEPT !.status = st, !.lease = b].status = st
               /\ [f EXCEPT !.status = st, !.lease = b].id = f.id
    BY <2>1 DEF RowForms
  <2>3. QED  BY <1>1, <2>1, <2>2
<1>3. pageRow.id \in W!Issues /\ pageRow.id \in 0..MaxIssues /\ pageRow.id = issued
  BY <1>0, PendingRow
<1>4. /\ button' \in [Buttons -> ButtonForms] /\ button'[b].at = s /\ button'[b].id = issued
      /\ \A c \in Buttons : c # b => button'[c] = button[c]
  <2>1. [id |-> pageRow.id, at |-> s] \in ButtonForms  BY <1>3 DEF ButtonForms, ButtonSteps
  <2>2. QED  BY <1>0, <1>1, <1>3, <2>1 DEF PageForms
<1>5. W!TypeOK'
  <2>1. PageForms'  BY <1>0, <1>2, <1>4 DEF PageForms, W!cache, W!desk
  <2>2. QED  BY <2>1, FormsStayTypes
<1>6. issued \in Nat /\ issued \in 1..issued /\ issued # 0
  BY <1>3, Surroundings DEF W!Issues
<1>7. /\ \A x \in Requests : pageTask[x] # "none" => req[x].id # issued
      /\ \A c \in Buttons : button[c].id # issued
  BY <1>0, <1>3, <1>6 DEF Taking, OwnersFit
<1>8. RowFits'  BY <1>0, <1>2, <1>3 DEF RowFits
<1>9. OwnersFit'
  <2>1. ASSUME NEW x \in Requests, pageTask'[x] # "none"
        PROVE  req'[x].at \in OwnerDesks /\ req'[x].id \in 1..issued
    BY <1>0, <2>1 DEF Taking, OwnersFit, W!desk
  <2>2. ASSUME NEW c \in Buttons
        PROVE  /\ button'[c].at # "new" <=> button'[c].id # 0
               /\ button'[c].id # 0 => button'[c].id \in 1..issued
    BY <1>0, <1>4, <1>6 DEF Taking, OwnersFit
  <2>3. QED  BY <1>0, <1>2, <2>1, <2>2 DEF OwnersFit
<1>10. OneOwner'  BY <1>0, <1>4, <1>7 DEF Taking, OneOwner, W!desk
<1>11. OwnersVerdicts'
  <2>1. \A c \in Buttons : button[c].at # "new" => button'[c] = button[c]  BY <1>0, <1>4
  <2>2. QED  BY <1>0, <2>1, VerdictsKeep DEF Taking, W!desk
<1>12. Telling'  BY <1>0, <1>11, TellingStays
<1>13. W!SlotsReturned'  BY <1>0, SlotsKeep DEF PageInv, W!desk
<1>14. QED  BY <1>5, <1>8, <1>9, <1>10, <1>11, <1>12, <1>13 DEF PageInv, Taking

\* A press that goes on and passes and rejects nobody.
LEMMA PressGoesOn ==
  ASSUME W!VerifyPageAssumption, PageInv, NEW b \in Buttons, NEW s \in ButtonSteps \ {"new"},
         W!Step(b, s), button[b].at # "new",
         button[b].at \notin Unpassed => s \notin Unpassed,
         button[b].at \notin Unrejected => s \notin Unrejected,
         UNCHANGED W!cache, UNCHANGED W!desk,
         UNCHANGED <<pageTask, slots, issued, barred, pageReleased, rejected>>,
         pageRow' \in {pageRow, W!NoRow}, member' \in {"muted", "free", "banned", "out"},
         spent' \in 0..MaxPageFaults
  PROVE  PageInv'
<1>1. PageForms  BY Surroundings
<1>2. /\ button'[b].at = s /\ \A c \in Buttons : c # b => button'[c] = button[c]
      /\ \A c \in Buttons : button'[c].id = button[c].id
  BY <1>1, ButtonMoves DEF PageForms
<1>3. \A c \in Buttons :
        /\ button[c].at \notin Unpassed => button'[c].at \notin Unpassed
        /\ button[c].at \notin Unrejected => button'[c].at \notin Unrejected
  BY <1>2
<1>4. OwnersVerdicts'  BY <1>2, <1>3, VerdictsKeep DEF PageInv, Taking, W!desk
<1>5. PressDoes(b, s)  BY <1>1, <1>4 DEF PressDoes, PageForms
<1>6. QED  BY <1>5, PressStep

\* A call of a press leaves a member, and the faults within their bound.
LEMMA TellMoves ==
  ASSUME W!VerifyPageAssumption, PageInv, NEW b \in Buttons,
         NEW to \in {"muted", "free", "banned", "out"}, NEW good, NEW bad, W!Tell(b, to, good,
         bad)
  PROVE  /\ member' \in {"muted", "free", "banned", "out"} /\ spent' \in 0..MaxPageFaults
         /\ W!Step(b, good) \/ W!Step(b, bad)
  BY Surroundings DEF W!Tell, PageForms

\* Pass: the permissions are given back, of a challenge nobody rejects.
LEMMA PassCallKeeps ==
  ASSUME W!VerifyPageAssumption, PageInv, NEW b \in Buttons, W!PassCall(b)
  PROVE  PageInv'
<1>0. /\ PageForms /\ Taking /\ button[b].at = "restore"
      /\ UNCHANGED <<issued, pageRow, barred, rejected, slots, pageTask>>
      /\ UNCHANGED W!cache /\ UNCHANGED W!desk
      /\ pageReleased' = IF button'[b].at = "release" THEN pageReleased
          \cup {button[b].id} ELSE pageReleased
  BY Surroundings DEF W!PassCall, W!Presses, PageInv
<1>1. /\ member' \in {"muted", "free", "banned", "out"} /\ spent' \in 0..MaxPageFaults
      /\ W!Step(b, "release") \/ W!Step(b, "done")
  <2>1. CASE member = "banned"
    BY <1>0, <2>1 DEF W!PassCall, PageForms
  <2>2. CASE member # "banned"
    <3>1. PICK to \in {"muted", "free", "banned", "out"} : W!Tell(b, to, "release", "done")
      BY <1>0, <2>2 DEF W!PassCall, PageForms
    <3>2. QED  BY <3>1, TellMoves
  <2>3. QED  BY <2>1, <2>2
<1>2. PICK s \in {"release", "done"} : W!Step(b, s)  BY <1>1
<1>3. /\ button'[b].at = s /\ \A c \in Buttons : c # b => button'[c] = button[c]
      /\ \A c \in Buttons : button'[c].id = button[c].id
  BY <1>0, <1>2, ButtonMoves DEF PageForms, ButtonSteps
<1>4. button[b].id # 0 /\ button[b].id \in W!Issues /\ issued \in W!Issues
  <2>1. button[b].id # 0 /\ button[b].id \in 1..issued /\ issued \in W!Issues
    BY <1>0 DEF Taking, OwnersFit, PageForms
  <2>2. QED  BY <2>1 DEF W!Issues, W!VerifyPageAssumption
<1>5. button[b].id \notin rejected
  BY <1>0, <1>4 DEF Taking, OneOwner, OwnersVerdicts, Unrejected
<1>6. OwnersVerdicts'
  <2>1. pageReleased' \cap rejected' = {}  BY <1>0, <1>5 DEF Taking, OwnersVerdicts
  <2>2. ASSUME NEW i \in pageReleased'
        PROVE  \/ \E r \in Requests : pageTask'[r] # "none" /\ req'[r].id = i
               \/ \E c \in Buttons : button'[c].id = i /\ button'[c].at \notin Unpassed
    <3>1. CASE i \in pageReleased /\ \E r \in Requests : pageTask[r] # "none" /\ req[r].id = i
      BY <1>0, <3>1 DEF W!desk
    <3>2. CASE \E c \in Buttons : button[c].id = i /\ button[c].at \notin Unpassed
      <4>1. PICK c \in Buttons : button[c].id = i /\ button[c].at \notin Unpassed  BY <3>2
      <4>2. c # b  BY <1>0, <4>1 DEF Unpassed
      <4>3. QED  BY <1>3, <4>1, <4>2
    <3>3. CASE i \notin pageReleased
      BY <1>0, <1>3, <2>2, <3>3 DEF Unpassed
    <3>4. QED  BY <1>0, <3>1, <3>2, <3>3 DEF Taking, OwnersVerdicts
  <2>3. ASSUME NEW i \in rejected'
        PROVE  \E c \in Buttons : button'[c].id = i /\ button'[c].at \notin Unrejected
    <3>1. PICK c \in Buttons : button[c].id = i /\ button[c].at \notin Unrejected
      BY <1>0, <2>3 DEF Taking, OwnersVerdicts
    <3>2. c # b  BY <1>0, <3>1 DEF Unrejected
    <3>3. QED  BY <1>3, <3>1, <3>2
  <2>4. QED  BY <2>1, <2>2, <2>3 DEF OwnersVerdicts
<1>7. PressDoes(b, s)
  BY <1>0, <1>1, <1>2, <1>4, <1>6 DEF PressDoes, PageForms
<1>8. QED  BY <1>7, PressStep DEF ButtonSteps

\* Reject: a ban is recorded, of a challenge nobody has passed.
LEMMA RejectMarkKeeps ==
  ASSUME W!VerifyPageAssumption, PageInv, NEW b \in Buttons, W!RejectMark(b)
  PROVE  PageInv'
<1>0. /\ PageForms /\ Taking /\ button[b].at = "mark" /\ W!Step(b, "ban") /\ barred' = TRUE
      /\ rejected' = rejected \cup {button[b].id}
      /\ UNCHANGED <<issued, pageRow, member, pageReleased, slots, pageTask, spent>>
      /\ UNCHANGED W!cache /\ UNCHANGED W!desk
  BY Surroundings DEF W!RejectMark, W!Presses, PageInv
<1>1. /\ button'[b].at = "ban" /\ \A c \in Buttons : c # b => button'[c] = button[c]
      /\ \A c \in Buttons : button'[c].id = button[c].id
  BY <1>0, ButtonMoves DEF PageForms, ButtonSteps
<1>2. button[b].id # 0 /\ button[b].id \in W!Issues
  <2>1. button[b].id # 0 /\ button[b].id \in 1..issued /\ issued \in W!Issues
    BY <1>0 DEF Taking, OwnersFit, PageForms
  <2>2. QED  BY <2>1 DEF W!Issues, W!VerifyPageAssumption
<1>3. button[b].id \notin pageReleased
  BY <1>0, <1>2 DEF Taking, OneOwner, OwnersVerdicts, Unpassed
<1>4. OwnersVerdicts'
  <2>1. pageReleased' \cap rejected' = {}  BY <1>0, <1>3 DEF Taking, OwnersVerdicts
  <2>2. ASSUME NEW i \in pageReleased'
        PROVE  \/ \E r \in Requests : pageTask'[r] # "none" /\ req'[r].id = i
               \/ \E c \in Buttons : button'[c].id = i /\ button'[c].at \notin Unpassed
    <3>1. CASE \E r \in Requests : pageTask[r] # "none" /\ req[r].id = i
      BY <1>0, <3>1 DEF W!desk
    <3>2. CASE \E c \in Buttons : button[c].id = i /\ button[c].at \notin Unpassed
      <4>1. PICK c \in Buttons : button[c].id = i /\ button[c].at \notin Unpassed  BY <3>2
      <4>2. c # b  BY <1>0, <4>1 DEF Unpassed
      <4>3. QED  BY <1>1, <4>1, <4>2
    <3>3. QED  BY <1>0, <2>2, <3>1, <3>2 DEF Taking, OwnersVerdicts
  <2>3. ASSUME NEW i \in rejected'
        PROVE  \E c \in Buttons : button'[c].id = i /\ button'[c].at \notin Unrejected
    <3>1. CASE i = button[b].id  BY <1>1, <3>1 DEF Unrejected
    <3>2. CASE i \in rejected
      <4>1. PICK c \in Buttons : button[c].id = i /\ button[c].at \notin Unrejected
        BY <1>0, <3>2 DEF Taking, OwnersVerdicts
      <4>2. c # b  BY <1>0, <4>1 DEF Unrejected
      <4>3. QED  BY <1>1, <4>1, <4>2
    <3>3. QED  BY <1>0, <2>3, <3>1, <3>2
  <2>4. QED  BY <2>1, <2>2, <2>3 DEF OwnersVerdicts
<1>5. PressDoes(b, "ban")
  BY <1>0, <1>2, <1>4 DEF PressDoes, PageForms
<1>6. QED  BY <1>5, PressStep DEF ButtonSteps

\* The end of Pass and of Reject, and what follows a lost lease.
LEMMA PressEndsKeep ==
  ASSUME W!VerifyPageAssumption, PageInv, NEW b \in Buttons,
         W!PassEnd(b) \/ W!RejectBan(b) \/ W!RejectEnd(b) \/ W!Policy(b) \/ W!PolicyCall(b)
  PROVE  PageInv'
<1>0. /\ PageForms /\ UNCHANGED <<pageTask, slots, issued, barred, pageReleased, rejected>>
      /\ UNCHANGED W!cache /\ UNCHANGED W!desk
      /\ button[b].at \in {"release", "ban", "reban", "finish", "policy", "unmute"}
  BY Surroundings
     DEF W!PassEnd, W!RejectBan, W!RejectEnd, W!Policy, W!PolicyCall, W!Presses, W!ledger
<1>1. /\ pageRow' \in {pageRow, W!NoRow} /\ member' \in {"muted", "free", "banned", "out"}
      /\ spent' \in 0..MaxPageFaults
      /\ \E s \in {"done", "policy", "finish", "reban", "unmute"} :
           W!Step(b, s) /\ (s = "finish" => button[b].at = "ban")
  <2>0. member \in {"muted", "free", "banned", "out"} /\ spent \in 0..MaxPageFaults
    BY <1>0 DEF PageForms
  <2>1. CASE W!PassEnd(b) \/ W!RejectEnd(b)  BY <2>0, <2>1 DEF W!PassEnd, W!RejectEnd
  <2>2. CASE W!RejectBan(b)
    <3>1. CASE W!Presses(b, "ban") /\ W!Tell(b, "banned", "finish", "done")
      BY <2>2, <3>1, TellMoves DEF W!RejectBan, W!Presses
    <3>2. CASE W!Tell(b, "banned", "done", "done")
      BY <2>2, <3>2, TellMoves DEF W!RejectBan
    <3>3. QED  BY <2>2, <3>1, <3>2 DEF W!RejectBan
  <2>3. CASE W!Policy(b)  BY <2>0, <2>3 DEF W!Policy, W!ledger
  <2>4. CASE W!PolicyCall(b)
    <3>1. CASE member = "muted"
      BY <2>4, <3>1, TellMoves DEF W!PolicyCall
    <3>2. CASE member # "muted"  BY <2>0, <2>4, <3>2 DEF W!PolicyCall
    <3>3. QED  BY <3>1, <3>2
  <2>5. QED  BY <2>1, <2>2, <2>3, <2>4
<1>2. PICK s \in {"done", "policy", "finish", "reban", "unmute"} :
        W!Step(b, s) /\ (s = "finish" => button[b].at = "ban")
  BY <1>1
<1>3. /\ s \in ButtonSteps \ {"new"} /\ s \notin Unrejected
      /\ button[b].at \notin Unpassed => s \notin Unpassed
  BY <1>2 DEF ButtonSteps, Unpassed, Unrejected
<1>4. QED  BY <1>0, <1>1, <1>2, <1>3, PressGoesOn

-----------------------------------------------------------------------------
(* The challenge itself, and the theorem *)

\* The deadline is extended.
LEMMA ArmKeeps ==
  ASSUME W!VerifyPageAssumption, PageInv, W!Arm
  PROVE  PageInv'
<1>1. /\ pageRow \in RowForms /\ issued \in W!Issues
          /\ member \in {"muted", "free", "banned", "out"}
      /\ spent \in 0..MaxPageFaults
  BY Surroundings DEF PageForms
<1>2. pageRow' \in RowForms /\ pageRow'.status = pageRow.status /\ pageRow'.id = pageRow.id
  BY <1>1, RowRecords DEF W!Arm
<1>3. RowFits'  BY <1>2 DEF PageInv, Taking, RowFits, W!Arm
<1>4. QED  BY <1>1, <1>2, <1>3, ChallengeStep DEF W!Arm

\* A lease lapses.
LEMMA LapseKeeps ==
  ASSUME W!VerifyPageAssumption, PageInv, W!Lapse
  PROVE  PageInv'
<1>1. /\ pageRow \in RowForms /\ issued \in W!Issues
          /\ member \in {"muted", "free", "banned", "out"}
      /\ spent' \in 0..MaxPageFaults
  BY Surroundings DEF PageForms, W!Lapse
<1>2. pageRow' \in RowForms /\ pageRow'.status = pageRow.status /\ pageRow'.id = pageRow.id
  BY <1>1, RowRecords DEF W!Lapse
<1>3. RowFits'  BY <1>2 DEF PageInv, Taking, RowFits, W!Lapse
<1>4. QED  BY <1>1, <1>2, <1>3, ChallengeStep DEF W!Lapse

\* The sweeper ends what is overdue.
LEMMA PageSweepKeeps ==
  ASSUME W!VerifyPageAssumption, PageInv, W!Sweep
  PROVE  PageInv'
<1>1. /\ issued \in W!Issues /\ member \in {"muted", "free", "banned", "out"}
      /\ spent \in 0..MaxPageFaults
  BY Surroundings DEF PageForms
<1>2. pageRow' \in RowForms /\ pageRow'.status = "none"  BY RowRecords DEF W!Sweep
<1>3. RowFits'  BY <1>2 DEF RowFits
<1>4. member' \in {"muted", "free", "banned", "out"}  BY <1>1 DEF W!Sweep
<1>5. QED  BY <1>1, <1>2, <1>3, <1>4, ChallengeStep DEF W!Sweep

\* The member is asked again.
LEMMA IssueKeeps ==
  ASSUME W!VerifyPageAssumption, PageInv, W!Issue
  PROVE  PageInv'
<1>1. issued \in W!Issues /\ issued \in Nat /\ spent \in 0..MaxPageFaults
  BY Surroundings DEF PageForms
<1>2. issued' \in W!Issues /\ issued' = issued + 1
  BY <1>1 DEF W!Issue, W!Issues, W!VerifyPageAssumption
<1>3. pageRow' \in RowForms /\ pageRow'.id = issued'  BY <1>2, RowRecords DEF W!Issue
<1>4. RowFits'  BY <1>3 DEF RowFits
<1>5. issued' # issued  BY <1>1, <1>2
<1>6. QED  BY <1>1, <1>2, <1>3, <1>4, <1>5, ChallengeStep DEF W!Issue

\* The first challenge has been issued and nothing was submitted.
LEMMA PageStart ==
  ASSUME W!VerifyPageAssumption, W!Init
  PROVE  PageInv
<1>0. MaxIssues \in Nat \ {0} /\ MaxArms \in Nat /\ MaxPageFaults \in Nat
          /\ PageSlots \in Nat \ {0}
  BY DEF W!VerifyPageAssumption
<1>1. 1 \in W!Issues /\ 0 \in 0..MaxIssues /\ 0 \in 0..MaxArms /\ 0 \in 0..MaxPageFaults
      /\ 0 \in 0..PageSlots
  BY <1>0 DEF W!Issues
<1>2. pageRow \in RowForms /\ pageRow.id = 1 /\ pageRow.status = "pending"
  <2>1. /\ pageRow = [W!NoRow EXCEPT !.id = 1, !.status = "pending"]  BY DEF W!Init
  <2>2. pageRow = [id |-> 1, armed |-> 0, status |-> "pending", lease |-> NoOne]
    BY <2>1 DEF W!NoRow
  <2>3. 1 \in 0..MaxIssues  BY <1>0
  <2>4. QED  BY <1>1, <2>2, <2>3 DEF RowForms, Statuses
<1>3. \A r \in Requests : /\ req[r] \in ReqForms /\ req[r].at = "new" /\ pageTask[r] = "none"
                          /\ future[r] = "none" /\ answer[r] = "none"
  BY <1>1 DEF W!Init, ReqForms, Desks
<1>4. \A b \in Buttons : button[b] \in ButtonForms /\ button[b].at = "new" /\ button[b].id = 0
  BY <1>1 DEF W!Init, ButtonForms, ButtonSteps
<1>5. W!TypeOK
  <2>1. PageForms
    <3>1. req \in [Requests -> ReqForms] /\ button \in [Buttons -> ButtonForms]
      BY <1>3, <1>4 DEF W!Init
    <3>2. QED  BY <1>1, <1>2, <3>1 DEF W!Init, PageForms, TaskSteps
  <2>2. QED  BY <2>1, FormsAreTypes
<1>6. Taking
  <2>1. RowFits  BY <1>2 DEF RowFits, W!Init
  <2>2. OwnersFit  BY <1>3, <1>4 DEF OwnersFit
  <2>3. OneOwner  BY <1>3, <1>4 DEF OneOwner
  <2>4. OwnersVerdicts  BY DEF OwnersVerdicts, W!Init
  <2>5. QED  BY <2>1, <2>2, <2>3, <2>4 DEF Taking
<1>7. Telling
  <2>1. PassesKept  BY <1>3 DEF PassesKept, W!Init, PassedTasks
  <2>2. DesksFit  BY <1>3 DEF DesksFit
  <2>3. W!EntriesLive  BY <1>3 DEF W!EntriesLive, W!Init
  <2>4. W!OkHonest  BY <1>3 DEF W!OkHonest
  <2>5. QED  BY <2>1, <2>2, <2>3, <2>4 DEF Telling
<1>8. W!SlotsReturned
  <2>1. {r \in Requests : req[r].at = "verify"} = {}  BY <1>3
  <2>2. QED  BY <2>1, FS_EmptySet, CountsAlike DEF W!SlotsReturned, W!Init
<1>9. QED  BY <1>5, <1>6, <1>7, <1>8 DEF PageInv

\* Every step keeps the invariant.
LEMMA PageStep ==
  ASSUME W!VerifyPageAssumption, PageInv, [W!Next]_pageVars
  PROVE  PageInv'
<1>1. ASSUME NEW r \in Requests, W!Join(r) \/ W!Open(r) \/ W!Late(r)  PROVE PageInv'
  BY <1>1, JoinKeeps, OpenKeeps, LateKeeps
<1>2. ASSUME NEW r \in Requests, W!Verify(r) \/ W!Claim(r) \/ W!Wait(r) \/ W!Cancel(r)
  PROVE PageInv'
  BY <1>2, VerifyKeeps, PageClaimKeeps, WaitKeeps, RequestCancelKeeps
<1>3. ASSUME NEW r \in Requests,
             W!Restore(r) \/ W!Complete(r) \/ W!Done(r) \/ W!Close(r) \/ W!Postpone(r)
                 \/ W!Recovered(r)
      PROVE  PageInv'
  BY <1>3, RestoreKeeps, CompleteKeeps, PassRecordedKeeps, CloseKeeps, EndKeeps
<1>4. ASSUME NEW b \in Buttons,
             \/ W!Press(b) \/ W!PassCall(b) \/ W!PassEnd(b) \/ W!RejectMark(b)
                 \/ W!RejectBan(b)
             \/ W!RejectEnd(b) \/ W!Policy(b) \/ W!PolicyCall(b)
      PROVE  PageInv'
  BY <1>4, PressKeeps, PassCallKeeps, RejectMarkKeeps, PressEndsKeep
<1>5. CASE W!Prune \/ W!Arm \/ W!Lapse \/ W!Sweep \/ W!Issue
  BY <1>5, PruneKeeps, ArmKeeps, LapseKeeps, PageSweepKeeps, IssueKeeps
<1>6. CASE UNCHANGED pageVars
  <2>1. PageForms'  BY <1>6, Surroundings DEF PageForms, pageVars
  <2>2. W!TypeOK'  BY <2>1, FormsStayTypes
  <2>3. Taking'
    BY <1>6 DEF PageInv, Taking, RowFits, OwnersFit, OneOwner, OwnersVerdicts, pageVars
  <2>4. Telling'
    BY <1>6 DEF PageInv, Telling, PassesKept, DesksFit, W!EntriesLive, W!OkHonest, pageVars
  <2>5. W!SlotsReturned'  BY <1>6, SlotsKeep DEF PageInv, pageVars
  <2>6. QED  BY <2>2, <2>3, <2>4, <2>5 DEF PageInv
<1>7. QED  BY <1>1, <1>2, <1>3, <1>4, <1>5, <1>6 DEF W!Next

\* The page's inductive invariant: a challenge is taken once, by a submission or a press;
\* what was passed was never rejected; "passed" is told of what was passed only; and each
\* open entry of the cache and each slot has its request.
THEOREM PageInvariant ==
  ASSUME W!VerifyPageAssumption
  PROVE  W!Init /\ [][W!Next]_pageVars => []PageInv
<1>1. W!Init => PageInv  BY PageStart
<1>2. PageInv /\ [W!Next]_pageVars => PageInv'  BY PageStep
<1>3. QED  BY <1>1, <1>2, PTL

-----------------------------------------------------------------------------
(* The composition *)

\* A behaviour of the whole is, for each of the four modules, a behaviour of the module.
LEMMA Projection ==
  Spec => /\ G!Init /\ [][G!Next]_banVars
          /\ B!Init /\ [][B!Next]_scopeVars
          /\ P!Init /\ [][P!Next]_patrolVars
          /\ W!Init /\ [][W!Next]_pageVars
<1>1. Init => G!Init /\ B!Init /\ P!Init /\ W!Init
  BY DEF Init
<1>2. [Next]_everything => /\ [G!Next]_banVars /\ [B!Next]_scopeVars
                           /\ [P!Next]_patrolVars /\ [W!Next]_pageVars
  BY DEF Next, everything
<1> QED  BY <1>1, <1>2, PTL DEF Spec

\* Global bans: the groups follow the last recorded policy although operations overtake
\* each other, one operation's failed calls are covered by journals, and the two scopes
\* offered in one message are not worked on together (handlers/admin.py).
THEOREM BansHold == Spec => []BansFollowPolicy
<1>0. G!GlobalBansAssumption /\ B!BanScopeAssumption
  BY EnforcementAssumption
<1>1. G!PolicyWins /\ G!JournalCovers /\ B!ScopesApart /\ B!ClaimBacked => BansFollowPolicy
  BY DEF BansFollowPolicy
<1> QED  BY <1>0, <1>1, Projection, LastPolicyWins, OneOperationCovered, ScopesKeptApart,
         ClaimsBacked, PTL DEF G!Spec, B!Spec, G!vars, B!vars, banVars, scopeVars

\* Patrol: nobody it lets go of is left muted without a row, an exempt member is not
\* challenged, and a day that counts as done was covered (services/patrol.py).
THEOREM PatrolHolds == Spec => []PatrolSound
<1>0. P!PatrolAssumption  BY EnforcementAssumption
<1>1. PatrolInv => PatrolSound
  BY DEF PatrolInv, PatrolSound, P!NobodyLeftMuted, Accounted, Quiet, P!In
<1> QED  BY <1>0, <1>1, Projection, PatrolInvariant, PTL

\* Verification page: "passed" is said only of challenges that were passed, and no entry of
\* the cache and no slot outlives the requests it is for (services/verify_web.py).
THEOREM PageHolds == Spec => []PageSound
<1>0. W!VerifyPageAssumption  BY EnforcementAssumption
<1>1. PageInv => PageSound
  BY DEF PageInv, Telling, PageSound, W!CacheSound
<1> QED  BY <1>0, <1>1, Projection, PageInvariant, PTL
=============================================================================
