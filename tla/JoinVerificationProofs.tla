----------------------- MODULE JoinVerificationProofs -----------------------
(***************************************************************************)
(* Theorems about the verification of a member, for every set of workers   *)
(* with any roles, every bound on failed calls and crashes, with and       *)
(* without overtaking updates.                                             *)
(***************************************************************************)
EXTENDS JoinVerification, TLAPS

(* The invariant, one part per worker.  "p" is the history variable passed. *)

Early == {"preparing", "pending"}

Fits(y) ==
  /\ y.at \in {"sweep.check", "kick.ban"} => y.for = "enforcing"
  /\ y.at \in {"fix.read", "fix.own"} => y.for \in {"fix", "lite"}

Good(r, p, y) ==
  /\ y \in Worker
  /\ y.lease => y.same
  /\ y.same => r # NoRow
  /\ y.for \in Enforcing /\ (r.status \in Early \/ p = TRUE) => ~y.same
  /\ Fits(y)

RowFits(r, p) ==
  /\ r = NoRow \/ r \in Row
  /\ p \in BOOLEAN
  /\ p = TRUE /\ r # NoRow => r.status \in {"releasing", "unbanning"}

Rest ==
  /\ policy \in BOOLEAN
  /\ tg \in {"free", "muted", "banned"}
  /\ present \in BOOLEAN /\ arrived \in BOOLEAN /\ departed \in BOOLEAN
  /\ authorized \in BOOLEAN /\ marker \in BOOLEAN
  /\ faults \in 0..MaxFaults /\ crashes \in 0..MaxCrashes
  /\ lifted \in BOOLEAN

Workforce(f, r, p) == f \in [Workers -> Worker] /\ \A w \in Workers : Good(r, p, f[w])

Inv == Rest /\ RowFits(row, passed) /\ Workforce(worker, row, passed)

LEMMA RowFacts ==
  /\ NoRow.status = "none" /\ NoRow \notin Row
  /\ \A r \in Row : r # NoRow /\ r.status \in Status /\ r.status # "none"
  BY DEF NoRow, Row, Status

LEMMA InvIsInductiveInv == Inv <=> InductiveInv
<1>1. ASSUME Inv PROVE InductiveInv
  <2>1. TypeOK
    BY <1>1 DEF Inv, Rest, RowFits, Workforce, TypeOK
  <2>2. OwnershipIsCurrent
    BY <1>1 DEF Inv, Workforce, Good, OwnershipIsCurrent, Early
  <2>3. PurposeFits
    BY <1>1 DEF Inv, Workforce, Good, Fits, PurposeFits
  <2>4. PassIsFinal
    BY <1>1 DEF Inv, RowFits, Workforce, Good, PassIsFinal
  <2>5. QED  BY <2>1, <2>2, <2>3, <2>4 DEF InductiveInv
<1>2. ASSUME InductiveInv PROVE Inv
  <2>1. Rest /\ worker \in [Workers -> Worker]
    BY <1>2 DEF InductiveInv, TypeOK, Rest
  <2>2. RowFits(row, passed)
    BY <1>2 DEF InductiveInv, TypeOK, PassIsFinal, RowFits
  <2>3. ASSUME NEW w \in Workers PROVE Good(row, passed, worker[w])
    <3>1. worker[w] \in Worker  BY <2>1
    <3>2. /\ worker[w].lease => worker[w].same
          /\ worker[w].same => row # NoRow
          /\ row.status \in Early /\ worker[w].for \in Enforcing => ~worker[w].same
      BY <1>2 DEF InductiveInv, OwnershipIsCurrent, Early
    <3>3. Fits(worker[w])
      BY <1>2 DEF InductiveInv, PurposeFits, Fits
    <3>4. passed = TRUE /\ row # NoRow /\ worker[w].for \in Enforcing => ~worker[w].same
      BY <1>2 DEF InductiveInv, PassIsFinal
    <3>5. QED  BY <3>1, <3>2, <3>3, <3>4 DEF Good
  <2>4. QED  BY <2>1, <2>2, <2>3 DEF Inv, Workforce
<1>3. QED  BY <1>1, <1>2

(* What each way to set a worker's state keeps. *)

Free == Steps \ {"sweep.check", "kick.ban", "fix.read", "fix.own"}

LEMMA IdleGood == \A r, p : Good(r, p, Idle)
  BY DEF Good, Fits, Idle, Worker, Steps, Purposes

LEMMA ChoreGood ==
  \A r, p : \A s \in Steps, f \in Purposes :
    /\ s \in {"sweep.check", "kick.ban"} => f = "enforcing"
    /\ s \in {"fix.read", "fix.own"} => f \in {"fix", "lite"}
    => Good(r, p, Chore(s, f))
<1> SUFFICES ASSUME NEW r, NEW p, NEW s \in Steps, NEW f \in Purposes,
                    s \in {"sweep.check", "kick.ban"} => f = "enforcing",
                    s \in {"fix.read", "fix.own"} => f \in {"fix", "lite"}
             PROVE  Good(r, p, Chore(s, f))
  OBVIOUS
<1>1. Chore(s, f) \in Worker
  BY DEF Chore, Idle, Worker
<1>2. Chore(s, f).at = s /\ Chore(s, f).for = f /\ ~Chore(s, f).same /\ ~Chore(s, f).lease
  BY DEF Chore, Idle
<1>3. QED  BY <1>1, <1>2 DEF Good, Fits

LEMMA TaskGood ==
  \A r, p : \A s \in Free, f \in Purposes :
    /\ r # NoRow
    /\ r.status \in Early \/ p = TRUE => f \notin Enforcing
    => Good(r, p, Task(s, f))
<1> SUFFICES ASSUME NEW r, NEW p, NEW s \in Free, NEW f \in Purposes, r # NoRow,
                    r.status \in Early \/ p = TRUE => f \notin Enforcing
             PROVE  Good(r, p, Task(s, f))
  OBVIOUS
<1>1. Task(s, f) \in Worker
  BY DEF Task, Idle, Worker, Free
<1>2. Task(s, f).at = s /\ Task(s, f).for = f /\ Task(s, f).same = TRUE
  BY DEF Task, Idle
<1>3. Fits(Task(s, f))
  BY <1>2 DEF Fits, Free
<1>4. QED  BY <1>1, <1>2, <1>3 DEF Good

LEMMA ReadGood ==
  \A r, p : \A x \in Worker : Good(r, p, At(x, "fix.read"))
<1> SUFFICES ASSUME NEW r, NEW p, NEW x \in Worker PROVE Good(r, p, At(x, "fix.read"))
  OBVIOUS
<1>1. At(x, "fix.read") = Chore("fix.read", IF x.for = "lite" THEN "lite" ELSE "fix")
  BY DEF At
<1>2. QED  BY <1>1, ChoreGood DEF Steps, Purposes

LEMMA AtGood ==
  \A r, p, x : \A s \in Steps :
    Good(r, p, x) /\ s \notin {"sweep.check", "kick.ban", "fix.own"} => Good(r, p, At(x, s))
<1> SUFFICES ASSUME NEW r, NEW p, NEW x, NEW s \in Steps, Good(r, p, x),
                    s \notin {"sweep.check", "kick.ban", "fix.own"}
             PROVE  Good(r, p, At(x, s))
  OBVIOUS
<1>0. x \in Worker  BY DEF Good
<1>1. CASE s = "idle"
  BY <1>1, IdleGood DEF At
<1>2. CASE s = "fix.read"
  BY <1>0, <1>2, ReadGood
<1>3. CASE s \notin {"idle", "fix.read"}
  <2>1. At(x, s) = [x EXCEPT !.at = s]  BY <1>3 DEF At
  <2>2. QED  BY <1>0, <1>3, <2>1 DEF Good, Fits, Worker
<1>4. QED  BY <1>1, <1>2, <1>3

LEMMA StepGood ==
  \A r, p, x : \A s \in {"sweep.check", "kick.ban", "fix.own"} :
    /\ Good(r, p, x)
    /\ IF s = "fix.own" THEN x.for \in {"fix", "lite"} ELSE x.for = "enforcing"
    => Good(r, p, At(x, s))
<1> SUFFICES ASSUME NEW r, NEW p, NEW x, NEW s \in {"sweep.check", "kick.ban", "fix.own"},
                    Good(r, p, x),
                    IF s = "fix.own" THEN x.for \in {"fix", "lite"} ELSE x.for = "enforcing"
             PROVE  Good(r, p, At(x, s))
  OBVIOUS
<1>0. x \in Worker  BY DEF Good
<1>1. At(x, s) = [x EXCEPT !.at = s]  BY DEF At
<1>2. QED  BY <1>0, <1>1 DEF Good, Fits, Worker, Steps

LEMMA HoldingGood ==
  \A r, p : \A x \in Worker, s \in Steps \ {"kick.ban", "fix.read", "fix.own"} :
    /\ r # NoRow
    /\ r.status \in Early \/ p = TRUE => x.for \notin Enforcing
    /\ s = "sweep.check" => x.for = "enforcing"
    => Good(r, p, Holding(x, s))
<1> SUFFICES ASSUME NEW r, NEW p, NEW x \in Worker,
                    NEW s \in Steps \ {"kick.ban", "fix.read", "fix.own"}, r # NoRow,
                    r.status \in Early \/ p = TRUE => x.for \notin Enforcing,
                    s = "sweep.check" => x.for = "enforcing"
             PROVE  Good(r, p, Holding(x, s))
  OBVIOUS
<1>1. Holding(x, s) \in Worker
  BY DEF Holding, Worker
<1>2. Holding(x, s).at = s /\ Holding(x, s).for = x.for /\ Holding(x, s).same = TRUE
  BY DEF Holding, Worker
<1>3. QED  BY <1>1, <1>2 DEF Good, Fits

LEMMA OutrunGood ==
  \A r, p, q, t, x :
    /\ Good(r, p, x) /\ t # NoRow
    /\ t.status \in Early \/ q = TRUE => r.status \in Early \/ p = TRUE
    => Good(t, q, Outrun(x))
<1> SUFFICES ASSUME NEW r, NEW p, NEW q, NEW t, NEW x, Good(r, p, x), t # NoRow,
                    t.status \in Early \/ q = TRUE => r.status \in Early \/ p = TRUE
             PROVE  Good(t, q, Outrun(x))
  OBVIOUS
<1>0. x \in Worker /\ Fits(x)  BY DEF Good
<1>1. Outrun(x) \in Worker
  BY <1>0 DEF Outrun, Worker
<1>2. /\ Outrun(x).at = x.at /\ Outrun(x).for = x.for
      /\ Outrun(x).same = x.same /\ Outrun(x).lease = FALSE
  BY <1>0 DEF Outrun, Worker
<1>3. QED  BY <1>0, <1>1, <1>2 DEF Good, Fits

LEMMA OrphanedGood ==
  \A r, p, q, t, x : Good(r, p, x) => Good(t, q, Orphaned(x))
  BY DEF Good, Fits, Orphaned, Worker

LEMMA UnownedGood ==
  \A p, q, t, x : Good(NoRow, p, x) => Good(t, q, x)
  BY DEF Good, Fits

LEMMA SameStatusGood ==
  \A r, p, t, x : Good(r, p, x) /\ t # NoRow /\ t.status = r.status => Good(t, p, x)
  BY DEF Good, Fits

LEMMA AsFacts ==
  \A r \in Row : \A s \in Status :
    As(r, s) \in Row /\ As(r, s).status = s /\ As(r, s) # NoRow
<1> SUFFICES ASSUME NEW r \in Row, NEW s \in Status
             PROVE  As(r, s) \in Row /\ As(r, s).status = s /\ As(r, s) # NoRow
  OBVIOUS
<1>1. As(r, s) \in Row  BY DEF As, Row
<1>2. As(r, s).status = s  BY DEF As, Row
<1>3. QED  BY <1>1, <1>2, RowFacts

LEMMA ChallengeFacts ==
  \A k \in {"join", "moderation"} : \A p \in BOOLEAN :
    /\ Challenge(k, p) \in Row /\ Challenge(k, p) # NoRow
    /\ Challenge(k, p).status = "preparing"
<1> SUFFICES ASSUME NEW k \in {"join", "moderation"}, NEW p \in BOOLEAN
             PROVE  /\ Challenge(k, p) \in Row /\ Challenge(k, p) # NoRow
                    /\ Challenge(k, p).status = "preparing"
  OBVIOUS
<1>1. Challenge(k, p) \in Row  BY DEF Challenge, Row, Status
<1>2. Challenge(k, p).status = "preparing"  BY DEF Challenge
<1>3. QED  BY <1>1, <1>2, RowFacts

LEMMA UnbanningFacts ==
  \A r : r = NoRow \/ r \in Row =>
    /\ Unbanning(r) \in Row /\ Unbanning(r) # NoRow
    /\ Unbanning(r).status = "unbanning"
<1> SUFFICES ASSUME NEW r, r = NoRow \/ r \in Row
             PROVE  /\ Unbanning(r) \in Row /\ Unbanning(r) # NoRow
                    /\ Unbanning(r).status = "unbanning"
  OBVIOUS
<1>1. (IF r = NoRow THEN Challenge("moderation", FALSE) ELSE r) \in Row
  BY ChallengeFacts
<1>2. "unbanning" \in Status  BY DEF Status
<1>3. QED  BY <1>1, <1>2, AsFacts DEF Unbanning

-----------------------------------------------------------------------------
(* The writes keep the row's and the workers' parts of the invariant. *)

Crew == RowFits(row, passed) /\ Workforce(worker, row, passed)

LEMMA SetKeeps ==
  ASSUME Crew, NEW w \in Workers, NEW x, Good(row, passed, x), Set(w, x),
         UNCHANGED <<row, passed>>
  PROVE  Crew'
<1>1. x \in Worker  BY DEF Good
<1>2. worker' \in [Workers -> Worker]  BY <1>1 DEF Crew, Workforce, Set
<1>3. ASSUME NEW v \in Workers PROVE Good(row, passed, worker'[v])
  BY DEF Crew, Workforce, Set
<1>4. QED  BY <1>2, <1>3 DEF Crew, Workforce, RowFits

LEMMA GoKeeps ==
  ASSUME Crew, NEW w \in Workers,
         NEW s \in Steps, s \notin {"sweep.check", "kick.ban", "fix.own"}, Go(w, s),
         UNCHANGED <<row, passed>>
  PROVE  Crew'
<1>1. Good(row, passed, worker[w])  BY DEF Crew, Workforce
<1>2. Good(row, passed, At(worker[w], s))  BY <1>1, AtGood
<1>3. Set(w, At(worker[w], s))  BY DEF Go
<1>4. QED  BY <1>2, <1>3, SetKeeps

LEMMA LeaseKeeps ==
  ASSUME Crew, row # NoRow, NEW w \in Workers, NEW s \in Status, NEW x, Lease(w, s, x),
         passed' \in BOOLEAN,
         s \in Early => row.status \in Early,
         passed' = TRUE => /\ s \in {"releasing", "unbanning"}
                           /\ passed = TRUE \/ row.status \in Early,
         Good(As(row, s), passed', x)
  PROVE  Crew' /\ row'.status = s
<1>1. row \in Row  BY DEF Crew, RowFits
<1>2. row' \in Row /\ row' # NoRow /\ row'.status = s /\ row' = As(row, s)
  BY <1>1, AsFacts DEF Lease
<1>3. RowFits(row', passed')  BY <1>2 DEF RowFits
<1>4. ASSUME NEW v \in Workers PROVE Good(row', passed', worker'[v])
  <2>1. CASE v = w  BY <1>2, <2>1 DEF Lease
  <2>2. CASE v # w
    <3>1. Good(row, passed, worker[v])  BY DEF Crew, Workforce
    <3>2. Good(row', passed', Outrun(worker[v]))  BY <1>2, <3>1, OutrunGood
    <3>3. QED  BY <2>2, <3>2 DEF Lease
  <2>3. QED  BY <2>1, <2>2
<1>5. worker' \in [Workers -> Worker]
  <2>1. worker' = [v \in Workers |-> worker'[v]]  BY DEF Lease
  <2>2. QED  BY <1>4, <2>1 DEF Good
<1>6. QED  BY <1>2, <1>3, <1>4, <1>5 DEF Crew, Workforce

LEMMA DeleteKeeps ==
  ASSUME Crew, NEW w \in Workers, NEW x, Delete(w, x), passed' = passed, Good(NoRow, passed, x)
  PROVE  Crew' /\ row'.status = "none"
<1>1. row' = NoRow  BY DEF Delete
<1>2. ASSUME NEW v \in Workers PROVE Good(row', passed', worker'[v])
  <2>1. CASE v = w  BY <1>1, <2>1 DEF Delete
  <2>2. CASE v # w
    <3>1. Good(row, passed, worker[v])  BY DEF Crew, Workforce
    <3>2. Good(row', passed', Orphaned(worker[v]))  BY <3>1, OrphanedGood
    <3>3. QED  BY <2>2, <3>2 DEF Delete
  <2>3. QED  BY <2>1, <2>2
<1>3. worker' \in [Workers -> Worker]
  <2>1. worker' = [v \in Workers |-> worker'[v]]  BY DEF Delete
  <2>2. QED  BY <1>2, <2>1 DEF Good
<1>4. QED  BY <1>1, <1>2, <1>3, RowFacts DEF Crew, Workforce, RowFits

LEMMA InsertKeeps ==
  ASSUME Crew, NEW w \in Workers, NEW k \in {"join", "moderation"}, NEW p \in BOOLEAN, NEW x,
         Insert(w, k, p, x), Good(Challenge(k, p), FALSE, x)
  PROVE  Crew' /\ row.status = "none" /\ row'.status = "preparing" /\ passed' = FALSE
<1>1. row = NoRow /\ row' = Challenge(k, p) /\ passed' = FALSE  BY DEF Insert
<1>2. row' \in Row /\ row' # NoRow /\ row'.status = "preparing"  BY <1>1, ChallengeFacts
<1>3. x \in Worker  BY DEF Good
<1>4. worker' \in [Workers -> Worker]  BY <1>3 DEF Crew, Workforce, Set, Insert
<1>5. ASSUME NEW v \in Workers PROVE Good(row', passed', worker'[v])
  <2>1. CASE v = w  BY <1>1, <2>1 DEF Insert, Set, Crew, Workforce
  <2>2. CASE v # w
    <3>1. Good(NoRow, passed, worker[v])  BY <1>1 DEF Crew, Workforce
    <3>2. Good(row', passed', worker[v])  BY <3>1, UnownedGood
    <3>3. QED  BY <2>2, <3>2 DEF Insert, Set, Crew, Workforce
  <2>3. QED  BY <2>1, <2>2
<1>6. QED  BY <1>1, <1>2, <1>4, <1>5, RowFacts DEF Crew, Workforce, RowFits

LEMMA TakeOverKeeps ==
  ASSUME Crew, NEW w \in Workers, NEW x, TakeOver(w, x), \A r, p : r # NoRow => Good(r, p, x)
  PROVE  /\ Crew' /\ row'.status = "unbanning"
         /\ passed' = (passed /\ row.status # "none")
<1>1. row = NoRow \/ row \in Row  BY DEF Crew, RowFits
<1>2. row' \in Row /\ row' # NoRow /\ row'.status = "unbanning"
  BY <1>1, UnbanningFacts DEF TakeOver
<1>3. passed' = (passed /\ row.status # "none") /\ passed' \in BOOLEAN
  BY <1>1, RowFacts DEF TakeOver, Crew, RowFits
<1>4. ASSUME NEW v \in Workers PROVE Good(row', passed', worker'[v])
  <2>1. CASE v = w  BY <1>2, <2>1 DEF TakeOver
  <2>2. CASE v # w
    <3>1. Good(row, passed, worker[v])  BY DEF Crew, Workforce
    <3>2. Good(row', passed', Outrun(worker[v]))
      BY <1>2, <1>3, <3>1, OutrunGood DEF Early, Crew, RowFits
    <3>3. QED  BY <2>2, <3>2 DEF TakeOver
  <2>3. QED  BY <2>1, <2>2
<1>5. worker' \in [Workers -> Worker]
  <2>1. worker' = [v \in Workers |-> worker'[v]]  BY DEF TakeOver
  <2>2. QED  BY <1>4, <2>1 DEF Good
<1>6. QED  BY <1>2, <1>3, <1>4, <1>5 DEF Crew, Workforce, RowFits

LEMMA OwnerFacts ==
  ASSUME Crew, NEW w \in Workers, NEW s \in Status, Owns(w, s)
  PROVE  /\ row \in Row /\ row # NoRow /\ row.status = s
         /\ worker[w] \in Worker /\ Good(row, passed, worker[w]) /\ worker[w].same
         /\ row.status \in Early \/ passed = TRUE => worker[w].for \notin Enforcing
         /\ passed = TRUE => s \in {"releasing", "unbanning"}
<1>1. Good(row, passed, worker[w])  BY DEF Crew, Workforce
<1>2. row.status = s /\ worker[w].lease  BY DEF Owns
<1>3. row # NoRow  BY <1>2, RowFacts DEF Status
<1>4. QED  BY <1>1, <1>2, <1>3 DEF Good, Crew, RowFits

-----------------------------------------------------------------------------
(* What every step has to show, and the steps that share a shape. *)

Moves == [Contract!Next]_(Contract!vars)
Sound == Rest' /\ Crew' /\ Moves

LEMMA RestKeeps ==
  Rest /\ UNCHANGED dbOnly /\ policy' \in BOOLEAN /\ lifted' \in BOOLEAN => Rest'
  BY DEF Rest, dbOnly

LEMMA StillMoves ==
  row'.status = row.status /\ UNCHANGED <<passed, policy>> => Moves
  BY DEF Moves, Contract!vars

\* A worker reads, or decides by itself, where to go next.
LEMMA SetSound ==
  ASSUME Rest, Crew, NEW w \in Workers, NEW x, Good(row, passed, x), Set(w, x),
         UNCHANGED <<row, policy, passed, lifted>>, UNCHANGED dbOnly
  PROVE  Sound
<1>1. Crew'  BY SetKeeps
<1>2. Rest'  BY RestKeeps DEF Rest
<1>3. Moves  BY StillMoves
<1>4. QED  BY <1>1, <1>2, <1>3 DEF Sound

LEMMA GoSound ==
  ASSUME Rest, Crew, NEW w \in Workers,
         NEW s \in Steps, s \notin {"sweep.check", "kick.ban", "fix.own"}, Go(w, s),
         UNCHANGED <<row, policy, passed, lifted>>, UNCHANGED dbOnly
  PROVE  Sound
<1>1. Crew'  BY GoKeeps
<1>2. Rest'  BY RestKeeps DEF Rest
<1>3. Moves  BY StillMoves
<1>4. QED  BY <1>1, <1>2, <1>3 DEF Sound

\* A worker calls Telegram.
Plain == Steps \ {"sweep.check", "kick.ban", "fix.own"}

LEMMA PlainSteps ==
  {"idle", "muted", "drop", "abort", "activate", "abort.done", "fix.read", "fix.drop",
   "again.check", "again.commit", "again.cleanup", "dup.after", "back.read",
   "rec.banned", "rec.lifted", "rec.muted", "rec.restored", "rec.failed",
   "complete", "defer", "punish.record", "kick.policy", "kick.lifted", "kick.done",
   "ban.record", "unban.policy"} \subseteq Plain
  BY DEF Plain, Steps

LEMMA CallSound ==
  ASSUME Rest, Crew, NEW w \in Workers, NEW to \in {"free", "muted", "banned"},
         NEW good \in Plain, NEW bad \in Plain,
         Call(w, to, good, bad)
  PROVE  Sound
<1>1. UNCHANGED callOnly  BY DEF Call
<1>2. PICK s \in {good, bad} : Go(w, s)  BY DEF Call
<1>3. Crew'  BY <1>1, <1>2, GoKeeps DEF callOnly, Plain
<1>4. Rest'
  <2>1. faults' \in 0..MaxFaults  BY ConstantsAssumption DEF Call, Rest
  <2>2. tg' \in {"free", "muted", "banned"}  BY DEF Call, Rest
  <2>3. present' \in BOOLEAN /\ departed' \in BOOLEAN  BY DEF Call, Rest
  <2>4. QED  BY <1>1, <2>1, <2>2, <2>3 DEF Rest, callOnly
<1>5. Moves  BY <1>1, StillMoves DEF callOnly
<1>6. QED  BY <1>3, <1>4, <1>5 DEF Sound

LEMMA RefusedSound ==
  ASSUME Rest, Crew, NEW w \in Workers,
         NEW bad \in Plain,
         Refused(w, bad)
  PROVE  Sound
<1>1. Go(w, bad) /\ UNCHANGED <<tg, present, departed, faults>> /\ UNCHANGED callOnly
  BY DEF Refused
<1>2. Crew'  BY <1>1, GoKeeps DEF callOnly, Plain
<1>3. Rest'  BY <1>1 DEF Rest, callOnly
<1>4. Moves  BY <1>1, StillMoves DEF callOnly
<1>5. QED  BY <1>2, <1>3, <1>4 DEF Sound

LEMMA HelperSound ==
  ASSUME Rest, Crew, NEW w \in Workers,
         NEW good \in Plain, NEW bad \in Plain,
         Mute(w, good, bad) \/ Restore(w, good, bad) \/ Ban(w, good, bad) \/ Lift(w, good, bad)
  PROVE  Sound
<1>1. CASE Refused(w, bad)  BY <1>1, RefusedSound
<1>2. CASE \E to \in {"free", "muted", "banned"} : Call(w, to, good, bad)
  BY <1>2, CallSound
<1>3. tg \in {"free", "muted", "banned"}  BY DEF Rest
<1>4. Lift(w, good, bad) => \E to \in {"free", "muted", "banned"} : Call(w, to, good, bad)
  BY <1>3 DEF Lift
<1>5. QED  BY <1>1, <1>2, <1>4 DEF Mute, Restore, Ban

\* A worker renews the lease it owns, or puts it off.
LEMMA RenewSound ==
  ASSUME Rest, Crew, NEW w \in Workers, NEW s \in Status, Owns(w, s), NEW x, Lease(w, s, x),
         \/ x = Idle
         \/ \E y \in Steps \ {"kick.ban", "fix.read", "fix.own"} :
              x = Holding(worker[w], y) /\ (y = "sweep.check" => worker[w].for = "enforcing"),
         UNCHANGED <<policy, passed, lifted>>, UNCHANGED dbOnly
  PROVE  Sound
<1>1. row # NoRow /\ row \in Row /\ row.status = s  BY OwnerFacts
<1>2. row.status \in Early \/ passed = TRUE => worker[w].for \notin Enforcing
  BY OwnerFacts
<1>3. Good(As(row, s), passed', x)
  <2>1. As(row, s) # NoRow /\ As(row, s).status = row.status  BY <1>1, AsFacts
  <2>2. worker[w] \in Worker  BY OwnerFacts
  <2>3. CASE x = Idle  BY <2>3, IdleGood
  <2>4. ASSUME NEW y \in Steps \ {"kick.ban", "fix.read", "fix.own"},
               x = Holding(worker[w], y), y = "sweep.check" => worker[w].for = "enforcing"
        PROVE  Good(As(row, s), passed', x)
    BY <1>2, <2>1, <2>2, <2>4, HoldingGood
  <2>5. QED  BY <2>3, <2>4
<1>4. passed = TRUE => s \in {"releasing", "unbanning"}  BY OwnerFacts
<1>5. Crew' /\ row'.status = s
  BY <1>1, <1>3, <1>4, LeaseKeeps DEF Crew, RowFits
<1>6. Rest'  BY RestKeeps DEF Rest
<1>7. Moves  BY <1>1, <1>5, StillMoves
<1>8. QED  BY <1>5, <1>6, <1>7 DEF Sound

\* The owner of a row ends it.
LEMMA EndSound ==
  ASSUME Rest, Crew, NEW w \in Workers, NEW s \in Status, Owns(w, s), NEW x, Delete(w, x),
         Good(NoRow, passed, x), UNCHANGED <<policy, passed, lifted>>, UNCHANGED dbOnly
  PROVE  Sound
<1>1. row.status = s /\ (passed = TRUE => s \in {"releasing", "unbanning"})  BY OwnerFacts
<1>2. Crew' /\ row'.status = "none"  BY DeleteKeeps
<1>3. Rest'  BY RestKeeps DEF Rest
<1>4. passed \in BOOLEAN /\ policy \in BOOLEAN  BY DEF Crew, RowFits, Rest
<1>5. Moves
  <2>1. CASE s \in {"preparing", "pending"}
    BY <1>1, <1>2, <2>1 DEF Moves, Contract!Next, Contract!Withdraw
  <2>2. CASE s = "releasing"
    BY <1>1, <1>2, <2>2 DEF Moves, Contract!Next, Contract!Release
  <2>3. CASE s = "enforcing"
    BY <1>1, <1>2, <1>4, <2>3 DEF Moves, Contract!Next, Contract!Enforce
  <2>4. CASE s = "unbanning"
    BY <1>1, <1>2, <1>4, <2>4 DEF Moves, Contract!Next, Contract!Settle
  <2>5. QED  BY <2>1, <2>2, <2>3, <2>4 DEF Status
<1>6. QED  BY <1>2, <1>3, <1>5 DEF Sound

\* A ban is recorded with the end of its row.
LEMMA BannedSound ==
  ASSUME Rest, Crew, NEW w \in Workers, NEW s \in {"enforcing", "unbanning"}, Owns(w, s),
         Delete(w, Idle), policy' = TRUE, UNCHANGED <<passed, lifted>>, UNCHANGED dbOnly
  PROVE  Sound
<1>0. s \in Status  BY DEF Status
<1>1. row.status = s /\ (passed = TRUE => s \in {"releasing", "unbanning"})
  BY <1>0, OwnerFacts
<1>2. Good(NoRow, passed, Idle)  BY IdleGood
<1>3. Crew' /\ row'.status = "none"  BY <1>2, DeleteKeeps
<1>4. Rest'  BY RestKeeps DEF Rest
<1>5. passed \in BOOLEAN  BY DEF Crew, RowFits
<1>6. Moves
  <2>1. CASE s = "enforcing"
    BY <1>1, <1>3, <1>5, <2>1 DEF Moves, Contract!Next, Contract!Enforce
  <2>2. CASE s = "unbanning"
    BY <1>1, <1>3, <1>5, <2>2 DEF Moves, Contract!Next, Contract!Settle
  <2>3. QED  BY <2>1, <2>2
<1>7. QED  BY <1>3, <1>4, <1>6 DEF Sound

\* A worker makes itself the owner of a new row.
LEMMA InsertSound ==
  ASSUME Rest, Crew, NEW w \in Workers, NEW k \in {"join", "moderation"}, NEW p \in BOOLEAN,
         NEW x, Insert(w, k, p, x), Good(Challenge(k, p), FALSE, x),
         policy' = policy, Rest'
  PROVE  Sound
<1>1. Crew' /\ row.status = "none" /\ row'.status = "preparing" /\ passed' = FALSE
  BY InsertKeeps
<1>2. Moves  BY <1>1 DEF Moves, Contract!Next, Contract!Propose
<1>3. QED  BY <1>1, <1>2 DEF Sound

-----------------------------------------------------------------------------
(* Every action is sound. *)

LEMMA CrewFacts ==
  ASSUME Crew, NEW w \in Workers
  PROVE  /\ Good(row, passed, worker[w]) /\ worker[w] \in Worker
         /\ worker[w].at \in Steps /\ worker[w].for \in Purposes /\ worker[w].tries \in Nat
         /\ row = NoRow \/ row \in Row
         /\ passed = TRUE /\ row # NoRow => row.status \in {"releasing", "unbanning"}
  BY DEF Crew, Workforce, RowFits, Good, Worker

LEMMA TakeJoinSound ==
  ASSUME Rest, Crew, NEW w \in Workers, TakeJoin(w) PROVE Sound
<1>1. CASE StartJoin(w)
  <2>1. Insert(w, "join", FALSE, Task("confirm", "fix")) /\ policy' = policy
    BY <1>1 DEF StartJoin
  <2>2. Good(Challenge("join", FALSE), FALSE, Task("confirm", "fix"))
    BY ChallengeFacts, TaskGood DEF Free, Steps, Purposes, Enforcing
  <2>3. Rest'  BY <1>1 DEF StartJoin, Taken, Rest
  <2>4. QED  BY <2>1, <2>2, <2>3, InsertSound
<1>2. CASE StartRefresh(w)
  <2>1. Good(row, passed, Task("again.mute", "fix"))
    BY <1>2, RowFacts, TaskGood DEF StartRefresh, Free, Steps, Purposes, Enforcing
  <2>2. Crew'  BY <1>2, <2>1, SetKeeps DEF StartRefresh
  <2>3. Rest'  BY <1>2 DEF StartRefresh, Taken, Rest
  <2>4. Moves  BY <1>2, StillMoves DEF StartRefresh
  <2>5. QED  BY <2>2, <2>3, <2>4 DEF Sound
<1>3. CASE StartRejoin(w)
  <2>0. Rest'  BY <1>3 DEF StartRejoin, Taken, Rest
  <2>1. CASE row.status = "pending" /\ Set(w, Task("back.mute", "lite")) /\ UNCHANGED row
    <3>1. Good(row, passed, Task("back.mute", "lite"))
      BY <2>1, RowFacts, TaskGood DEF Free, Steps, Purposes, Enforcing
    <3>2. Crew'  BY <1>3, <2>1, <3>1, SetKeeps DEF StartRejoin
    <3>3. Moves  BY <1>3, <2>1, StillMoves DEF StartRejoin
    <3>4. QED  BY <2>0, <3>2, <3>3 DEF Sound
  <2>2. CASE /\ row.status \in {"pending", "enforcing"}
             /\ Lease(w, "enforcing", Task("back.mark", "timeout"))
    <3>1. row # NoRow /\ row \in Row  BY <2>2, CrewFacts, RowFacts
    <3>2. passed = FALSE  BY <2>2, <3>1, CrewFacts DEF Crew, RowFits
    <3>3. UNCHANGED <<passed, policy>>  BY <1>3 DEF StartRejoin
    <3>4. "enforcing" \in Status /\ "enforcing" \notin Early  BY DEF Status, Early
    <3>5. Good(As(row, "enforcing"), passed', Task("back.mark", "timeout"))
      BY <3>1, <3>2, <3>3, <3>4, AsFacts, TaskGood DEF Free, Steps, Purposes
    <3>6. Crew' /\ row'.status = "enforcing"
      BY <2>2, <3>1, <3>2, <3>3, <3>4, <3>5, LeaseKeeps
    <3>7. Moves
      BY <2>2, <3>2, <3>3, <3>6
      DEF Moves, Contract!Next, Contract!Expire, Contract!vars
    <3>8. QED  BY <2>0, <3>6, <3>7 DEF Sound
  <2>3. QED  BY <1>3, <2>1, <2>2 DEF StartRejoin
<1>4. CASE StartBlocked(w)
  <2>1. Good(row, passed, Chore("rec.check", "blocked"))
    BY ChoreGood DEF Steps, Purposes
  <2>2. Crew'  BY <1>4, <2>1, SetKeeps DEF StartBlocked
  <2>3. Rest'  BY <1>4 DEF StartBlocked, Taken, Rest
  <2>4. Moves  BY <1>4, StillMoves DEF StartBlocked
  <2>5. QED  BY <2>2, <2>3, <2>4 DEF Sound
<1>5. CASE DiscardJoin(w)
  <2>1. Crew'  BY <1>5 DEF DiscardJoin, Crew, RowFits, Workforce
  <2>2. Rest'  BY <1>5 DEF DiscardJoin, Taken, Rest
  <2>3. Moves  BY <1>5, StillMoves DEF DiscardJoin
  <2>4. QED  BY <2>1, <2>2, <2>3 DEF Sound
<1>6. QED  BY <1>1, <1>2, <1>3, <1>4, <1>5 DEF TakeJoin

LEMMA IssueSound ==
  ASSUME Rest, Crew, NEW w \in Workers, Issue(w) PROVE Sound
<1>0. "preparing" \in Status /\ "pending" \in Status  BY DEF Status
<1>1. CASE Confirm(w)
  <2>1. UNCHANGED <<policy, passed, lifted>> /\ UNCHANGED dbOnly  BY <1>1 DEF Confirm
  <2>2. CASE /\ Owns(w, "preparing")
             /\ Lease(w, "preparing", Holding(worker[w], "mute"))
    <3>1. "mute" \in Steps \ {"kick.ban", "fix.read", "fix.own"}  BY DEF Steps
    <3>2. QED  BY <1>0, <2>1, <2>2, <3>1, RenewSound
  <2>3. CASE \E s \in {"mute", "idle", "drop"} : Go(w, s) /\ UNCHANGED row
    BY <2>1, <2>3, GoSound DEF Steps
  <2>4. QED  BY <1>1, <2>2, <2>3 DEF Confirm
<1>2. CASE MuteMember(w)
  <2>1. PICK s \in {"drop", "abort"} : Mute(w, "muted", s)  BY <1>2 DEF MuteMember
  <2>2. QED  BY <2>1, HelperSound, PlainSteps
<1>3. CASE Drop(w)
  <2>1. UNCHANGED <<policy, passed, lifted>> /\ UNCHANGED dbOnly  BY <1>3 DEF Drop
  <2>2. CASE Owns(w, "preparing") /\ Delete(w, Idle)
    BY <1>0, <2>1, <2>2, IdleGood, EndSound
  <2>3. CASE Go(w, "idle") /\ UNCHANGED row
    BY <2>1, <2>3, GoSound DEF Steps
  <2>4. QED  BY <1>3, <2>2, <2>3 DEF Drop
<1>4. CASE Keep(w)
  <2>1. UNCHANGED <<policy, passed, lifted>> /\ UNCHANGED dbOnly  BY <1>4 DEF Keep
  <2>2. CASE \E s \in {"abort", "fix.read", "prompt"} : Go(w, s) /\ UNCHANGED row
    BY <2>1, <2>2, GoSound DEF Steps
  <2>3. CASE /\ Owns(w, "preparing")
             /\ Lease(w, "preparing", Holding(worker[w], IF present THEN "prompt" ELSE "abort"))
    <3> DEFINE y == IF present THEN "prompt" ELSE "abort"
    <3>1. y \in Steps \ {"kick.ban", "fix.read", "fix.own"} /\ y # "sweep.check"
      BY DEF Steps
    <3>2. Lease(w, "preparing", Holding(worker[w], y))  BY <2>3
    <3> HIDE DEF y
    <3>3. QED  BY <1>0, <2>1, <2>3, <3>1, <3>2, RenewSound
  <2>4. QED  BY <1>4, <2>2, <2>3 DEF Keep
<1>5. CASE SendPrompt(w)
  <2>1. tg \in {"free", "muted", "banned"}  BY DEF Rest
  <2>2. Call(w, tg, "activate", "abort")  BY <1>5 DEF SendPrompt
  <2>3. "activate" \in Plain /\ "abort" \in Plain  BY PlainSteps
  <2>4. QED  BY <2>1, <2>2, <2>3, CallSound
<1>6. CASE Activate(w)
  <2>1. UNCHANGED <<policy, passed, lifted>> /\ UNCHANGED dbOnly  BY <1>6 DEF Activate
  <2>2. CASE Owns(w, "preparing") /\ Lease(w, "pending", Idle)
    <3>1. row \in Row /\ row # NoRow /\ row.status = "preparing" /\ passed # TRUE
      BY <1>0, <2>2, OwnerFacts
    <3>2. Crew' /\ row'.status = "pending"
      BY <1>0, <2>1, <2>2, <3>1, IdleGood, LeaseKeeps DEF Early, Crew, RowFits
    <3>3. Moves  BY <2>1, <3>1, <3>2 DEF Moves, Contract!Next, Contract!Present
    <3>4. QED  BY <2>1, <3>2, <3>3, RestKeeps DEF Sound, Rest
  <2>3. CASE Go(w, "abort") /\ UNCHANGED row
    BY <2>1, <2>3, GoSound DEF Steps
  <2>4. QED  BY <1>6, <2>2, <2>3 DEF Activate
<1>7. QED  BY <1>1, <1>2, <1>3, <1>4, <1>5, <1>6 DEF Issue

LEMMA CompensateSound ==
  ASSUME Rest, Crew, NEW w \in Workers, Compensate(w) PROVE Sound
<1>0. "preparing" \in Status /\ "releasing" \in Status  BY DEF Status
<1>a. Fallback(worker[w]) \in {"idle", "fix.read"}  BY DEF Fallback
<1>b. worker[w] \in Worker /\ Good(row, passed, worker[w])  BY CrewFacts
<1>1. CASE Abort(w)
  <2>1. UNCHANGED <<policy, passed, lifted>> /\ UNCHANGED dbOnly  BY <1>1 DEF Abort
  <2>2. CASE Owns(w, "preparing") /\ Lease(w, "releasing", Holding(worker[w], "abort.restore"))
    <3>1. /\ row \in Row /\ row # NoRow /\ row.status = "preparing" /\ passed # TRUE
          /\ worker[w].for \notin Enforcing
      BY <1>0, <2>2, OwnerFacts DEF Early
    <3>2. Good(As(row, "releasing"), passed', Holding(worker[w], "abort.restore"))
      BY <1>0, <1>b, <3>1, AsFacts, HoldingGood DEF Steps
    <3>3. Crew' /\ row'.status = "releasing"
      BY <1>0, <2>1, <2>2, <3>1, <3>2, LeaseKeeps DEF Early, Crew, RowFits
    <3>4. Moves  BY <2>1, <3>1, <3>3 DEF Moves, Contract!Next, Contract!Withdraw
    <3>5. QED  BY <2>1, <3>3, <3>4, RestKeeps DEF Sound, Rest
  <2>3. CASE Go(w, Fallback(worker[w])) /\ UNCHANGED row
    BY <1>a, <2>1, <2>3, GoSound DEF Steps
  <2>4. QED  BY <1>1, <2>2, <2>3 DEF Abort
<1>2. CASE AbortRestore(w)
  <2>1. PICK s \in {"idle", "fix.read"} : Restore(w, "abort.done", s)
    BY <1>a, <1>2 DEF AbortRestore
  <2>2. QED  BY <2>1, HelperSound, PlainSteps
<1>3. CASE AbortDone(w)
  <2>1. UNCHANGED <<policy, passed, lifted>> /\ UNCHANGED dbOnly  BY <1>3 DEF AbortDone
  <2>2. CASE Owns(w, "releasing") /\ Delete(w, Idle)
    BY <1>0, <2>1, <2>2, IdleGood, EndSound
  <2>3. CASE Go(w, Fallback(worker[w])) /\ UNCHANGED row
    BY <1>a, <2>1, <2>3, GoSound DEF Steps
  <2>4. QED  BY <1>3, <2>2, <2>3 DEF AbortDone
<1>4. CASE FixRead(w)
  <2>1. UNCHANGED <<row, policy, passed, lifted>> /\ UNCHANGED dbOnly  BY <1>4 DEF FixRead
  <2>2. worker[w].at = "fix.read"  BY <1>4 DEF FixRead, Is
  <2>3. CASE \E s \in {"fix.ban", "idle", "fix.restore"} : Go(w, s)
    BY <2>1, <2>3, GoSound DEF Steps
  <2>4. CASE Go(w, "fix.own")
    <3>1. worker[w].for \in {"fix", "lite"}  BY <1>b, <2>2 DEF Good, Fits
    <3>2. Good(row, passed, At(worker[w], "fix.own"))  BY <1>b, <3>1, StepGood
    <3>3. Set(w, At(worker[w], "fix.own"))  BY <2>4 DEF Go
    <3>4. QED  BY <2>1, <3>2, <3>3, SetSound
  <2>5. row = NoRow \/ (row \in Row /\ row.status \in Status)
    BY RowFacts DEF Crew, RowFits
  <2>6. policy \/ (~policy /\ (Restricts \/ row = NoRow \/ row.status \in {"releasing", "unbanning"}))
    BY <2>5 DEF Restricts, Status
  <2>7. QED  BY <1>4, <2>3, <2>4, <2>6 DEF FixRead
<1>5. CASE FixOwn(w)
  <2>1. UNCHANGED <<policy, lifted>> /\ UNCHANGED dbOnly  BY <1>5 DEF FixOwn
  <2>2. worker[w].at = "fix.own" /\ worker[w].for \in {"fix", "lite"}
    BY <1>5, <1>b DEF FixOwn, Is, Good, Fits
  <2>3. CASE Insert(w, "moderation", FALSE, Holding(worker[w], "fix.restore"))
    <3>1. Good(Challenge("moderation", FALSE), FALSE, Holding(worker[w], "fix.restore"))
      BY <1>b, <2>2, ChallengeFacts, HoldingGood DEF Steps, Enforcing
    <3>2. Rest'  BY <2>1, RestKeeps DEF Rest
    <3>3. QED  BY <2>1, <2>3, <3>1, <3>2, InsertSound
  <2>4. CASE /\ Set(w, [worker[w] EXCEPT !.at = "fix.read", !.tries = worker[w].tries + 1])
             /\ UNCHANGED <<row, passed>>
    <3> DEFINE x == [worker[w] EXCEPT !.at = "fix.read", !.tries = worker[w].tries + 1]
    <3>0. worker[w].tries + 1 \in Nat /\ "fix.read" \in Steps  BY <1>b DEF Worker, Steps
    <3>1. x \in Worker  BY <1>b, <3>0 DEF Worker
    <3>2. /\ x.at = "fix.read" /\ x.for = worker[w].for
          /\ x.same = worker[w].same /\ x.lease = worker[w].lease
      BY <1>b DEF Worker
    <3>3. Good(row, passed, x)  BY <1>b, <2>2, <3>1, <3>2 DEF Good, Fits
    <3>4. Set(w, x)  BY <2>4
    <3> HIDE DEF x
    <3>5. QED  BY <2>1, <2>4, <3>3, <3>4, SetSound
  <2>5. QED  BY <1>5, <2>3, <2>4 DEF FixOwn
<1>6. CASE FixRestore(w)
  <2>1. PICK s \in {"idle", "fix.drop"} : Restore(w, s, "idle")  BY <1>6 DEF FixRestore
  <2>2. QED  BY <2>1, HelperSound, PlainSteps
<1>7. CASE FixDrop(w)
  <2>1. UNCHANGED <<policy, passed, lifted>> /\ UNCHANGED dbOnly  BY <1>7 DEF FixDrop
  <2>2. CASE Owns(w, "preparing") /\ Delete(w, Chore("fix.again", "fix"))
    <3>1. Good(NoRow, passed, Chore("fix.again", "fix"))  BY ChoreGood DEF Steps, Purposes
    <3>2. QED  BY <1>0, <2>1, <2>2, <3>1, EndSound
  <2>3. CASE Go(w, "fix.again") /\ UNCHANGED row
    BY <2>1, <2>3, GoSound DEF Steps
  <2>4. QED  BY <1>7, <2>2, <2>3 DEF FixDrop
<1>8. CASE FixAgain(w)
  <2>1. PICK s \in {"fix.ban", "fix.mute", "idle"} : Go(w, s)  BY <1>8 DEF FixAgain
  <2>2. QED  BY <1>8, <2>1, GoSound DEF FixAgain, Steps
<1>9. CASE FixBan(w) \/ FixMute(w)
  <2>1. Ban(w, "idle", "idle") \/ Mute(w, "idle", "idle")  BY <1>9 DEF FixBan, FixMute
  <2>2. QED  BY <2>1, HelperSound, PlainSteps
<1>10. QED
  BY <1>1, <1>2, <1>3, <1>4, <1>5, <1>6, <1>7, <1>8, <1>9 DEF Compensate

LEMMA RepeatSound ==
  ASSUME Rest, Crew, NEW w \in Workers, Repeat(w) PROVE Sound
<1>0. {"preparing", "pending", "enforcing"} \subseteq Status  BY DEF Status
<1>a. tg \in {"free", "muted", "banned"}  BY DEF Rest
<1>1. CASE RefreshMute(w)
  <2>1. Mute(w, "again.check", "idle") \/ Refused(w, "idle")  BY <1>1 DEF RefreshMute
  <2>2. QED  BY <2>1, HelperSound, RefusedSound, PlainSteps
<1>2. CASE RefreshCheck(w)
  <2>1. PICK s \in {"again.prompt", "fix.read"} : Go(w, s)  BY <1>2 DEF RefreshCheck
  <2>2. QED  BY <1>2, <2>1, GoSound DEF RefreshCheck, Steps
<1>3. CASE RefreshPrompt(w)
  <2>1. Call(w, tg, "again.commit", "again.cleanup")  BY <1>3 DEF RefreshPrompt
  <2>2. "again.commit" \in Plain /\ "again.cleanup" \in Plain  BY PlainSteps
  <2>3. QED  BY <1>a, <2>1, <2>2, CallSound
<1>4. CASE RefreshCommit(w)
  <2>1. UNCHANGED <<policy, passed, lifted>> /\ UNCHANGED dbOnly  BY <1>4 DEF RefreshCommit
  <2>2. CASE Owns(w, "pending") /\ Lease(w, "pending", Idle)
    BY <1>0, <2>1, <2>2, RenewSound
  <2>3. CASE Go(w, "again.cleanup") /\ UNCHANGED row
    BY <2>1, <2>3, GoSound DEF Steps
  <2>4. QED  BY <1>4, <2>2, <2>3 DEF RefreshCommit
<1>5. CASE RefreshCleanup(w)
  <2>1. UNCHANGED <<policy, lifted>> /\ UNCHANGED dbOnly  BY <1>5 DEF RefreshCleanup
  <2>2. CASE Insert(w, "join", FALSE, Task("abort", "stop"))
    <3>1. Good(Challenge("join", FALSE), FALSE, Task("abort", "stop"))
      BY ChallengeFacts, TaskGood DEF Free, Steps, Purposes, Enforcing
    <3>2. Rest'  BY <2>1, RestKeeps DEF Rest
    <3>3. QED  BY <2>1, <2>2, <3>1, <3>2, InsertSound
  <2>3. CASE Go(w, "fix.read") /\ UNCHANGED <<row, passed>>
    BY <2>1, <2>3, GoSound DEF Steps
  <2>4. QED  BY <1>5, <2>2, <2>3 DEF RefreshCleanup
<1>6. CASE DupMute(w) \/ BackMute(w)
  <2>1. PICK s \in {"dup.after", "back.read"} : Mute(w, s, "idle")
    BY <1>6 DEF DupMute, BackMute
  <2>2. QED  BY <2>1, HelperSound, PlainSteps
<1>7. CASE DupAfter(w)
  <2>1. PICK s \in {"idle", "fix.read"} : Go(w, s)  BY <1>7 DEF DupAfter
  <2>2. QED  BY <1>7, <2>1, GoSound DEF DupAfter, Steps
<1>8. CASE BackRead(w)
  <2>1. UNCHANGED <<policy, lifted>> /\ UNCHANGED dbOnly  BY <1>8 DEF BackRead
  <2>2. CASE Insert(w, "moderation", TRUE, Task("abort", "stop"))
    <3>1. Good(Challenge("moderation", TRUE), FALSE, Task("abort", "stop"))
      BY ChallengeFacts, TaskGood DEF Free, Steps, Purposes, Enforcing
    <3>2. Rest'  BY <2>1, RestKeeps DEF Rest
    <3>3. QED  BY <2>1, <2>2, <3>1, <3>2, InsertSound
  <2>3. CASE \E s \in {"idle", "fix.read"} : Go(w, s) /\ UNCHANGED <<row, passed>>
    BY <2>1, <2>3, GoSound DEF Steps
  <2>4. QED  BY <1>8, <2>2, <2>3 DEF BackRead
<1>9. CASE BackMark(w)
  <2>1. /\ policy' = TRUE /\ Go(w, "rec.check") /\ UNCHANGED <<row, passed, lifted>>
        /\ UNCHANGED dbOnly
    BY <1>9 DEF BackMark
  <2>2. Crew'  BY <2>1, GoKeeps DEF Steps
  <2>3. Rest'  BY <2>1, RestKeeps DEF Rest
  <2>4. Moves  BY <2>1 DEF Moves, Contract!Next, Contract!Condemn
  <2>5. QED  BY <2>2, <2>3, <2>4 DEF Sound
<1>10. CASE BackDone(w)
  <2>1. UNCHANGED <<policy, passed, lifted>> /\ UNCHANGED dbOnly  BY <1>10 DEF BackDone
  <2>2. CASE Owns(w, "enforcing") /\ Delete(w, Idle)
    BY <1>0, <2>1, <2>2, IdleGood, EndSound
  <2>3. CASE UNCHANGED row /\ Set(w, Chore("rec.check", "owner"))
    <3>1. Good(row, passed, Chore("rec.check", "owner"))  BY ChoreGood DEF Steps, Purposes
    <3>2. QED  BY <2>1, <2>3, <3>1, SetSound
  <2>4. QED  BY <1>10, <2>2, <2>3 DEF BackDone
<1>11. QED
  BY <1>1, <1>2, <1>3, <1>4, <1>5, <1>6, <1>7, <1>8, <1>9, <1>10 DEF Repeat

LEMMA ReconcileSound ==
  ASSUME Rest, Crew, NEW w \in Workers, Reconcile(w) PROVE Sound
<1>0. worker[w] \in Worker /\ Good(row, passed, worker[w])  BY CrewFacts
<1>1. CASE RecCheck(w)
  <2> DEFINE n == worker[w].tries + 1
             s == IF n > MaxRounds THEN "rec.failed" ELSE IF policy THEN "rec.ban" ELSE "rec.lift"
             x == [worker[w] EXCEPT !.tries = n, !.at = s]
  <2>1. n \in Nat /\ s \in {"rec.failed", "rec.ban", "rec.lift"}  BY <1>0 DEF Worker
  <2>2. s \in Steps /\ s \notin {"sweep.check", "kick.ban", "fix.read", "fix.own"}
    BY <2>1 DEF Steps
  <2>3. Set(w, x) /\ UNCHANGED <<row, policy, passed, lifted>> /\ UNCHANGED dbOnly
    BY <1>1 DEF RecCheck
  <2> HIDE DEF n, s
  <2>4. x \in Worker  BY <1>0, <2>1, <2>2 DEF Worker
  <2>5. /\ x.at = s /\ x.for = worker[w].for
        /\ x.same = worker[w].same /\ x.lease = worker[w].lease
    BY <1>0 DEF Worker
  <2>6. Good(row, passed, x)  BY <1>0, <2>2, <2>4, <2>5 DEF Good, Fits
  <2> HIDE DEF x
  <2>7. QED  BY <2>3, <2>6, SetSound
<1>2. CASE RecBan(w) \/ RecLift(w) \/ RecMute(w) \/ RecRestore(w)
  <2>1. PICK s \in {"rec.banned", "rec.lifted", "rec.muted", "rec.restored"} :
          \/ Mute(w, s, "rec.failed") \/ Restore(w, s, "rec.failed")
          \/ Ban(w, s, "rec.failed") \/ Lift(w, s, "rec.failed")
    BY <1>2 DEF RecBan, RecLift, RecMute, RecRestore
  <2>2. QED  BY <2>1, HelperSound, PlainSteps
<1>3. CASE RecReread(w)
  <2>1. PICK s \in {"rec.check", "rec.mute", "rec.restore", "complete", "back.done", "idle"} :
          Go(w, s)
    BY <1>3 DEF RecReread, AfterBan, AfterMute, AfterRestore
  <2>2. QED  BY <1>3, <2>1, GoSound DEF RecReread, Steps
<1>4. CASE RecFailed(w)
  <2>1. Rest'  BY <1>4 DEF RecFailed, Rest
  <2>2. PICK s \in {"defer", "idle"} : Go(w, s)  BY <1>4 DEF RecFailed
  <2>3. policy' = policy  BY <1>4 DEF RecFailed
  <2>4. CASE row = NoRow /\ row' = Unbanning(row) /\ passed' = FALSE
    <3>1. row' \in Row /\ row' # NoRow /\ row'.status = "unbanning"
      BY <2>4, UnbanningFacts
    <3>2. Good(row, passed, At(worker[w], s)) /\ s \in Steps
      BY <1>0, AtGood DEF Steps
    <3>3. worker' = [worker EXCEPT ![w] = At(worker[w], s)]  BY <2>2 DEF Go, Set
    <3>4. ASSUME NEW v \in Workers PROVE Good(row', passed', worker'[v])
      <4>1. Good(NoRow, passed, worker'[v])
        BY <2>4, <3>2, <3>3 DEF Crew, Workforce
      <4>2. QED  BY <4>1, UnownedGood
    <3>5. worker' \in [Workers -> Worker]
      BY <3>2, <3>3 DEF Good, Crew, Workforce
    <3>6. Crew'  BY <2>4, <3>1, <3>4, <3>5 DEF Crew, Workforce, RowFits
    <3>7. row.status = "none" /\ passed \in BOOLEAN  BY <2>4, RowFacts DEF Crew, RowFits
    <3>8. Moves
      BY <2>3, <2>4, <3>1, <3>7 DEF Moves, Contract!Next, Contract!TakeOver
    <3>9. QED  BY <2>1, <3>6, <3>8 DEF Sound
  <2>5. CASE UNCHANGED <<row, passed>>
    <3>1. Crew'  BY <2>2, <2>5, GoKeeps DEF Steps
    <3>2. Moves  BY <2>3, <2>5, StillMoves
    <3>3. QED  BY <2>1, <3>1, <3>2 DEF Sound
  <2>6. QED  BY <1>4, <2>4, <2>5 DEF RecFailed
<1>5. QED  BY <1>1, <1>2, <1>3, <1>4 DEF Reconcile

LEMMA EnforceSound ==
  ASSUME Rest, Crew, NEW w \in Workers, Enforce(w) PROVE Sound
<1>0. worker[w] \in Worker /\ Good(row, passed, worker[w])  BY CrewFacts
<1>a. "enforcing" \in Status  BY DEF Status
<1>b. ASSUME NEW s, Owns(w, s), s \in Purposes \cup {row.status}
      PROVE  s \in Status /\ row.status = s
  <2>1. row = NoRow \/ row \in Row  BY CrewFacts
  <2>2. row # NoRow  BY <1>0, <1>b DEF Owns, Good
  <2>3. QED  BY <1>b, <2>1, <2>2, RowFacts DEF Owns
<1>c. LeaseStatus(worker[w]) \in Purposes
  BY <1>0 DEF LeaseStatus, Worker, Purposes
<1>1. CASE SweepRenew(w)
  <2>1. UNCHANGED <<policy, passed, lifted>> /\ UNCHANGED dbOnly  BY <1>1 DEF SweepRenew
  <2>2. CASE Owns(w, LeaseStatus(worker[w])) /\
             Lease(w, row.status, Holding(worker[w],
               CASE worker[w].for = "unbanning" -> "rec.check"
                 [] worker[w].for = "enforcing" -> "sweep.check"
                 [] OTHER -> "sweep.policy"))
    <3> DEFINE y == CASE worker[w].for = "unbanning" -> "rec.check"
                      [] worker[w].for = "enforcing" -> "sweep.check"
                      [] OTHER -> "sweep.policy"
    <3>1. /\ y \in {"rec.check", "sweep.check", "sweep.policy"}
          /\ y = "sweep.check" => worker[w].for = "enforcing"
      OBVIOUS
    <3>2. Lease(w, row.status, Holding(worker[w], y))  BY <2>2
    <3> HIDE DEF y
    <3>3. y \in Steps \ {"kick.ban", "fix.read", "fix.own"}  BY <3>1 DEF Steps
    <3>4. row.status \in Status /\ Owns(w, row.status)  BY <1>b, <1>c, <2>2 DEF Owns
    <3>5. QED  BY <2>1, <3>1, <3>2, <3>3, <3>4, RenewSound
  <2>3. CASE Go(w, "idle") /\ UNCHANGED row
    BY <2>1, <2>3, GoSound DEF Steps
  <2>4. QED  BY <1>1, <2>2, <2>3 DEF SweepRenew
<1>2. CASE SweepPolicy(w)
  <2>1. PICK s \in {"complete", "kick.policy", "restore"} : Go(w, s)  BY <1>2 DEF SweepPolicy
  <2>2. QED  BY <1>2, <2>1, GoSound DEF SweepPolicy, Steps
<1>3. CASE SweepCheck(w)
  <2>1. UNCHANGED <<row, policy, passed, lifted>> /\ UNCHANGED dbOnly  BY <1>3 DEF SweepCheck
  <2>2. CASE \E s \in {"idle", "punish.ban"} : Go(w, s)
    BY <2>1, <2>2, GoSound DEF Steps
  <2>3. CASE Go(w, "kick.ban")
    <3>1. worker[w].for = "enforcing"  BY <1>0, <1>3 DEF SweepCheck, Is, Good, Fits
    <3>2. Good(row, passed, At(worker[w], "kick.ban"))  BY <1>0, <3>1, StepGood
    <3>3. Set(w, At(worker[w], "kick.ban"))  BY <2>3 DEF Go
    <3>4. QED  BY <2>1, <3>2, <3>3, SetSound
  <2>4. QED  BY <1>3, <2>2, <2>3 DEF SweepCheck
<1>4. CASE RestoreMember(w)
  <2>1. PICK s \in {"complete", "defer"} : Restore(w, "complete", s)  BY <1>4 DEF RestoreMember
  <2>2. QED  BY <2>1, HelperSound, PlainSteps
<1>5. CASE Complete(w)
  <2>1. UNCHANGED <<policy, passed, lifted>> /\ UNCHANGED dbOnly  BY <1>5 DEF Complete
  <2>2. CASE Owns(w, LeaseStatus(worker[w])) /\ Delete(w, Idle)
    BY <1>b, <1>c, <2>1, <2>2, IdleGood, EndSound
  <2>3. CASE Go(w, "idle") /\ UNCHANGED row
    BY <2>1, <2>3, GoSound DEF Steps
  <2>4. QED  BY <1>5, <2>2, <2>3 DEF Complete
<1>6. CASE Defer(w)
  <2>1. UNCHANGED <<policy, passed, lifted>> /\ UNCHANGED dbOnly  BY <1>6 DEF Defer
  <2>2. CASE Owns(w, LeaseStatus(worker[w])) /\ Lease(w, row.status, Idle)
    <3>1. row.status \in Status /\ Owns(w, row.status)  BY <1>b, <1>c, <2>2 DEF Owns
    <3>2. QED  BY <2>1, <2>2, <3>1, RenewSound
  <2>3. CASE Go(w, "idle") /\ UNCHANGED row
    BY <2>1, <2>3, GoSound DEF Steps
  <2>4. QED  BY <1>6, <2>2, <2>3 DEF Defer
<1>7. CASE PunishBan(w)
  <2>1. Ban(w, "punish.record", "defer")  BY <1>7 DEF PunishBan
  <2>2. QED  BY <2>1, HelperSound, PlainSteps
<1>8. CASE PunishRecord(w)
  <2>1. UNCHANGED <<passed, lifted>> /\ UNCHANGED dbOnly  BY <1>8 DEF PunishRecord
  <2>2. CASE Owns(w, "enforcing") /\ Delete(w, Idle) /\ policy' = TRUE
    BY <2>1, <2>2, BannedSound
  <2>3. CASE UNCHANGED <<row, policy>> /\ Set(w, Chore("rec.check", "stop"))
    <3>1. Good(row, passed, Chore("rec.check", "stop"))  BY ChoreGood DEF Steps, Purposes
    <3>2. QED  BY <2>1, <2>3, <3>1, SetSound
  <2>4. QED  BY <1>8, <2>2, <2>3 DEF PunishRecord
<1>9. CASE KickBan(w)
  <2>1. CASE Ban(w, "kick.policy", "defer")
    BY <2>1, HelperSound, PlainSteps
  <2>2. CASE /\ faults < MaxFaults /\ faults' = faults + 1
             /\ tg' \in {tg, "banned"}
             /\ present' = (present /\ tg' # "banned")
             /\ departed' = (departed \/ (present /\ tg' = "banned"))
             /\ Set(w, [worker[w] EXCEPT !.at = "kick.policy", !.for = "failedKick"])
             /\ UNCHANGED callOnly
    <3> DEFINE x == [worker[w] EXCEPT !.at = "kick.policy", !.for = "failedKick"]
    <3>0. "kick.policy" \in Steps /\ "failedKick" \in Purposes  BY DEF Steps, Purposes
    <3>1. x \in Worker  BY <1>0, <3>0 DEF Worker
    <3>2. /\ x.at = "kick.policy" /\ x.for = "failedKick"
          /\ x.same = worker[w].same /\ x.lease = worker[w].lease
      BY <1>0 DEF Worker
    <3>3. worker[w].for \in Enforcing
      BY <1>0, <1>9 DEF KickBan, Is, Good, Fits, Enforcing
    <3>4. Good(row, passed, x)  BY <1>0, <3>1, <3>2, <3>3 DEF Good, Fits
    <3>5. Set(w, x)  BY <2>2
    <3> HIDE DEF x
    <3>6. Crew'  BY <2>2, <3>4, <3>5, SetKeeps DEF callOnly
    <3>7. Rest'
      <4>1. faults' \in 0..MaxFaults  BY <2>2, ConstantsAssumption DEF Rest
      <4>2. /\ tg' \in {"free", "muted", "banned"}
            /\ present' \in BOOLEAN /\ departed' \in BOOLEAN
        BY <2>2 DEF Rest
      <4>3. QED  BY <2>2, <4>1, <4>2 DEF Rest, callOnly
    <3>8. Moves  BY <2>2, StillMoves DEF callOnly
    <3>9. QED  BY <3>6, <3>7, <3>8 DEF Sound
  <2>3. QED  BY <1>9, <2>1, <2>2 DEF KickBan
<1>10. CASE KickPolicy(w)
  <2>1. PICK s \in {"kick.done", "kick.lift", "kick.reban"} : Go(w, s)  BY <1>10 DEF KickPolicy
  <2>2. QED  BY <1>10, <2>1, GoSound DEF KickPolicy, Steps
<1>11. CASE KickLift(w) \/ KickReban(w)
  <2>1. Lift(w, "kick.lifted", "defer") \/ Ban(w, "kick.done", "defer")
    BY <1>11 DEF KickLift, KickReban
  <2>2. QED  BY <2>1, HelperSound, PlainSteps
<1>12. CASE KickDone(w)
  <2>1. UNCHANGED <<policy, passed, lifted>> /\ UNCHANGED dbOnly  BY <1>12 DEF KickDone
  <2>2. CASE Owns(w, "enforcing") /\ Delete(w, Idle)
    BY <1>a, <2>1, <2>2, IdleGood, EndSound
  <2>3. CASE \E s \in {"fix.read", "complete", "restore", "defer", "idle"} :
               Go(w, s) /\ UNCHANGED row
    BY <2>1, <2>3, GoSound DEF Steps
  <2>4. QED  BY <1>12, <2>2, <2>3 DEF KickDone
<1>13. QED
  BY <1>1, <1>2, <1>3, <1>4, <1>5, <1>6, <1>7, <1>8, <1>9, <1>10, <1>11, <1>12 DEF Enforce

LEMMA GivesUpSound ==
  ASSUME Rest, Crew, NEW w \in Workers, GivesUp(w) PROVE Sound
<1>0. worker[w] \in Worker  BY CrewFacts
<1>1. Rest'
  <2>1. faults' \in 0..MaxFaults  BY ConstantsAssumption DEF GivesUp, Rest
  <2>2. QED  BY <2>1 DEF GivesUp, Rest
<1>2. Moves  BY StillMoves DEF GivesUp
<1>3. UNCHANGED <<row, passed>>  BY DEF GivesUp
<1>4. CASE Set(w, Idle)
  BY <1>1, <1>2, <1>3, <1>4, IdleGood, SetKeeps DEF Sound
<1>5. CASE Set(w, Chore("rec.check", "stop"))
  <2>1. Good(row, passed, Chore("rec.check", "stop"))  BY ChoreGood DEF Steps, Purposes
  <2>2. QED  BY <1>1, <1>2, <1>3, <1>5, <2>1, SetKeeps DEF Sound
<1>6. CASE /\ worker[w].at \in {"rec.check", "rec.ban", "rec.banned", "rec.lift", "rec.lifted",
                "rec.mute", "rec.muted", "rec.restore", "rec.restored",
                "kick.policy", "kick.lift", "kick.lifted", "kick.reban"}
           /\ Set(w, [Chore(worker[w].at, "stop") EXCEPT !.tries = worker[w].tries])
  <2> DEFINE c == Chore(worker[w].at, "stop")
             x == [c EXCEPT !.tries = worker[w].tries]
  <2>1. worker[w].at \in Steps /\ worker[w].tries \in Nat  BY <1>0 DEF Worker
  <2>2. worker[w].at \notin {"sweep.check", "kick.ban", "fix.read", "fix.own"}  BY <1>6
  <2>3. Good(row, passed, c)  BY <2>1, <2>2, ChoreGood DEF Purposes
  <2>4. Set(w, x)  BY <1>6
  <2> HIDE DEF c
  <2>5. c \in Worker  BY <2>3 DEF Good
  <2>6. x \in Worker  BY <2>1, <2>5 DEF Worker
  <2>7. x.at = c.at /\ x.for = c.for /\ x.same = c.same /\ x.lease = c.lease
    BY <2>5 DEF Worker
  <2>8. Good(row, passed, x)  BY <2>3, <2>6, <2>7 DEF Good, Fits
  <2> HIDE DEF x
  <2>9. QED  BY <1>1, <1>2, <1>3, <2>4, <2>8, SetKeeps DEF Sound
<1>7. QED  BY <1>4, <1>5, <1>6 DEF GivesUp

LEMMA DecideSound ==
  ASSUME Rest, Crew, NEW w \in Workers, Decide(w) PROVE Sound
<1>0. worker[w] \in Worker /\ Good(row, passed, worker[w])  BY CrewFacts
<1>1. CASE PassClaim(w)
  <2>1. UNCHANGED <<policy, lifted>> /\ UNCHANGED dbOnly  BY <1>1 DEF PassClaim
  <2>2. CASE /\ worker[w].same /\ row.status = "pending" /\ passed' = TRUE
             /\ Lease(w, "releasing", Task("restore", "releasing"))
    <3>1. row # NoRow /\ row \in Row  BY <1>0, <2>2, CrewFacts DEF Good
    <3>2. "releasing" \in Status  BY DEF Status
    <3>3. Good(As(row, "releasing"), passed', Task("restore", "releasing"))
      BY <3>1, <3>2, AsFacts, TaskGood DEF Free, Steps, Purposes, Enforcing
    <3>4. Crew' /\ row'.status = "releasing"
      BY <2>2, <3>1, <3>2, <3>3, LeaseKeeps DEF Early
    <3>5. Moves  BY <2>1, <2>2, <3>4 DEF Moves, Contract!Next, Contract!Answer
    <3>6. QED  BY <2>1, <3>4, <3>5, RestKeeps DEF Sound, Rest
  <2>3. CASE Go(w, "idle") /\ UNCHANGED <<row, passed>>
    BY <2>1, <2>3, GoSound DEF Steps
  <2>4. QED  BY <1>1, <2>2, <2>3 DEF PassClaim
<1>2. CASE BanCall(w) \/ UnbanCall(w) \/ UnbanRestore(w)
  <2>1. \/ Ban(w, "ban.record", "idle") \/ Lift(w, "unban.policy", "idle")
        \/ Restore(w, "complete", "idle")
    BY <1>2 DEF BanCall, UnbanCall, UnbanRestore
  <2>2. QED  BY <2>1, HelperSound, PlainSteps
<1>3. CASE BanRecord(w)
  <2>1. UNCHANGED <<passed, lifted>> /\ UNCHANGED dbOnly  BY <1>3 DEF BanRecord
  <2>2. CASE Owns(w, "unbanning") /\ Delete(w, Idle) /\ policy' = TRUE
    BY <2>1, <2>2, BannedSound
  <2>3. CASE UNCHANGED <<row, policy>> /\ Set(w, Chore("rec.check", "stop"))
    <3>1. Good(row, passed, Chore("rec.check", "stop"))  BY ChoreGood DEF Steps, Purposes
    <3>2. QED  BY <2>1, <2>3, <3>1, SetSound
  <2>4. QED  BY <1>3, <2>2, <2>3 DEF BanRecord
<1>4. CASE UnbanPolicy(w)
  <2>1. UNCHANGED <<row, passed, lifted>> /\ UNCHANGED dbOnly  BY <1>4 DEF UnbanPolicy
  <2>2. CASE policy' = FALSE /\ Go(w, "unban.restore")
    <3>1. Crew'  BY <2>1, <2>2, GoKeeps DEF Steps
    <3>2. Rest'  BY <2>1, <2>2, RestKeeps DEF Rest
    <3>3. Moves  BY <2>1, <2>2 DEF Moves, Contract!Next, Contract!Pardon
    <3>4. QED  BY <3>1, <3>2, <3>3 DEF Sound
  <2>3. CASE /\ UNCHANGED policy
             /\ Set(w, Chore("fix.ban", "fix")) \/ Set(w, Idle)
    <3>1. Good(row, passed, Chore("fix.ban", "fix")) /\ Good(row, passed, Idle)
      BY IdleGood, ChoreGood DEF Steps, Purposes
    <3>2. QED  BY <2>1, <2>3, <3>1, SetSound
  <2>4. QED  BY <1>4, <2>2, <2>3 DEF UnbanPolicy
<1>5. QED  BY <1>1, <1>2, <1>3, <1>4 DEF Decide

\* An administrator's journal takes the member's row over, or starts one.
LEMMA JournalSound ==
  ASSUME Rest, Crew, NEW w \in Workers, NEW x, TakeOver(w, x),
         \A r, p : r # NoRow => Good(r, p, x), policy' = policy, Rest'
  PROVE  Sound
<1>1. /\ Crew' /\ row'.status = "unbanning"
      /\ passed' = (passed /\ row.status # "none")
  BY TakeOverKeeps
<1>2. Moves  BY <1>1 DEF Moves, Contract!Next, Contract!TakeOver
<1>3. QED  BY <1>1, <1>2 DEF Sound

LEMMA AskedSound ==
  ASSUME Rest, Crew, NEW w \in Workers, Asked(w) PROVE Sound
<1>1. CASE StartMessage(w)
  <2>1. Insert(w, "moderation", TRUE, Task("confirm", "fix")) /\ policy' = policy
    BY <1>1 DEF StartMessage
  <2>2. Good(Challenge("moderation", TRUE), FALSE, Task("confirm", "fix"))
    BY ChallengeFacts, TaskGood DEF Free, Steps, Purposes, Enforcing
  <2>3. Rest'  BY <1>1, RestKeeps DEF StartMessage, Rest
  <2>4. QED  BY <2>1, <2>2, <2>3, InsertSound
<1>2. CASE MessageAgain(w)
  <2>1. Good(row, passed, Task("dup.mute", "fix"))
    BY <1>2, RowFacts, TaskGood DEF MessageAgain, Free, Steps, Purposes, Enforcing
  <2>2. QED  BY <1>2, <2>1, SetSound DEF MessageAgain
<1>3. CASE PassRead(w)
  <2>1. Good(row, passed, Task("pass.claim", "none"))
    BY <1>3, RowFacts, TaskGood DEF PassRead, Free, Steps, Purposes, Enforcing
  <2>2. QED  BY <1>3, <2>1, SetSound DEF PassRead
<1>4. CASE BanStart(w)
  <2>1. \A r, p : r # NoRow => Good(r, p, Task("ban.call", "unbanning"))
    BY TaskGood DEF Free, Steps, Purposes, Enforcing
  <2>2. Rest'  BY <1>4, RestKeeps DEF BanStart, Rest
  <2>3. QED  BY <1>4, <2>1, <2>2, JournalSound DEF BanStart
<1>5. CASE UnbanStart(w)
  <2> DEFINE t == Task("unban.call", "unbanning")
             x == [t EXCEPT !.snap = policy]
  <2>1. \A r, p : r # NoRow => Good(r, p, t)
    BY TaskGood DEF Free, Steps, Purposes, Enforcing
  <2>2. TakeOver(w, x)  BY <1>5 DEF UnbanStart
  <2>3. policy \in BOOLEAN  BY DEF Rest
  <2> HIDE DEF t
  <2>4. t \in Worker  BY <2>1, ChallengeFacts DEF Good
  <2>5. x \in Worker  BY <2>3, <2>4 DEF Worker
  <2>6. x.at = t.at /\ x.for = t.for /\ x.same = t.same /\ x.lease = t.lease
    BY <2>4 DEF Worker
  <2>7. \A r, p : r # NoRow => Good(r, p, x)  BY <2>1, <2>5, <2>6 DEF Good, Fits
  <2> HIDE DEF x
  <2>8. Rest'  BY <1>5 DEF UnbanStart, Rest
  <2>9. QED  BY <1>5, <2>2, <2>7, <2>8, JournalSound DEF UnbanStart
<1>6. QED  BY <1>1, <1>2, <1>3, <1>4, <1>5 DEF Asked

LEMMA SweepSound ==
  ASSUME Rest, Crew, NEW w \in Workers, SweepClaim(w) \/ SweepExtends(w) PROVE Sound
<1>0. row = NoRow \/ row \in Row  BY CrewFacts
<1>1. CASE SweepClaim(w)
  <2>1. UNCHANGED <<policy, passed, lifted>> /\ UNCHANGED dbOnly  BY <1>1 DEF SweepClaim
  <2>2. row # NoRow /\ row \in Row /\ row.status \in Status
    BY <1>0, <1>1, RowFacts DEF SweepClaim
  <2>3. passed = TRUE => row.status \in {"releasing", "unbanning"}
    BY <2>2, CrewFacts
  <2>4. PICK f \in {Target, "deauthorized"} : Lease(w, Target, Task("sweep.renew", f))
    BY <1>1 DEF SweepClaim
  <2>5. /\ Target \in {"preparing", "unbanning", "releasing", "enforcing"}
        /\ Target = "preparing" => row.status = "preparing"
        /\ row.status = "releasing" => Target \in {"releasing", "unbanning"}
        /\ row.status = "unbanning" => Target = "unbanning"
        /\ Target = "releasing" => row.status \in {"releasing", "pending"}
        /\ Target = "enforcing" => row.status \in {"enforcing", "pending"}
        /\ row.status = "preparing" => Target = "preparing"
        /\ row.status = "enforcing" => Target \in {"enforcing", "unbanning"}
    BY <2>2 DEF Target, Status
  <2>6. Target \in Status /\ Target \in Purposes /\ f \in Purposes
    BY <2>4, <2>5 DEF Status, Purposes
  <2> HIDE DEF Target
  <2>7. Good(As(row, Target), passed', Task("sweep.renew", f))
    <3>1. "sweep.renew" \in Free  BY DEF Free, Steps
    <3>2. As(row, Target) # NoRow /\ As(row, Target).status = Target  BY <2>2, <2>6, AsFacts
    <3>3. f \in Enforcing => Target = "enforcing"
      BY <2>4, <2>5 DEF Enforcing
    <3>4. Target = "enforcing" => passed' # TRUE
      BY <2>1, <2>3, <2>5
    <3>5. QED  BY <2>6, <3>1, <3>2, <3>3, <3>4, TaskGood DEF Early
  <2>8. Crew' /\ row'.status = Target
    <3>1. Target \in Early => row.status \in Early  BY <2>5 DEF Early
    <3>2. passed' = TRUE => /\ Target \in {"releasing", "unbanning"}
                            /\ passed = TRUE \/ row.status \in Early
      BY <2>1, <2>3, <2>5
    <3>3. passed' \in BOOLEAN  BY <2>1 DEF Crew, RowFits
    <3>4. QED  BY <2>2, <2>4, <2>6, <2>7, <3>1, <3>2, <3>3, LeaseKeeps
  <2>9. Moves
    <3>1. passed \in BOOLEAN /\ row.status # "none"
      BY <2>2, RowFacts DEF Crew, RowFits
    <3>2. CASE Target = row.status  BY <2>1, <2>8, <3>2, StillMoves
    <3>3. CASE Target = "unbanning"
      BY <2>1, <2>8, <3>1, <3>3 DEF Moves, Contract!Next, Contract!TakeOver
    <3>4. CASE Target = "releasing" /\ row.status = "pending"
      BY <2>1, <2>8, <3>4 DEF Moves, Contract!Next, Contract!Withdraw
    <3>5. CASE Target = "enforcing" /\ row.status = "pending"
      BY <2>1, <2>3, <2>8, <3>1, <3>5 DEF Moves, Contract!Next, Contract!Expire
    <3>6. QED  BY <2>5, <3>2, <3>3, <3>4, <3>5
  <2>10. QED  BY <2>1, <2>8, <2>9, RestKeeps DEF Sound, Rest
<1>2. CASE SweepExtends(w)
  <2>1. row.status = "pending" /\ Lease(w, "pending", Idle) /\ UNCHANGED <<policy, passed>>
    BY <1>2 DEF SweepExtends
  <2>2. row # NoRow /\ row \in Row /\ "pending" \in Status
    BY <1>0, <2>1, RowFacts DEF Status
  <2>3. passed = FALSE  BY <2>1, <2>2, CrewFacts DEF Crew, RowFits
  <2>4. Crew' /\ row'.status = "pending"
    BY <2>1, <2>2, <2>3, IdleGood, LeaseKeeps DEF Early
  <2>5. Rest'
    <3>1. faults' \in 0..MaxFaults  BY <1>2, ConstantsAssumption DEF SweepExtends, Rest
    <3>2. QED  BY <1>2, <3>1 DEF SweepExtends, Rest
  <2>6. Moves  BY <2>1, <2>4, StillMoves
  <2>7. QED  BY <2>4, <2>5, <2>6 DEF Sound
<1>3. QED  BY <1>1, <1>2

LEMMA WorldSound ==
  ASSUME Rest, Crew, World PROVE Sound
<1>1. CASE JoinArrives \/ Leaves
  <2>1. UNCHANGED chatOnly /\ Rest'  BY <1>1 DEF JoinArrives, Leaves, chatOnly, Rest
  <2>2. Crew'  BY <2>1 DEF chatOnly, Crew, RowFits, Workforce
  <2>3. Moves  BY <2>1, StillMoves DEF chatOnly
  <2>4. QED  BY <2>1, <2>2, <2>3 DEF Sound
<1>2. CASE LeaveHandled
  <2>1. Rest'  BY <1>2 DEF LeaveHandled, Rest
  <2>2. UNCHANGED <<policy, passed>>  BY <1>2 DEF LeaveHandled
  <2>3. CASE /\ row.status = "pending" /\ row' = NoRow
             /\ worker' = [v \in Workers |-> Orphaned(worker[v])]
    <3>1. ASSUME NEW v \in Workers PROVE Good(row', passed', worker'[v])
      <4>1. Good(row, passed, worker[v])  BY DEF Crew, Workforce
      <4>2. Good(row', passed', Orphaned(worker[v]))  BY <4>1, OrphanedGood
      <4>3. QED  BY <2>3, <4>2
    <3>2. worker' \in [Workers -> Worker]
      <4>1. worker' = [v \in Workers |-> worker'[v]]  BY <2>3
      <4>2. QED  BY <3>1, <4>1 DEF Good
    <3>3. Crew'  BY <2>2, <2>3, <3>1, <3>2 DEF Crew, Workforce, RowFits
    <3>4. Moves
      BY <2>2, <2>3, RowFacts DEF Moves, Contract!Next, Contract!Withdraw
    <3>5. QED  BY <2>1, <3>3, <3>4 DEF Sound
  <2>4. CASE UNCHANGED <<row, worker>>
    <3>1. Crew'  BY <2>2, <2>4 DEF Crew, Workforce, RowFits
    <3>2. Moves  BY <2>2, <2>4, StillMoves
    <3>3. QED  BY <2>1, <3>1, <3>2 DEF Sound
  <2>5. QED  BY <1>2, <2>3, <2>4 DEF LeaveHandled
<1>3. CASE Lapse
  <2>1. UNCHANGED <<policy, passed, lifted, worker>> /\ UNCHANGED dbOnly  BY <1>3 DEF Lapse
  <2>2. row \in Row /\ row' = [row EXCEPT !.due = TRUE]
    BY <1>3 DEF Lapse, Crew, RowFits
  <2>3. row' \in Row /\ row'.status = row.status  BY <2>2 DEF Row
  <2>4. row' # NoRow  BY <2>3, RowFacts
  <2>5. Crew'
    <3>1. ASSUME NEW v \in Workers PROVE Good(row', passed, worker[v])
      <4>1. Good(row, passed, worker[v])  BY DEF Crew, Workforce
      <4>2. QED  BY <2>3, <2>4, <4>1, SameStatusGood
    <3>2. row # NoRow  BY <2>2, RowFacts
    <3>3. RowFits(row', passed)  BY <2>3, <2>4, <3>2 DEF Crew, RowFits
    <3>4. QED  BY <2>1, <3>1, <3>3 DEF Crew, Workforce
  <2>6. QED  BY <2>1, <2>3, <2>5, RestKeeps, StillMoves DEF Sound, Rest
<1>4. CASE MarkerExpires \/ Authorization
  <2>1. UNCHANGED <<row, policy, worker, passed>>  BY <1>4 DEF MarkerExpires, Authorization
  <2>2. Rest'
    <3>1. faults' \in 0..MaxFaults
      BY <1>4, ConstantsAssumption DEF MarkerExpires, Authorization, Rest
    <3>2. QED  BY <1>4, <3>1 DEF MarkerExpires, Authorization, Rest
  <2>3. Crew'  BY <2>1 DEF Crew, Workforce, RowFits
  <2>4. QED  BY <2>1, <2>2, <2>3, StillMoves DEF Sound
<1>5. CASE Crash
  <2>1. UNCHANGED <<row, policy, passed>> /\ worker' = [v \in Workers |-> Idle]
    BY <1>5 DEF Crash
  <2>2. Rest'
    <3>1. crashes' \in 0..MaxCrashes  BY <1>5, ConstantsAssumption DEF Crash, Rest
    <3>2. QED  BY <1>5, <3>1 DEF Crash, Rest
  <2>3. Crew'
    <3>1. \A v \in Workers : Good(row, passed, worker'[v])  BY <2>1, IdleGood
    <3>2. Idle \in Worker  BY IdleGood DEF Good
    <3>3. QED  BY <2>1, <3>1, <3>2 DEF Crew, Workforce, RowFits
  <2>4. QED  BY <2>1, <2>2, <2>3, StillMoves DEF Sound
<1>6. QED  BY <1>1, <1>2, <1>3, <1>4, <1>5 DEF World

LEMMA StartsSound == Init => Rest /\ Crew /\ Contract!Init
<1> SUFFICES ASSUME Init PROVE Rest /\ Crew /\ Contract!Init
  OBVIOUS
<1>1. Rest
  <2>1. 0 \in 0..MaxFaults /\ 0 \in 0..MaxCrashes  BY ConstantsAssumption
  <2>2. QED  BY <2>1 DEF Init, Rest
<1>2. Crew
  <2>1. \A w \in Workers : Good(row, passed, worker[w])  BY IdleGood DEF Init
  <2>2. Idle \in Worker  BY IdleGood DEF Good
  <2>3. QED  BY <2>1, <2>2 DEF Init, Crew, Workforce, RowFits
<1>3. Contract!Init  BY RowFacts DEF Init, Contract!Init
<1>4. QED  BY <1>1, <1>2, <1>3

LEMMA StepsSound == Rest /\ Crew /\ [Next]_vars => Sound
<1> SUFFICES ASSUME Rest, Crew, [Next]_vars PROVE Sound
  OBVIOUS
<1>1. ASSUME NEW w \in Workers, Continue(w) PROVE Sound
  BY <1>1, IssueSound, CompensateSound, RepeatSound, ReconcileSound, EnforceSound, DecideSound
  DEF Continue
<1>2. ASSUME NEW w \in Workers,
             TakeJoin(w) \/ Asked(w) \/ SweepClaim(w) \/ SweepExtends(w) \/ GivesUp(w)
      PROVE  Sound
  BY <1>2, TakeJoinSound, AskedSound, SweepSound, GivesUpSound
<1>3. CASE World  BY <1>3, WorldSound
<1>4. CASE UNCHANGED vars
  <2>1. Crew'  BY <1>4 DEF vars, Crew, Workforce, RowFits
  <2>2. Rest'  BY <1>4 DEF vars, Rest
  <2>3. Moves  BY <1>4, StillMoves DEF vars
  <2>4. QED  BY <2>1, <2>2, <2>3 DEF Sound
<1>5. QED  BY <1>1, <1>2, <1>3, <1>4 DEF Next

-----------------------------------------------------------------------------
LEMMA Invariance == Spec => [](Rest /\ Crew)
<1>1. Init => Rest /\ Crew  BY StartsSound
<1>2. Rest /\ Crew /\ [Next]_vars => Rest' /\ Crew'  BY StepsSound DEF Sound
<1>3. QED  BY <1>1, <1>2, PTL DEF Spec

\* The inductive invariant of the runs, for every number of workers.
THEOREM Inductive == Spec => []InductiveInv
<1>1. Rest /\ Crew => InductiveInv  BY InvIsInductiveInv DEF Inv, Crew
<1>2. QED  BY <1>1, Invariance, PTL

\* Rows, leases and workers always have their types.
THEOREM TypeCorrect == Spec => []TypeOK
<1>1. InductiveInv => TypeOK  BY DEF InductiveInv
<1>2. QED  BY <1>1, Inductive, PTL

\* Whoever solves the challenge in time is never kicked or banned for it,
\* whatever workers, crashes and failed calls there are.
THEOREM PassIsFinalAlways == Spec => []PassIsFinal
<1>1. InductiveInv => PassIsFinal  BY DEF InductiveInv
<1>2. QED  BY <1>1, Inductive, PTL

\* The workers together implement the contract of one challenge after another:
\* every step is one of its steps or leaves row, answer and policy alone.
THEOREM VerificationImplementsContract == Spec => KeepsContract
<1>1. Init => Contract!Init  BY StartsSound
<1>2. Rest /\ Crew /\ [Next]_vars => [Contract!Next]_(Contract!vars)
  BY StepsSound DEF Sound, Moves
<1>3. QED  BY <1>1, <1>2, Invariance, PTL DEF Spec, KeepsContract, Contract!Spec
=============================================================================
