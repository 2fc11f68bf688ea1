--------------------------- MODULE VerdictsProofs ---------------------------
(***************************************************************************)
(* Theorems about how a group judges its members: votes to ban and their    *)
(* pinned prompts, and the warnings and bans of moderation; for any number  *)
(* of voters, messages, failed calls and restarts.                          *)
(***************************************************************************)
EXTENDS Enforcement, FiniteSetTheorems, TLAPS

-----------------------------------------------------------------------------
(* A poll, its enforcement and the recovery ticket: VoteBan *)

\* Before its enforcement a poll has done nothing to its target.
Early ==
  /\ poll = "none" => counting = {}
  /\ poll \in {"none", "active"} =>
       /\ ticket = "none" /\ ~voteBanned /\ ~votePolicy
       /\ unban = "idle" /\ sweeper = "idle"
       /\ \A e \in Enforcers : V!At(e, "idle")

\* A ticket that is gone or in the sweeper's hands is in nobody else's.
NoLeases == ticket \in {"none", "swept"} => \A e \in Enforcers : ~enforcer[e].lease

\* /unban works on a closed poll, with the ticket.
UnbanHolds ==
  /\ unban # "idle" => ticket = "leased" /\ poll \in V!Terminal
  /\ unban \in {"restore", "done"} => ~votePolicy

\* A ban is lifted by a reconciliation only when the poll is closed, and is in force when
\* its owner is about to record it.
Lifting == \A e \in Enforcers : V!At(e, "fix.lift") => poll \in V!Terminal
InForce == \A e \in Enforcers : V!At(e, "record") /\ V!Owns(e) /\ ~stray => voteBanned

\* A task that is still going to look at what Telegram enforces.
Doubts(e) ==
  \/ enforcer[e].at \in {"record", "miss", "fix", "fix.ban", "fix.lift"}
  \/ V!At(e, "fix.kept") /\ ~votePolicy
  \/ V!At(e, "fix.freed") /\ votePolicy

\* The sweeper goes by the policy as it is, as long as the ticket is its own.
Sweeping ==
  ticket = "swept" => /\ sweeper = "kept" => votePolicy
                      /\ sweeper = "lifted" => ~votePolicy

\* Nobody is going to look at the target for its ticket.
Unwatched == \/ ticket = "none" \/ unban = "done"
             \/ ticket = "swept" /\ sweeper \in {"kept", "lifted"}

\* What disagrees on a closed poll has a ticket or a task that doubts it.
Mistrusted ==
  ~stray /\ poll \in V!Terminal /\ Unwatched /\ ~(voteBanned <=> votePolicy) =>
    \E e \in Enforcers : Doubts(e)

\* The module counts as the library does.
LEMMA SameCardinality == \A N : V!Cardinality(N) = Cardinality(N)
  BY DEF V!Cardinality, Cardinality

\* The ballots can be counted, and a count that decides has been seen.
Counted == IsFiniteSet(ballots) /\ V!ThresholdSeen

\* The inductive invariant.
VoteInv ==
  /\ V!TypeOK /\ Early /\ NoLeases /\ UnbanHolds /\ Lifting /\ InForce
  /\ Sweeping /\ Mistrusted /\ Counted

Steps     == {"idle", "own", "retake", "ban", "record", "miss", "told"} \cup V!Fixing
Enforcing == [at : Steps, token : BOOLEAN, lease : BOOLEAN]
Crew      == [Enforcers -> Enforcing]

\* A task that moves keeps its leases, and the others are where they were.
LEMMA Moved ==
  ASSUME NEW f \in Crew, NEW e \in Enforcers, NEW s \in Steps
  PROVE  LET n == [f EXCEPT ![e].at = s]
         IN  /\ n \in Crew
             /\ n[e].at = s /\ n[e].token = f[e].token /\ n[e].lease = f[e].lease
             /\ \A x \in Enforcers : x # e => n[x] = f[x]
<1>1. f[e] \in Enforcing
  BY DEF Crew
<1>2. LET r == [f[e] EXCEPT !.at = s]
      IN  r \in Enforcing /\ r.at = s /\ r.token = f[e].token /\ r.lease = f[e].lease
  BY <1>1 DEF Enforcing
<1>3. [f EXCEPT ![e].at = s] = [f EXCEPT ![e] = [f[e] EXCEPT !.at = s]]
  OBVIOUS
<1> QED  BY <1>2, <1>3 DEF Crew

\* A task that rests holds nothing.
LEMMA Rested ==
  ASSUME NEW f \in Crew, NEW e \in Enforcers
  PROVE  LET n == [f EXCEPT ![e] = V!Resting]
         IN  /\ n \in Crew
             /\ n[e].at = "idle" /\ ~n[e].token /\ ~n[e].lease
             /\ \A x \in Enforcers : x # e => n[x] = f[x]
<1>1. V!Resting \in Enforcing /\ V!Resting.at = "idle" /\ ~V!Resting.token /\ ~V!Resting.lease
  BY DEF V!Resting, Enforcing, Steps
<1> QED  BY <1>1 DEF Crew

\* Who takes the ticket, or writes the poll, takes the leases and moves nobody.
LEMMA Dispossessed ==
  ASSUME enforcer \in Crew
  PROVE  /\ V!Outrun \in Crew
         /\ \A x \in Enforcers : /\ V!Outrun[x].at = enforcer[x].at /\ ~V!Outrun[x].lease
                                 /\ V!Outrun[x].token = enforcer[x].token
         /\ V!Superseded \in Crew
         /\ \A x \in Enforcers : /\ V!Superseded[x].at = enforcer[x].at
                                 /\ ~V!Superseded[x].lease /\ ~V!Superseded[x].token
<1>1. ASSUME NEW x \in Enforcers
      PROVE  LET r == [enforcer[x] EXCEPT !.lease = FALSE]
                 q == [at |-> enforcer[x].at, token |-> FALSE, lease |-> FALSE]
             IN  /\ r \in Enforcing /\ r.at = enforcer[x].at /\ ~r.lease
                 /\ r.token = enforcer[x].token
                 /\ q \in Enforcing /\ q.at = enforcer[x].at /\ ~q.lease /\ ~q.token
  <2>1. enforcer[x] \in Enforcing
    BY DEF Crew
  <2> QED  BY <2>1 DEF Enforcing
<1> QED  BY <1>1 DEF V!Outrun, V!Superseded, Crew

\* A claim gives both leases to one task.
Takes(e) ==
  /\ poll' = "enforcing" /\ ticket' = "leased" /\ enforcer'[e].at \in {"own", "retake"}
  /\ \A x \in Enforcers : x # e => /\ enforcer'[x].at = enforcer[x].at
                                   /\ ~enforcer'[x].token /\ ~enforcer'[x].lease

\* A claim of an enforcement has that effect.
LEMMA Claimed ==
  ASSUME enforcer \in Crew, NEW e \in Enforcers, NEW s \in {"own", "retake"},
         V!ClaimEnforcing(e, s)
  PROVE  enforcer' \in Crew /\ Takes(e)
<1> DEFINE r == [at |-> s, token |-> TRUE, lease |-> TRUE]
<1>1. r \in Enforcing /\ r.at = s
  BY DEF Enforcing, Steps
<1>2. /\ enforcer' = [V!Superseded EXCEPT ![e] = r]
      /\ poll' = "enforcing" /\ ticket' = "leased"
  BY DEF V!ClaimEnforcing
<1> QED  BY <1>1, <1>2, Dispossessed DEF Crew, Takes

\* The loop that is cancelled rests if it is cut short, and nobody else is disturbed.
LEMMA CancelForm ==
  ASSUME V!VoteAssumption, NEW f \in Crew, V!CancelLoop(f)
  PROVE  /\ enforcer' \in Crew
         /\ \A x \in Enforcers : x # Loop \/ ~V!CutShort => enforcer'[x] = f[x]
         /\ V!CutShort => /\ enforcer'[Loop].at = "idle"
                          /\ ~enforcer'[Loop].token /\ ~enforcer'[Loop].lease
<1>1. Loop \in Enforcers
  BY DEF V!VoteAssumption
<1>2. CASE V!CutShort
  BY <1>1, <1>2, Rested DEF V!CancelLoop
<1>3. CASE ~V!CutShort
  BY <1>3 DEF V!CancelLoop
<1> QED  BY <1>2, <1>3

\* Nobody else's steps or leases grow.
Fewer == \A x \in Enforcers : /\ enforcer'[x].at \in {enforcer[x].at, "idle"}
                              /\ enforcer'[x].token => enforcer[x].token
                              /\ enforcer'[x].lease => enforcer[x].lease

\* One task moves to a step of places, or rests, and no other does anything.
Goes(e, places) ==
  /\ enforcer' \in Crew /\ enforcer'[e].at \in places
  /\ enforcer'[e].token => enforcer[e].token
  /\ enforcer'[e].lease => enforcer[e].lease
  /\ \A x \in Enforcers : x # e => enforcer'[x] = enforcer[x]

\* A step of an enforcing task moves that task alone.
LEMMA GoForm ==
  ASSUME enforcer \in Crew, NEW e \in Enforcers, NEW s \in Steps, V!Go(e, s)
  PROVE  Goes(e, {s})
<1> DEFINE n == [enforcer EXCEPT ![e].at = s]
<1>1. enforcer' = n
  BY DEF V!Go
<1>2. /\ n \in Crew /\ n[e].at = s /\ n[e].token = enforcer[e].token
      /\ n[e].lease = enforcer[e].lease
      /\ \A x \in Enforcers : x # e => n[x] = enforcer[x]
  BY Moved
<1> HIDE DEF n
<1> QED  BY <1>1, <1>2 DEF Goes

\* A task that rests moves nobody else.
LEMMA RestForm ==
  ASSUME enforcer \in Crew, NEW e \in Enforcers, V!Rest(e)
  PROVE  Goes(e, {"idle"})
BY Rested DEF V!Rest, Goes

\* Nobody's leases grow, and whoever moves rests or is yet to tell the loop.
Settles == \A x \in Enforcers : /\ enforcer'[x].at \in {enforcer[x].at, "idle", "told"}
                                /\ enforcer'[x].token => enforcer[x].token
                                /\ enforcer'[x].lease => enforcer[x].lease

LEMMA LeavesForm ==
  ASSUME NEW f \in Crew, NEW e \in Enforcers, V!Leaves(f, e)
  PROVE  /\ enforcer' \in Crew
         /\ enforcer'[e].at \in {"idle", "told"} /\ ~enforcer'[e].token /\ ~enforcer'[e].lease
         /\ \A x \in Enforcers : x # e => enforcer'[x] = f[x]
<1> DEFINE r == IF e = Loop THEN V!Resting ELSE V!Telling
<1>1. r \in Enforcing /\ r.at \in {"idle", "told"} /\ ~r.token /\ ~r.lease
  BY DEF V!Resting, V!Telling, Enforcing, Steps
<1>2. enforcer' = [f EXCEPT ![e] = r]
  BY DEF V!Leaves
<1> HIDE DEF r
<1> QED  BY <1>1, <1>2 DEF Crew

LEMMA OverForm ==
  ASSUME enforcer \in Crew, NEW e \in Enforcers, V!Over(e)
  PROVE  Goes(e, {"idle", "told"})
<1>1. CASE V!Leaves(enforcer, e)
  BY <1>1, LeavesForm DEF Goes
<1>2. CASE V!Rest(e)
  BY <1>2, RestForm DEF Goes
<1> QED  BY <1>1, <1>2 DEF V!Over

\* The types a later step needs.
TypeLess == /\ poll \in {"none"} \cup V!Open \cup V!Terminal
            /\ ballots \subseteq Voters /\ counting \subseteq ballots /\ stale \in BOOLEAN
            /\ ticket \in {"none", "leased", "due", "swept"}
            /\ voteBanned \in BOOLEAN
            /\ votePolicy \in BOOLEAN
            /\ enforcer \in Crew

\* A loop that is cancelled leaves a disagreement to somebody, or it is on record as lost.
LEMMA CancelKeeps ==
  ASSUME V!VoteAssumption, TypeLess, stray \in BOOLEAN, Mistrusted, NEW f \in Crew,
         \A x \in Enforcers : Doubts(x) => f[x] = enforcer[x],
         V!CancelLoop(f), UNCHANGED <<poll, ticket, votePolicy, unban, sweeper>>
  PROVE  Mistrusted'
<1>0. Loop \in Enforcers /\ stray' = (stray \/ (V!CutShort /\ ~V!At(Loop, "retake")
                                               /\ ~V!Heeded /\ voteBanned' # votePolicy))
  BY DEF V!VoteAssumption, V!CancelLoop
<1>1. CASE V!CutShort /\ ~V!At(Loop, "retake")
  <2>1. CASE V!Heeded
    BY <2>1 DEF V!Heeded, Mistrusted, Unwatched
  <2>2. CASE voteBanned' = votePolicy
    BY <2>2 DEF Mistrusted, TypeLess
  <2>3. CASE ~V!Heeded /\ voteBanned' # votePolicy
    BY <1>0, <1>1, <2>3 DEF Mistrusted
  <2> QED  BY <2>1, <2>2, <2>3
<1>2. CASE ~V!CutShort \/ V!At(Loop, "retake")
  <2>1. voteBanned' = voteBanned /\ (stray => stray')
    BY <1>0, <1>2 DEF V!CancelLoop, V!At, V!CutShort, TypeLess
  <2>2. ASSUME NEW x \in Enforcers, Doubts(x)
        PROVE  enforcer'[x] = enforcer[x]
    <3>1. x # Loop \/ ~V!CutShort
      BY <1>2, <2>2 DEF Doubts, V!At
    <3> QED  BY <2>2, <3>1, CancelForm
  <2>3. \A x \in Enforcers : Doubts(x) => Doubts(x)'
    BY <2>2 DEF Doubts, V!At
  <2> QED  BY <2>1, <2>3 DEF Mistrusted, Unwatched
<1> QED  BY <1>1, <1>2

\* The poll opens.
LEMMA HoldsStartPoll ==
  ASSUME V!VoteAssumption, VoteInv, V!StartPoll
  PROVE  VoteInv'
<1>v. /\ V!TypeOK /\ Early /\ NoLeases /\ UnbanHolds /\ Lifting /\ InForce
      /\ Sweeping /\ Mistrusted
      /\ Counted
  BY DEF VoteInv
<1>t. TypeLess
  BY <1>v DEF TypeLess, V!TypeOK, Crew, Enforcing, Steps
<1>f. voteFaults \in Nat /\ MaxVoteFaults \in Nat /\ voteCrashes \in Nat
  BY <1>v DEF V!TypeOK, V!VoteAssumption
<1>e. /\ enforcer' \in Crew
      /\ enforcer' = enforcer
  BY <1>t DEF V!StartPoll, V!targetVars, V!workVars, TypeLess
<1>1. /\ poll' \in {"none"} \cup V!Open \cup V!Terminal
      /\ ticket' \in {"none", "leased", "due", "swept"}
      /\ unban' \in {"idle", "lift", "clear", "restore", "done"}
      /\ sweeper' \in {"idle", "act", "kept", "lifted"} /\ watch' \in {"off", "on", "dead"}
      /\ start' \in {"idle", "send", "withdraw"}
  BY <1>v DEF V!StartPoll, V!targetVars, V!workVars, V!Open, V!Terminal, V!TypeOK
<1>2. ballots' \subseteq Voters /\ counting' \subseteq ballots'
  <2>1. ballots' = {Starter} /\ counting' = {} /\ stale' = stale
    BY <1>v DEF V!StartPoll, V!rowVars, Early
  <2> QED  BY <2>1, <1>v DEF V!VoteAssumption, V!TypeOK
<1>3. /\ stale' \in BOOLEAN /\ voteBanned' \in BOOLEAN /\ votePolicy' \in BOOLEAN
      /\ notify' \in BOOLEAN /\ shown' \in BOOLEAN /\ stray' \in BOOLEAN
  BY <1>v DEF V!StartPoll, V!targetVars, V!workVars, V!Open, V!Terminal, V!TypeOK
<1>4. voteFaults' = voteFaults \/ (voteFaults < MaxVoteFaults /\ voteFaults' = voteFaults + 1)
  BY <1>v DEF V!StartPoll, V!targetVars, V!workVars
<1>5. \/ voteCrashes' = voteCrashes
      \/ voteCrashes < MaxVoteCrashes /\ voteCrashes' = voteCrashes + 1
  BY <1>v DEF V!StartPoll, V!targetVars, V!workVars
<1>6. voteFaults' \in 0..MaxVoteFaults /\ voteCrashes' \in 0..MaxVoteCrashes
  BY <1>v, <1>5, <1>4 DEF V!TypeOK, V!VoteAssumption
<1>7. V!TypeOK'
  BY <1>e, <1>1, <1>2, <1>3, <1>4, <1>5, <1>6 DEF V!TypeOK, Crew, Enforcing, Steps
<1>8. Early'
  BY <1>v, <1>t, <1>e DEF V!StartPoll, V!targetVars, V!workVars, V!At, V!Open, V!Terminal,
     TypeLess,
     Early
<1>9. NoLeases'
  BY <1>v, <1>t, <1>e DEF V!StartPoll, V!targetVars, V!workVars, V!At, V!Open, V!Terminal,
     TypeLess,
     NoLeases, V!Owns
<1>10. UnbanHolds'
  BY <1>v, <1>t, <1>e DEF V!StartPoll, V!targetVars, V!workVars, V!At, V!Open, V!Terminal,
     TypeLess,
     UnbanHolds, NoLeases, V!Owns, Early
<1>11. Lifting'
  BY <1>v, <1>t, <1>e DEF V!StartPoll, V!targetVars, V!workVars, V!At, V!Open, V!Terminal,
     TypeLess,
     Lifting, Early, V!Preserve
<1>12. InForce'
  BY <1>v, <1>t, <1>e DEF V!StartPoll, V!targetVars, V!workVars, V!At, V!Open, V!Terminal,
     TypeLess,
     InForce, NoLeases, V!Owns, Lifting, UnbanHolds
<1>13. Sweeping'
  BY <1>v, <1>t, <1>e DEF V!StartPoll, V!targetVars, V!workVars, V!At, V!Open, V!Terminal,
     TypeLess,
     Sweeping, NoLeases, UnbanHolds, V!Owns
<1>14. Mistrusted'
  BY <1>v, <1>t, <1>e DEF V!StartPoll, V!targetVars, V!workVars, V!At, V!Open, V!Terminal,
     TypeLess,
     Mistrusted, Unwatched, Sweeping, Doubts, Early, UnbanHolds, InForce, V!Owns, NoLeases
<1>15. Counted'
  <2>1. ballots' = {Starter} /\ IsFiniteSet({Starter}) /\ Cardinality({Starter}) = 1
    BY FS_Singleton DEF V!StartPoll
  <2> QED  BY <2>1, SameCardinality DEF Counted, V!ThresholdSeen, V!VoteAssumption
<1> QED
  BY <1>7, <1>8, <1>9, <1>10, <1>11, <1>12, <1>13, <1>14, <1>15 DEF VoteInv

\* Its prompt is sent.
LEMMA HoldsSendPrompt ==
  ASSUME V!VoteAssumption, VoteInv, V!SendPrompt
  PROVE  VoteInv'
<1>v. /\ V!TypeOK /\ Early /\ NoLeases /\ UnbanHolds /\ Lifting /\ InForce
      /\ Sweeping /\ Mistrusted
      /\ Counted
  BY DEF VoteInv
<1>t. TypeLess
  BY <1>v DEF TypeLess, V!TypeOK, Crew, Enforcing, Steps
<1>f. voteFaults \in Nat /\ MaxVoteFaults \in Nat /\ voteCrashes \in Nat
  BY <1>v DEF V!TypeOK, V!VoteAssumption
<1>e. /\ enforcer' \in Crew
      /\ enforcer' = enforcer
  BY <1>t DEF V!SendPrompt, V!Fine, V!Fault, V!rowVars, V!targetVars, V!workVars, TypeLess
<1>1. /\ poll' \in {"none"} \cup V!Open \cup V!Terminal
      /\ ticket' \in {"none", "leased", "due", "swept"}
      /\ unban' \in {"idle", "lift", "clear", "restore", "done"}
      /\ sweeper' \in {"idle", "act", "kept", "lifted"} /\ watch' \in {"off", "on", "dead"}
      /\ start' \in {"idle", "send", "withdraw"}
  BY <1>v DEF V!SendPrompt, V!Fine, V!Fault, V!rowVars, V!targetVars, V!workVars, V!Open,
     V!Terminal, V!TypeOK
<1>2. ballots' \subseteq Voters /\ counting' \subseteq ballots'
  BY <1>v DEF V!SendPrompt, V!Fine, V!Fault, V!rowVars, V!targetVars, V!workVars, V!Open,
     V!Terminal, V!TypeOK
<1>3. /\ stale' \in BOOLEAN /\ voteBanned' \in BOOLEAN /\ votePolicy' \in BOOLEAN
      /\ notify' \in BOOLEAN /\ shown' \in BOOLEAN /\ stray' \in BOOLEAN
  BY <1>v DEF V!SendPrompt, V!Fine, V!Fault, V!rowVars, V!targetVars, V!workVars, V!Open,
     V!Terminal, V!TypeOK
<1>4. voteFaults' = voteFaults \/ (voteFaults < MaxVoteFaults /\ voteFaults' = voteFaults + 1)
  BY <1>v DEF V!SendPrompt, V!Fine, V!Fault, V!rowVars, V!targetVars, V!workVars
<1>5. \/ voteCrashes' = voteCrashes
      \/ voteCrashes < MaxVoteCrashes /\ voteCrashes' = voteCrashes + 1
  BY <1>v DEF V!SendPrompt, V!Fine, V!Fault, V!rowVars, V!targetVars, V!workVars
<1>6. voteFaults' \in 0..MaxVoteFaults /\ voteCrashes' \in 0..MaxVoteCrashes
  BY <1>v, <1>5, <1>4 DEF V!TypeOK, V!VoteAssumption
<1>7. V!TypeOK'
  BY <1>e, <1>1, <1>2, <1>3, <1>4, <1>5, <1>6 DEF V!TypeOK, Crew, Enforcing, Steps
<1>8. Early'
  BY <1>v, <1>t, <1>e DEF V!SendPrompt, V!Fine, V!Fault, V!rowVars, V!targetVars, V!workVars,
     V!At, V!Open,
     V!Terminal, TypeLess, Early
<1>9. NoLeases'
  BY <1>v, <1>t, <1>e DEF V!SendPrompt, V!Fine, V!Fault, V!rowVars, V!targetVars, V!workVars,
     V!At, V!Open,
     V!Terminal, TypeLess, NoLeases, V!Owns
<1>10. UnbanHolds'
  BY <1>v, <1>t, <1>e DEF V!SendPrompt, V!Fine, V!Fault, V!rowVars, V!targetVars, V!workVars,
     V!At, V!Open,
     V!Terminal, TypeLess, UnbanHolds, NoLeases, V!Owns, Early
<1>11. Lifting'
  BY <1>v, <1>t, <1>e DEF V!SendPrompt, V!Fine, V!Fault, V!rowVars, V!targetVars, V!workVars,
     V!At, V!Open,
     V!Terminal, TypeLess, Lifting, Early, V!Preserve
<1>12. InForce'
  BY <1>v, <1>t, <1>e DEF V!SendPrompt, V!Fine, V!Fault, V!rowVars, V!targetVars, V!workVars,
     V!At, V!Open,
     V!Terminal, TypeLess, InForce, NoLeases, V!Owns, Lifting, UnbanHolds
<1>13. Sweeping'
  BY <1>v, <1>t, <1>e DEF V!SendPrompt, V!Fine, V!Fault, V!rowVars, V!targetVars, V!workVars,
     V!At, V!Open,
     V!Terminal, TypeLess, Sweeping, NoLeases, UnbanHolds, V!Owns
<1>14. Mistrusted'
  BY <1>v, <1>t, <1>e DEF V!SendPrompt, V!Fine, V!Fault, V!rowVars, V!targetVars, V!workVars,
     V!At, V!Open,
     V!Terminal, TypeLess, Mistrusted, Unwatched, Sweeping, Doubts, Early, UnbanHolds,
     InForce, V!Owns, NoLeases
<1>15. Counted'
  BY <1>v, <1>t, <1>e, <1>4, <1>5, <1>f DEF V!SendPrompt, V!Fine, V!Fault, V!rowVars,
     V!targetVars,
     V!workVars, V!At, V!Open, V!Terminal, TypeLess, Counted, V!ThresholdSeen
<1> QED
  BY <1>7, <1>8, <1>9, <1>10, <1>11, <1>12, <1>13, <1>14, <1>15 DEF VoteInv

\* A poll without a prompt is withdrawn.
LEMMA HoldsWithdraw ==
  ASSUME V!VoteAssumption, VoteInv, V!Withdraw
  PROVE  VoteInv'
<1>v. /\ V!TypeOK /\ Early /\ NoLeases /\ UnbanHolds /\ Lifting /\ InForce
      /\ Sweeping /\ Mistrusted
      /\ Counted
  BY DEF VoteInv
<1>t. TypeLess
  BY <1>v DEF TypeLess, V!TypeOK, Crew, Enforcing, Steps
<1>f. voteFaults \in Nat /\ MaxVoteFaults \in Nat /\ voteCrashes \in Nat
  BY <1>v DEF V!TypeOK, V!VoteAssumption
<1>e. /\ enforcer' \in Crew
      /\ enforcer' = enforcer
  BY <1>t DEF V!Withdraw, V!Fine, V!Fault, V!targetVars, V!workVars, TypeLess
<1>1. /\ poll' \in {"none"} \cup V!Open \cup V!Terminal
      /\ ticket' \in {"none", "leased", "due", "swept"}
      /\ unban' \in {"idle", "lift", "clear", "restore", "done"}
      /\ sweeper' \in {"idle", "act", "kept", "lifted"} /\ watch' \in {"off", "on", "dead"}
      /\ start' \in {"idle", "send", "withdraw"}
  BY <1>v DEF V!Withdraw, V!Fine, V!Fault, V!targetVars, V!workVars, V!Open, V!Terminal,
     V!TypeOK
<1>2. ballots' \subseteq Voters /\ counting' \subseteq ballots'
  BY <1>v DEF V!Withdraw, V!Fine, V!Fault, V!targetVars, V!workVars, V!Open, V!Terminal,
     V!TypeOK
<1>3. /\ stale' \in BOOLEAN /\ voteBanned' \in BOOLEAN /\ votePolicy' \in BOOLEAN
      /\ notify' \in BOOLEAN /\ shown' \in BOOLEAN /\ stray' \in BOOLEAN
  BY <1>v DEF V!Withdraw, V!Fine, V!Fault, V!targetVars, V!workVars, V!Open, V!Terminal,
     V!TypeOK
<1>4. voteFaults' = voteFaults \/ (voteFaults < MaxVoteFaults /\ voteFaults' = voteFaults + 1)
  BY <1>v DEF V!Withdraw, V!Fine, V!Fault, V!targetVars, V!workVars
<1>5. \/ voteCrashes' = voteCrashes
      \/ voteCrashes < MaxVoteCrashes /\ voteCrashes' = voteCrashes + 1
  BY <1>v DEF V!Withdraw, V!Fine, V!Fault, V!targetVars, V!workVars
<1>6. voteFaults' \in 0..MaxVoteFaults /\ voteCrashes' \in 0..MaxVoteCrashes
  BY <1>v, <1>5, <1>4 DEF V!TypeOK, V!VoteAssumption
<1>7. V!TypeOK'
  BY <1>e, <1>1, <1>2, <1>3, <1>4, <1>5, <1>6 DEF V!TypeOK, Crew, Enforcing, Steps
<1>8. Early'
  BY <1>v, <1>t, <1>e DEF V!Withdraw, V!Fine, V!Fault, V!targetVars, V!workVars, V!At, V!Open,
     V!Terminal,
     TypeLess, Early
<1>9. NoLeases'
  BY <1>v, <1>t, <1>e DEF V!Withdraw, V!Fine, V!Fault, V!targetVars, V!workVars, V!At, V!Open,
     V!Terminal,
     TypeLess, NoLeases, V!Owns
<1>10. UnbanHolds'
  BY <1>v, <1>t, <1>e DEF V!Withdraw, V!Fine, V!Fault, V!targetVars, V!workVars, V!At, V!Open,
     V!Terminal,
     TypeLess, UnbanHolds, NoLeases, V!Owns, Early
<1>11. Lifting'
  BY <1>v, <1>t, <1>e DEF V!Withdraw, V!Fine, V!Fault, V!targetVars, V!workVars, V!At, V!Open,
     V!Terminal,
     TypeLess, Lifting, Early, V!Preserve
<1>12. InForce'
  BY <1>v, <1>t, <1>e DEF V!Withdraw, V!Fine, V!Fault, V!targetVars, V!workVars, V!At, V!Open,
     V!Terminal,
     TypeLess, InForce, NoLeases, V!Owns, Lifting, UnbanHolds
<1>13. Sweeping'
  BY <1>v, <1>t, <1>e DEF V!Withdraw, V!Fine, V!Fault, V!targetVars, V!workVars, V!At, V!Open,
     V!Terminal,
     TypeLess, Sweeping, NoLeases, UnbanHolds, V!Owns
<1>14. Mistrusted'
  BY <1>v, <1>t, <1>e DEF V!Withdraw, V!Fine, V!Fault, V!targetVars, V!workVars, V!At, V!Open,
     V!Terminal,
     TypeLess, Mistrusted, Unwatched, Sweeping, Doubts, Early, UnbanHolds, InForce, V!Owns,
     NoLeases
<1>15. Counted'
  BY <1>v, <1>t, <1>e, <1>4, <1>5, <1>f DEF V!Withdraw, V!Fine, V!Fault, V!targetVars,
     V!workVars, V!At,
     V!Open, V!Terminal, TypeLess, Counted, V!ThresholdSeen
<1> QED
  BY <1>7, <1>8, <1>9, <1>10, <1>11, <1>12, <1>13, <1>14, <1>15 DEF VoteInv

\* A ballot is cast.
LEMMA HoldsCastBallot ==
  ASSUME V!VoteAssumption, VoteInv, NEW v \in Voters, V!CastBallot(v)
  PROVE  VoteInv'
<1>v. /\ V!TypeOK /\ Early /\ NoLeases /\ UnbanHolds /\ Lifting /\ InForce
      /\ Sweeping /\ Mistrusted
      /\ Counted
  BY DEF VoteInv
<1>t. TypeLess
  BY <1>v DEF TypeLess, V!TypeOK, Crew, Enforcing, Steps
<1>f. voteFaults \in Nat /\ MaxVoteFaults \in Nat /\ voteCrashes \in Nat
  BY <1>v DEF V!TypeOK, V!VoteAssumption
<1>e. /\ enforcer' \in Crew
      /\ enforcer' = enforcer
  BY <1>t DEF V!CastBallot, V!Pressed, V!targetVars, V!workVars, TypeLess
<1>1. /\ poll' \in {"none"} \cup V!Open \cup V!Terminal
      /\ ticket' \in {"none", "leased", "due", "swept"}
      /\ unban' \in {"idle", "lift", "clear", "restore", "done"}
      /\ sweeper' \in {"idle", "act", "kept", "lifted"} /\ watch' \in {"off", "on", "dead"}
      /\ start' \in {"idle", "send", "withdraw"}
  BY <1>v DEF V!CastBallot, V!Pressed, V!targetVars, V!workVars, V!Open, V!Terminal, V!TypeOK
<1>2. ballots' \subseteq Voters /\ counting' \subseteq ballots'
  BY <1>v DEF V!CastBallot, V!Pressed, V!targetVars, V!workVars, V!Open, V!Terminal, V!TypeOK
<1>3. /\ stale' \in BOOLEAN /\ voteBanned' \in BOOLEAN /\ votePolicy' \in BOOLEAN
      /\ notify' \in BOOLEAN /\ shown' \in BOOLEAN /\ stray' \in BOOLEAN
  BY <1>v DEF V!CastBallot, V!Pressed, V!targetVars, V!workVars, V!Open, V!Terminal, V!TypeOK
<1>4. voteFaults' = voteFaults \/ (voteFaults < MaxVoteFaults /\ voteFaults' = voteFaults + 1)
  BY <1>v DEF V!CastBallot, V!Pressed, V!targetVars, V!workVars
<1>5. \/ voteCrashes' = voteCrashes
      \/ voteCrashes < MaxVoteCrashes /\ voteCrashes' = voteCrashes + 1
  BY <1>v DEF V!CastBallot, V!Pressed, V!targetVars, V!workVars
<1>6. voteFaults' \in 0..MaxVoteFaults /\ voteCrashes' \in 0..MaxVoteCrashes
  BY <1>v, <1>5, <1>4 DEF V!TypeOK, V!VoteAssumption
<1>7. V!TypeOK'
  BY <1>e, <1>1, <1>2, <1>3, <1>4, <1>5, <1>6 DEF V!TypeOK, Crew, Enforcing, Steps
<1>8. Early'
  BY <1>v, <1>t, <1>e DEF V!CastBallot, V!Pressed, V!targetVars, V!workVars, V!At, V!Open,
     V!Terminal,
     TypeLess, Early
<1>9. NoLeases'
  BY <1>v, <1>t, <1>e DEF V!CastBallot, V!Pressed, V!targetVars, V!workVars, V!At, V!Open,
     V!Terminal,
     TypeLess, NoLeases, V!Owns
<1>10. UnbanHolds'
  BY <1>v, <1>t, <1>e DEF V!CastBallot, V!Pressed, V!targetVars, V!workVars, V!At, V!Open,
     V!Terminal,
     TypeLess, UnbanHolds, NoLeases, V!Owns, Early
<1>11. Lifting'
  BY <1>v, <1>t, <1>e DEF V!CastBallot, V!Pressed, V!targetVars, V!workVars, V!At, V!Open,
     V!Terminal,
     TypeLess, Lifting, Early, V!Preserve
<1>12. InForce'
  BY <1>v, <1>t, <1>e DEF V!CastBallot, V!Pressed, V!targetVars, V!workVars, V!At, V!Open,
     V!Terminal,
     TypeLess, InForce, NoLeases, V!Owns, Lifting, UnbanHolds
<1>13. Sweeping'
  BY <1>v, <1>t, <1>e DEF V!CastBallot, V!Pressed, V!targetVars, V!workVars, V!At, V!Open,
     V!Terminal,
     TypeLess, Sweeping, NoLeases, UnbanHolds, V!Owns
<1>14. Mistrusted'
  BY <1>v, <1>t, <1>e DEF V!CastBallot, V!Pressed, V!targetVars, V!workVars, V!At, V!Open,
     V!Terminal,
     TypeLess, Mistrusted, Unwatched, Sweeping, Doubts, Early, UnbanHolds, InForce, V!Owns,
     NoLeases
<1>15. Counted'
  <2>1. ballots' = ballots \cup {v} /\ v \in counting'
    BY DEF V!CastBallot
  <2>2. IsFiniteSet(ballots')
    BY <1>v, <2>1, FS_AddElement DEF Counted
  <2> QED  BY <2>1, <2>2 DEF Counted, V!ThresholdSeen
<1> QED
  BY <1>7, <1>8, <1>9, <1>10, <1>11, <1>12, <1>13, <1>14, <1>15 DEF VoteInv

\* The ballots are counted.
LEMMA HoldsDecide ==
  ASSUME V!VoteAssumption, VoteInv, NEW e \in Enforcers, NEW v \in Voters, V!Decide(e, v)
  PROVE  VoteInv'
<1>v. /\ V!TypeOK /\ Early /\ NoLeases /\ UnbanHolds /\ Lifting /\ InForce
      /\ Sweeping /\ Mistrusted
      /\ Counted
  BY DEF VoteInv
<1>t. TypeLess
  BY <1>v DEF TypeLess, V!TypeOK, Crew, Enforcing, Steps
<1>f. voteFaults \in Nat /\ MaxVoteFaults \in Nat /\ voteCrashes \in Nat
  BY <1>v DEF V!TypeOK, V!VoteAssumption
<1>e. /\ enforcer' \in Crew
      /\ \/ Takes(e)
         \/ UNCHANGED <<poll, stale, ticket, enforcer>>
  <2>1. CASE V!ClaimEnforcing(e, "own")
    BY <1>t, <2>1, Claimed DEF V!Decide, TypeLess
  <2>2. CASE UNCHANGED <<poll, stale, ticket, enforcer>>
    BY <1>t, <2>2 DEF TypeLess
  <2> QED  BY <2>1, <2>2 DEF V!Decide
<1>1. /\ poll' \in {"none"} \cup V!Open \cup V!Terminal
      /\ ticket' \in {"none", "leased", "due", "swept"}
      /\ unban' \in {"idle", "lift", "clear", "restore", "done"}
      /\ sweeper' \in {"idle", "act", "kept", "lifted"} /\ watch' \in {"off", "on", "dead"}
      /\ start' \in {"idle", "send", "withdraw"}
  BY <1>v DEF V!Decide, V!At, V!ClaimEnforcing, V!Open, V!Terminal, V!TypeOK
<1>2. ballots' \subseteq Voters /\ counting' \subseteq ballots'
  BY <1>v DEF V!Decide, V!At, V!ClaimEnforcing, V!Open, V!Terminal, V!TypeOK
<1>3. /\ stale' \in BOOLEAN /\ voteBanned' \in BOOLEAN /\ votePolicy' \in BOOLEAN
      /\ notify' \in BOOLEAN /\ shown' \in BOOLEAN /\ stray' \in BOOLEAN
  BY <1>v DEF V!Decide, V!At, V!ClaimEnforcing, V!Open, V!Terminal, V!TypeOK
<1>4. voteFaults' = voteFaults \/ (voteFaults < MaxVoteFaults /\ voteFaults' = voteFaults + 1)
  BY <1>v DEF V!Decide, V!At, V!ClaimEnforcing
<1>5. \/ voteCrashes' = voteCrashes
      \/ voteCrashes < MaxVoteCrashes /\ voteCrashes' = voteCrashes + 1
  BY <1>v DEF V!Decide, V!At, V!ClaimEnforcing
<1>6. voteFaults' \in 0..MaxVoteFaults /\ voteCrashes' \in 0..MaxVoteCrashes
  BY <1>v, <1>5, <1>4 DEF V!TypeOK, V!VoteAssumption
<1>7. V!TypeOK'
  BY <1>e, <1>1, <1>2, <1>3, <1>4, <1>5, <1>6 DEF V!TypeOK, Crew, Enforcing, Steps
<1>8. Early'
  BY <1>v, <1>t, <1>e DEF V!Decide, V!At, V!ClaimEnforcing, V!Open, V!Terminal, TypeLess,
     Takes, Early
<1>9. NoLeases'
  BY <1>v, <1>t, <1>e DEF V!Decide, V!At, V!ClaimEnforcing, V!Open, V!Terminal, TypeLess,
     Takes,
     NoLeases, V!Owns
<1>10. UnbanHolds'
  BY <1>v, <1>t, <1>e DEF V!Decide, V!At, V!ClaimEnforcing, V!Open, V!Terminal, TypeLess,
     Takes,
     UnbanHolds, NoLeases, V!Owns, Early
<1>11. Lifting'
  BY <1>v, <1>t, <1>e DEF V!Decide, V!At, V!ClaimEnforcing, V!Open, V!Terminal, TypeLess,
     Takes,
     Lifting, Early, V!Preserve
<1>12. InForce'
  BY <1>v, <1>t, <1>e DEF V!Decide, V!At, V!ClaimEnforcing, V!Open, V!Terminal, TypeLess,
     Takes,
     InForce, NoLeases, V!Owns, Lifting, UnbanHolds
<1>13. Sweeping'
  BY <1>v, <1>t, <1>e DEF V!Decide, V!At, V!ClaimEnforcing, V!Open, V!Terminal, TypeLess,
     Takes,
     Sweeping, NoLeases, UnbanHolds, V!Owns
<1>14. Mistrusted'
  BY <1>v, <1>t, <1>e DEF V!Decide, V!At, V!ClaimEnforcing, V!Open, V!Terminal, TypeLess,
     Takes,
     Mistrusted, Unwatched, Sweeping, Doubts, Early, UnbanHolds, InForce, V!Owns, NoLeases
<1>15. Counted'
  <2>1. Cardinality(ballots) \in Nat /\ Threshold \in Nat
    BY <1>v, FS_CardinalityType DEF Counted, V!VoteAssumption
  <2>2. ballots' = ballots /\ voteFaults' = voteFaults /\ voteCrashes' = voteCrashes
    BY DEF V!Decide
  <2>3. CASE poll = "active" /\ Cardinality(ballots) >= Threshold
    <3>1. poll' = "enforcing"
      BY <2>3, SameCardinality DEF V!Decide, V!ClaimEnforcing
    <3> QED  BY <1>v, <2>2, <3>1 DEF Counted, V!ThresholdSeen
  <2>4. CASE ~(poll = "active" /\ Cardinality(ballots) >= Threshold)
    <3>1. poll' = poll
      BY <2>4, SameCardinality DEF V!Decide
    <3> QED  BY <1>v, <2>1, <2>2, <2>4, <3>1, SameCardinality DEF Counted, V!ThresholdSeen
  <2> QED  BY <2>3, <2>4
<1> QED
  BY <1>7, <1>8, <1>9, <1>10, <1>11, <1>12, <1>13, <1>14, <1>15 DEF VoteInv

\* A count fails.
LEMMA HoldsRefuse ==
  ASSUME V!VoteAssumption, VoteInv, NEW v \in Voters, V!Refuse(v)
  PROVE  VoteInv'
<1>v. /\ V!TypeOK /\ Early /\ NoLeases /\ UnbanHolds /\ Lifting /\ InForce
      /\ Sweeping /\ Mistrusted
      /\ Counted
  BY DEF VoteInv
<1>t. TypeLess
  BY <1>v DEF TypeLess, V!TypeOK, Crew, Enforcing, Steps
<1>f. voteFaults \in Nat /\ MaxVoteFaults \in Nat /\ voteCrashes \in Nat
  BY <1>v DEF V!TypeOK, V!VoteAssumption
<1>e. /\ enforcer' \in Crew
      /\ enforcer' = enforcer
  BY <1>t DEF V!Refuse, V!Fault, V!targetVars, V!workVars, TypeLess
<1>1. /\ poll' \in {"none"} \cup V!Open \cup V!Terminal
      /\ ticket' \in {"none", "leased", "due", "swept"}
      /\ unban' \in {"idle", "lift", "clear", "restore", "done"}
      /\ sweeper' \in {"idle", "act", "kept", "lifted"} /\ watch' \in {"off", "on", "dead"}
      /\ start' \in {"idle", "send", "withdraw"}
  BY <1>v DEF V!Refuse, V!Fault, V!targetVars, V!workVars, V!Open, V!Terminal, V!TypeOK
<1>2. ballots' \subseteq Voters /\ counting' \subseteq ballots'
  BY <1>v DEF V!Refuse, V!Fault, V!targetVars, V!workVars, V!Open, V!Terminal, V!TypeOK
<1>3. /\ stale' \in BOOLEAN /\ voteBanned' \in BOOLEAN /\ votePolicy' \in BOOLEAN
      /\ notify' \in BOOLEAN /\ shown' \in BOOLEAN /\ stray' \in BOOLEAN
  BY <1>v DEF V!Refuse, V!Fault, V!targetVars, V!workVars, V!Open, V!Terminal, V!TypeOK
<1>4. voteFaults' = voteFaults \/ (voteFaults < MaxVoteFaults /\ voteFaults' = voteFaults + 1)
  BY <1>v DEF V!Refuse, V!Fault, V!targetVars, V!workVars
<1>5. \/ voteCrashes' = voteCrashes
      \/ voteCrashes < MaxVoteCrashes /\ voteCrashes' = voteCrashes + 1
  BY <1>v DEF V!Refuse, V!Fault, V!targetVars, V!workVars
<1>6. voteFaults' \in 0..MaxVoteFaults /\ voteCrashes' \in 0..MaxVoteCrashes
  BY <1>v, <1>5, <1>4 DEF V!TypeOK, V!VoteAssumption
<1>7. V!TypeOK'
  BY <1>e, <1>1, <1>2, <1>3, <1>4, <1>5, <1>6 DEF V!TypeOK, Crew, Enforcing, Steps
<1>8. Early'
  BY <1>v, <1>t, <1>e DEF V!Refuse, V!Fault, V!targetVars, V!workVars, V!At, V!Open,
     V!Terminal, TypeLess,
     Early
<1>9. NoLeases'
  BY <1>v, <1>t, <1>e DEF V!Refuse, V!Fault, V!targetVars, V!workVars, V!At, V!Open,
     V!Terminal, TypeLess,
     NoLeases, V!Owns
<1>10. UnbanHolds'
  BY <1>v, <1>t, <1>e DEF V!Refuse, V!Fault, V!targetVars, V!workVars, V!At, V!Open,
     V!Terminal, TypeLess,
     UnbanHolds, NoLeases, V!Owns, Early
<1>11. Lifting'
  BY <1>v, <1>t, <1>e DEF V!Refuse, V!Fault, V!targetVars, V!workVars, V!At, V!Open,
     V!Terminal, TypeLess,
     Lifting, Early, V!Preserve
<1>12. InForce'
  BY <1>v, <1>t, <1>e DEF V!Refuse, V!Fault, V!targetVars, V!workVars, V!At, V!Open,
     V!Terminal, TypeLess,
     InForce, NoLeases, V!Owns, Lifting, UnbanHolds
<1>13. Sweeping'
  BY <1>v, <1>t, <1>e DEF V!Refuse, V!Fault, V!targetVars, V!workVars, V!At, V!Open,
     V!Terminal, TypeLess,
     Sweeping, NoLeases, UnbanHolds, V!Owns
<1>14. Mistrusted'
  BY <1>v, <1>t, <1>e DEF V!Refuse, V!Fault, V!targetVars, V!workVars, V!At, V!Open,
     V!Terminal, TypeLess,
     Mistrusted, Unwatched, Sweeping, Doubts, Early, UnbanHolds, InForce, V!Owns, NoLeases
<1>15. Counted'
  BY <1>v, <1>t, <1>e, <1>4, <1>5, <1>f DEF V!Refuse, V!Fault, V!targetVars, V!workVars, V!At,
     V!Open,
     V!Terminal, TypeLess, Counted, V!ThresholdSeen
<1> QED
  BY <1>7, <1>8, <1>9, <1>10, <1>11, <1>12, <1>13, <1>14, <1>15 DEF VoteInv

\* An administrator bans,
LEMMA HoldsAdminBan ==
  ASSUME V!VoteAssumption, VoteInv, NEW e \in Enforcers, V!AdminBan(e)
  PROVE  VoteInv'
<1>v. /\ V!TypeOK /\ Early /\ NoLeases /\ UnbanHolds /\ Lifting /\ InForce
      /\ Sweeping /\ Mistrusted
      /\ Counted
  BY DEF VoteInv
<1>t. TypeLess
  BY <1>v DEF TypeLess, V!TypeOK, Crew, Enforcing, Steps
<1>f. voteFaults \in Nat /\ MaxVoteFaults \in Nat /\ voteCrashes \in Nat
  BY <1>v DEF V!TypeOK, V!VoteAssumption
<1>e. /\ enforcer' \in Crew
      /\ \/ Takes(e)
         \/ UNCHANGED <<poll, stale, ticket, enforcer>>
  BY <1>t, Claimed DEF V!AdminBan, V!At, V!Pressed, V!ClaimEnforcing, TypeLess
<1>1. /\ poll' \in {"none"} \cup V!Open \cup V!Terminal
      /\ ticket' \in {"none", "leased", "due", "swept"}
      /\ unban' \in {"idle", "lift", "clear", "restore", "done"}
      /\ sweeper' \in {"idle", "act", "kept", "lifted"} /\ watch' \in {"off", "on", "dead"}
      /\ start' \in {"idle", "send", "withdraw"}
  BY <1>v DEF V!AdminBan, V!At, V!Pressed, V!ClaimEnforcing, V!Open, V!Terminal, V!TypeOK
<1>2. ballots' \subseteq Voters /\ counting' \subseteq ballots'
  BY <1>v DEF V!AdminBan, V!At, V!Pressed, V!ClaimEnforcing, V!Open, V!Terminal, V!TypeOK
<1>3. /\ stale' \in BOOLEAN /\ voteBanned' \in BOOLEAN /\ votePolicy' \in BOOLEAN
      /\ notify' \in BOOLEAN /\ shown' \in BOOLEAN /\ stray' \in BOOLEAN
  BY <1>v DEF V!AdminBan, V!At, V!Pressed, V!ClaimEnforcing, V!Open, V!Terminal, V!TypeOK
<1>4. voteFaults' = voteFaults \/ (voteFaults < MaxVoteFaults /\ voteFaults' = voteFaults + 1)
  BY <1>v DEF V!AdminBan, V!At, V!Pressed, V!ClaimEnforcing
<1>5. \/ voteCrashes' = voteCrashes
      \/ voteCrashes < MaxVoteCrashes /\ voteCrashes' = voteCrashes + 1
  BY <1>v DEF V!AdminBan, V!At, V!Pressed, V!ClaimEnforcing
<1>6. voteFaults' \in 0..MaxVoteFaults /\ voteCrashes' \in 0..MaxVoteCrashes
  BY <1>v, <1>5, <1>4 DEF V!TypeOK, V!VoteAssumption
<1>7. V!TypeOK'
  BY <1>e, <1>1, <1>2, <1>3, <1>4, <1>5, <1>6 DEF V!TypeOK, Crew, Enforcing, Steps
<1>8. Early'
  BY <1>v, <1>t, <1>e DEF V!AdminBan, V!At, V!Pressed, V!ClaimEnforcing, V!Open, V!Terminal,
     TypeLess,
     Takes, Early
<1>9. NoLeases'
  BY <1>v, <1>t, <1>e DEF V!AdminBan, V!At, V!Pressed, V!ClaimEnforcing, V!Open, V!Terminal,
     TypeLess,
     Takes, NoLeases, V!Owns
<1>10. UnbanHolds'
  BY <1>v, <1>t, <1>e DEF V!AdminBan, V!At, V!Pressed, V!ClaimEnforcing, V!Open, V!Terminal,
     TypeLess,
     Takes, UnbanHolds, NoLeases, V!Owns, Early
<1>11. Lifting'
  BY <1>v, <1>t, <1>e DEF V!AdminBan, V!At, V!Pressed, V!ClaimEnforcing, V!Open, V!Terminal,
     TypeLess,
     Takes, Lifting, Early, V!Preserve
<1>12. InForce'
  BY <1>v, <1>t, <1>e DEF V!AdminBan, V!At, V!Pressed, V!ClaimEnforcing, V!Open, V!Terminal,
     TypeLess,
     Takes, InForce, NoLeases, V!Owns, Lifting, UnbanHolds
<1>13. Sweeping'
  BY <1>v, <1>t, <1>e DEF V!AdminBan, V!At, V!Pressed, V!ClaimEnforcing, V!Open, V!Terminal,
     TypeLess,
     Takes, Sweeping, NoLeases, UnbanHolds, V!Owns
<1>14. Mistrusted'
  BY <1>v, <1>t, <1>e DEF V!AdminBan, V!At, V!Pressed, V!ClaimEnforcing, V!Open, V!Terminal,
     TypeLess,
     Takes, Mistrusted, Unwatched, Sweeping, Doubts, Early, UnbanHolds, InForce, V!Owns,
     NoLeases
<1>15. Counted'
  BY <1>v, <1>t, <1>e, <1>4, <1>5, <1>f DEF V!AdminBan, V!At, V!Pressed, V!ClaimEnforcing,
     V!Open,
     V!Terminal, TypeLess, Takes, Counted, V!ThresholdSeen
<1> QED
  BY <1>7, <1>8, <1>9, <1>10, <1>11, <1>12, <1>13, <1>14, <1>15 DEF VoteInv

\* or cancels.
LEMMA HoldsAdminCancel ==
  ASSUME V!VoteAssumption, VoteInv, V!AdminCancel
  PROVE  VoteInv'
<1>v. /\ V!TypeOK /\ Early /\ NoLeases /\ UnbanHolds /\ Lifting /\ InForce
      /\ Sweeping /\ Mistrusted
      /\ Counted
  BY DEF VoteInv
<1>t. TypeLess
  BY <1>v DEF TypeLess, V!TypeOK, Crew, Enforcing, Steps
<1>f. voteFaults \in Nat /\ MaxVoteFaults \in Nat /\ voteCrashes \in Nat
  BY <1>v DEF V!TypeOK, V!VoteAssumption
<1>e. /\ enforcer' \in Crew
      /\ enforcer' = enforcer
  BY <1>t DEF V!AdminCancel, V!Pressed, V!Close, V!targetVars, V!workVars, TypeLess
<1>1. /\ poll' \in {"none"} \cup V!Open \cup V!Terminal
      /\ ticket' \in {"none", "leased", "due", "swept"}
      /\ unban' \in {"idle", "lift", "clear", "restore", "done"}
      /\ sweeper' \in {"idle", "act", "kept", "lifted"} /\ watch' \in {"off", "on", "dead"}
      /\ start' \in {"idle", "send", "withdraw"}
  BY <1>v DEF V!AdminCancel, V!Pressed, V!Close, V!targetVars, V!workVars, V!Open, V!Terminal,
     V!TypeOK
<1>2. ballots' \subseteq Voters /\ counting' \subseteq ballots'
  BY <1>v DEF V!AdminCancel, V!Pressed, V!Close, V!targetVars, V!workVars, V!Open, V!Terminal,
     V!TypeOK
<1>3. /\ stale' \in BOOLEAN /\ voteBanned' \in BOOLEAN /\ votePolicy' \in BOOLEAN
      /\ notify' \in BOOLEAN /\ shown' \in BOOLEAN /\ stray' \in BOOLEAN
  BY <1>v DEF V!AdminCancel, V!Pressed, V!Close, V!targetVars, V!workVars, V!Open, V!Terminal,
     V!TypeOK
<1>4. voteFaults' = voteFaults \/ (voteFaults < MaxVoteFaults /\ voteFaults' = voteFaults + 1)
  BY <1>v DEF V!AdminCancel, V!Pressed, V!Close, V!targetVars, V!workVars
<1>5. \/ voteCrashes' = voteCrashes
      \/ voteCrashes < MaxVoteCrashes /\ voteCrashes' = voteCrashes + 1
  BY <1>v DEF V!AdminCancel, V!Pressed, V!Close, V!targetVars, V!workVars
<1>6. voteFaults' \in 0..MaxVoteFaults /\ voteCrashes' \in 0..MaxVoteCrashes
  BY <1>v, <1>5, <1>4 DEF V!TypeOK, V!VoteAssumption
<1>7. V!TypeOK'
  BY <1>e, <1>1, <1>2, <1>3, <1>4, <1>5, <1>6 DEF V!TypeOK, Crew, Enforcing, Steps
<1>8. Early'
  BY <1>v, <1>t, <1>e DEF V!AdminCancel, V!Pressed, V!Close, V!targetVars, V!workVars, V!At,
     V!Open,
     V!Terminal, TypeLess, Early
<1>9. NoLeases'
  BY <1>v, <1>t, <1>e DEF V!AdminCancel, V!Pressed, V!Close, V!targetVars, V!workVars, V!At,
     V!Open,
     V!Terminal, TypeLess, NoLeases, V!Owns
<1>10. UnbanHolds'
  BY <1>v, <1>t, <1>e DEF V!AdminCancel, V!Pressed, V!Close, V!targetVars, V!workVars, V!At,
     V!Open,
     V!Terminal, TypeLess, UnbanHolds, NoLeases, V!Owns, Early
<1>11. Lifting'
  BY <1>v, <1>t, <1>e DEF V!AdminCancel, V!Pressed, V!Close, V!targetVars, V!workVars, V!At,
     V!Open,
     V!Terminal, TypeLess, Lifting, Early, V!Preserve
<1>12. InForce'
  BY <1>v, <1>t, <1>e DEF V!AdminCancel, V!Pressed, V!Close, V!targetVars, V!workVars, V!At,
     V!Open,
     V!Terminal, TypeLess, InForce, NoLeases, V!Owns, Lifting, UnbanHolds
<1>13. Sweeping'
  BY <1>v, <1>t, <1>e DEF V!AdminCancel, V!Pressed, V!Close, V!targetVars, V!workVars, V!At,
     V!Open,
     V!Terminal, TypeLess, Sweeping, NoLeases, UnbanHolds, V!Owns
<1>14. Mistrusted'
  BY <1>v, <1>t, <1>e DEF V!AdminCancel, V!Pressed, V!Close, V!targetVars, V!workVars, V!At,
     V!Open,
     V!Terminal, TypeLess, Mistrusted, Unwatched, Sweeping, Doubts, Early, UnbanHolds,
     InForce, V!Owns, NoLeases
<1>15. Counted'
  BY <1>v, <1>t, <1>e, <1>4, <1>5, <1>f DEF V!AdminCancel, V!Pressed, V!Close, V!targetVars,
     V!workVars, V!At, V!Open, V!Terminal, TypeLess, Counted, V!ThresholdSeen
<1> QED
  BY <1>7, <1>8, <1>9, <1>10, <1>11, <1>12, <1>13, <1>14, <1>15 DEF VoteInv

\* The deadline passes.
LEMMA HoldsExpire ==
  ASSUME V!VoteAssumption, VoteInv, V!Expire
  PROVE  VoteInv'
<1>v. /\ V!TypeOK /\ Early /\ NoLeases /\ UnbanHolds /\ Lifting /\ InForce
      /\ Sweeping /\ Mistrusted
      /\ Counted
  BY DEF VoteInv
<1>t. TypeLess
  BY <1>v DEF TypeLess, V!TypeOK, Crew, Enforcing, Steps
<1>f. voteFaults \in Nat /\ MaxVoteFaults \in Nat /\ voteCrashes \in Nat
  BY <1>v DEF V!TypeOK, V!VoteAssumption
<1>e. /\ enforcer' \in Crew
      /\ enforcer' = enforcer
  BY <1>t DEF V!Expire, V!Close, V!targetVars, V!workVars, TypeLess
<1>1. /\ poll' \in {"none"} \cup V!Open \cup V!Terminal
      /\ ticket' \in {"none", "leased", "due", "swept"}
      /\ unban' \in {"idle", "lift", "clear", "restore", "done"}
      /\ sweeper' \in {"idle", "act", "kept", "lifted"} /\ watch' \in {"off", "on", "dead"}
      /\ start' \in {"idle", "send", "withdraw"}
  BY <1>v DEF V!Expire, V!Close, V!targetVars, V!workVars, V!Open, V!Terminal, V!TypeOK
<1>2. ballots' \subseteq Voters /\ counting' \subseteq ballots'
  BY <1>v DEF V!Expire, V!Close, V!targetVars, V!workVars, V!Open, V!Terminal, V!TypeOK
<1>3. /\ stale' \in BOOLEAN /\ voteBanned' \in BOOLEAN /\ votePolicy' \in BOOLEAN
      /\ notify' \in BOOLEAN /\ shown' \in BOOLEAN /\ stray' \in BOOLEAN
  BY <1>v DEF V!Expire, V!Close, V!targetVars, V!workVars, V!Open, V!Terminal, V!TypeOK
<1>4. voteFaults' = voteFaults \/ (voteFaults < MaxVoteFaults /\ voteFaults' = voteFaults + 1)
  BY <1>v DEF V!Expire, V!Close, V!targetVars, V!workVars
<1>5. \/ voteCrashes' = voteCrashes
      \/ voteCrashes < MaxVoteCrashes /\ voteCrashes' = voteCrashes + 1
  BY <1>v DEF V!Expire, V!Close, V!targetVars, V!workVars
<1>6. voteFaults' \in 0..MaxVoteFaults /\ voteCrashes' \in 0..MaxVoteCrashes
  BY <1>v, <1>5, <1>4 DEF V!TypeOK, V!VoteAssumption
<1>7. V!TypeOK'
  BY <1>e, <1>1, <1>2, <1>3, <1>4, <1>5, <1>6 DEF V!TypeOK, Crew, Enforcing, Steps
<1>8. Early'
  BY <1>v, <1>t, <1>e DEF V!Expire, V!Close, V!targetVars, V!workVars, V!At, V!Open,
     V!Terminal, TypeLess,
     Early
<1>9. NoLeases'
  BY <1>v, <1>t, <1>e DEF V!Expire, V!Close, V!targetVars, V!workVars, V!At, V!Open,
     V!Terminal, TypeLess,
     NoLeases, V!Owns
<1>10. UnbanHolds'
  BY <1>v, <1>t, <1>e DEF V!Expire, V!Close, V!targetVars, V!workVars, V!At, V!Open,
     V!Terminal, TypeLess,
     UnbanHolds, NoLeases, V!Owns, Early
<1>11. Lifting'
  BY <1>v, <1>t, <1>e DEF V!Expire, V!Close, V!targetVars, V!workVars, V!At, V!Open,
     V!Terminal, TypeLess,
     Lifting, Early, V!Preserve
<1>12. InForce'
  BY <1>v, <1>t, <1>e DEF V!Expire, V!Close, V!targetVars, V!workVars, V!At, V!Open,
     V!Terminal, TypeLess,
     InForce, NoLeases, V!Owns, Lifting, UnbanHolds
<1>13. Sweeping'
  BY <1>v, <1>t, <1>e DEF V!Expire, V!Close, V!targetVars, V!workVars, V!At, V!Open,
     V!Terminal, TypeLess,
     Sweeping, NoLeases, UnbanHolds, V!Owns
<1>14. Mistrusted'
  BY <1>v, <1>t, <1>e DEF V!Expire, V!Close, V!targetVars, V!workVars, V!At, V!Open,
     V!Terminal, TypeLess,
     Mistrusted, Unwatched, Sweeping, Doubts, Early, UnbanHolds, InForce, V!Owns, NoLeases
<1>15. Counted'
  BY <1>v, <1>t, <1>e, <1>4, <1>5, <1>f DEF V!Expire, V!Close, V!targetVars, V!workVars, V!At,
     V!Open,
     V!Terminal, TypeLess, Counted, V!ThresholdSeen
<1> QED
  BY <1>7, <1>8, <1>9, <1>10, <1>11, <1>12, <1>13, <1>14, <1>15 DEF VoteInv

\* A lease ages.
LEMMA HoldsLeaseAges ==
  ASSUME V!VoteAssumption, VoteInv, V!LeaseAges
  PROVE  VoteInv'
<1>v. /\ V!TypeOK /\ Early /\ NoLeases /\ UnbanHolds /\ Lifting /\ InForce
      /\ Sweeping /\ Mistrusted
      /\ Counted
  BY DEF VoteInv
<1>t. TypeLess
  BY <1>v DEF TypeLess, V!TypeOK, Crew, Enforcing, Steps
<1>f. voteFaults \in Nat /\ MaxVoteFaults \in Nat /\ voteCrashes \in Nat
  BY <1>v DEF V!TypeOK, V!VoteAssumption
<1>e. /\ enforcer' \in Crew
      /\ enforcer' = enforcer
  BY <1>t DEF V!LeaseAges, V!Outlasted, V!Fault, V!Fine, V!targetVars, V!workVars, TypeLess
<1>1. /\ poll' \in {"none"} \cup V!Open \cup V!Terminal
      /\ ticket' \in {"none", "leased", "due", "swept"}
      /\ unban' \in {"idle", "lift", "clear", "restore", "done"}
      /\ sweeper' \in {"idle", "act", "kept", "lifted"} /\ watch' \in {"off", "on", "dead"}
      /\ start' \in {"idle", "send", "withdraw"}
  BY <1>v DEF V!LeaseAges, V!Outlasted, V!Fault, V!Fine, V!targetVars, V!workVars, V!Open,
     V!Terminal, V!TypeOK
<1>2. ballots' \subseteq Voters /\ counting' \subseteq ballots'
  BY <1>v DEF V!LeaseAges, V!Outlasted, V!Fault, V!Fine, V!targetVars, V!workVars, V!Open,
     V!Terminal, V!TypeOK
<1>3. /\ stale' \in BOOLEAN /\ voteBanned' \in BOOLEAN /\ votePolicy' \in BOOLEAN
      /\ notify' \in BOOLEAN /\ shown' \in BOOLEAN /\ stray' \in BOOLEAN
  BY <1>v DEF V!LeaseAges, V!Outlasted, V!Fault, V!Fine, V!targetVars, V!workVars, V!Open,
     V!Terminal, V!TypeOK
<1>4. voteFaults' = voteFaults \/ (voteFaults < MaxVoteFaults /\ voteFaults' = voteFaults + 1)
  BY <1>v DEF V!LeaseAges, V!Outlasted, V!Fault, V!Fine, V!targetVars, V!workVars
<1>5. \/ voteCrashes' = voteCrashes
      \/ voteCrashes < MaxVoteCrashes /\ voteCrashes' = voteCrashes + 1
  BY <1>v DEF V!LeaseAges, V!Outlasted, V!Fault, V!Fine, V!targetVars, V!workVars
<1>6. voteFaults' \in 0..MaxVoteFaults /\ voteCrashes' \in 0..MaxVoteCrashes
  BY <1>v, <1>5, <1>4 DEF V!TypeOK, V!VoteAssumption
<1>7. V!TypeOK'
  BY <1>e, <1>1, <1>2, <1>3, <1>4, <1>5, <1>6 DEF V!TypeOK, Crew, Enforcing, Steps
<1>8. Early'
  BY <1>v, <1>t, <1>e DEF V!LeaseAges, V!Outlasted, V!Fault, V!Fine, V!targetVars, V!workVars,
     V!At, V!Open,
     V!Terminal, TypeLess, Early
<1>9. NoLeases'
  BY <1>v, <1>t, <1>e DEF V!LeaseAges, V!Outlasted, V!Fault, V!Fine, V!targetVars, V!workVars,
     V!At, V!Open,
     V!Terminal, TypeLess, NoLeases, V!Owns
<1>10. UnbanHolds'
  BY <1>v, <1>t, <1>e DEF V!LeaseAges, V!Outlasted, V!Fault, V!Fine, V!targetVars, V!workVars,
     V!At, V!Open,
     V!Terminal, TypeLess, UnbanHolds, NoLeases, V!Owns, Early
<1>11. Lifting'
  BY <1>v, <1>t, <1>e DEF V!LeaseAges, V!Outlasted, V!Fault, V!Fine, V!targetVars, V!workVars,
     V!At, V!Open,
     V!Terminal, TypeLess, Lifting, Early, V!Preserve
<1>12. InForce'
  BY <1>v, <1>t, <1>e DEF V!LeaseAges, V!Outlasted, V!Fault, V!Fine, V!targetVars, V!workVars,
     V!At, V!Open,
     V!Terminal, TypeLess, InForce, NoLeases, V!Owns, Lifting, UnbanHolds
<1>13. Sweeping'
  BY <1>v, <1>t, <1>e DEF V!LeaseAges, V!Outlasted, V!Fault, V!Fine, V!targetVars, V!workVars,
     V!At, V!Open,
     V!Terminal, TypeLess, Sweeping, NoLeases, UnbanHolds, V!Owns
<1>14. Mistrusted'
  BY <1>v, <1>t, <1>e DEF V!LeaseAges, V!Outlasted, V!Fault, V!Fine, V!targetVars, V!workVars,
     V!At, V!Open,
     V!Terminal, TypeLess, Mistrusted, Unwatched, Sweeping, Doubts, Early, UnbanHolds,
     InForce, V!Owns, NoLeases
<1>15. Counted'
  BY <1>v, <1>t, <1>e, <1>4, <1>5, <1>f DEF V!LeaseAges, V!Outlasted, V!Fault, V!Fine,
     V!targetVars,
     V!workVars, V!At, V!Open, V!Terminal, TypeLess, Counted, V!ThresholdSeen
<1> QED
  BY <1>7, <1>8, <1>9, <1>10, <1>11, <1>12, <1>13, <1>14, <1>15 DEF VoteInv

\* The loop ends.
LEMMA HoldsLoopEnds ==
  ASSUME V!VoteAssumption, VoteInv, V!LoopEnds
  PROVE  VoteInv'
<1>v. /\ V!TypeOK /\ Early /\ NoLeases /\ UnbanHolds /\ Lifting /\ InForce
      /\ Sweeping /\ Mistrusted
      /\ Counted
  BY DEF VoteInv
<1>t. TypeLess
  BY <1>v DEF TypeLess, V!TypeOK, Crew, Enforcing, Steps
<1>f. voteFaults \in Nat /\ MaxVoteFaults \in Nat /\ voteCrashes \in Nat
  BY <1>v DEF V!TypeOK, V!VoteAssumption
<1>e. /\ enforcer' \in Crew
      /\ enforcer' = enforcer
  BY <1>t DEF V!LoopEnds, V!At, V!Fine, V!Fault, V!rowVars, V!targetVars, TypeLess
<1>1. /\ poll' \in {"none"} \cup V!Open \cup V!Terminal
      /\ ticket' \in {"none", "leased", "due", "swept"}
      /\ unban' \in {"idle", "lift", "clear", "restore", "done"}
      /\ sweeper' \in {"idle", "act", "kept", "lifted"} /\ watch' \in {"off", "on", "dead"}
      /\ start' \in {"idle", "send", "withdraw"}
  BY <1>v DEF V!LoopEnds, V!At, V!Fine, V!Fault, V!rowVars, V!targetVars, V!Open, V!Terminal,
     V!TypeOK
<1>2. ballots' \subseteq Voters /\ counting' \subseteq ballots'
  BY <1>v DEF V!LoopEnds, V!At, V!Fine, V!Fault, V!rowVars, V!targetVars, V!Open, V!Terminal,
     V!TypeOK
<1>3. /\ stale' \in BOOLEAN /\ voteBanned' \in BOOLEAN /\ votePolicy' \in BOOLEAN
      /\ notify' \in BOOLEAN /\ shown' \in BOOLEAN /\ stray' \in BOOLEAN
  BY <1>v DEF V!LoopEnds, V!At, V!Fine, V!Fault, V!rowVars, V!targetVars, V!Open, V!Terminal,
     V!TypeOK
<1>4. voteFaults' = voteFaults \/ (voteFaults < MaxVoteFaults /\ voteFaults' = voteFaults + 1)
  BY <1>v DEF V!LoopEnds, V!At, V!Fine, V!Fault, V!rowVars, V!targetVars
<1>5. \/ voteCrashes' = voteCrashes
      \/ voteCrashes < MaxVoteCrashes /\ voteCrashes' = voteCrashes + 1
  BY <1>v DEF V!LoopEnds, V!At, V!Fine, V!Fault, V!rowVars, V!targetVars
<1>6. voteFaults' \in 0..MaxVoteFaults /\ voteCrashes' \in 0..MaxVoteCrashes
  BY <1>v, <1>5, <1>4 DEF V!TypeOK, V!VoteAssumption
<1>7. V!TypeOK'
  BY <1>e, <1>1, <1>2, <1>3, <1>4, <1>5, <1>6 DEF V!TypeOK, Crew, Enforcing, Steps
<1>8. Early'
  BY <1>v, <1>t, <1>e DEF V!LoopEnds, V!At, V!Fine, V!Fault, V!rowVars, V!targetVars, V!Open,
     V!Terminal,
     TypeLess, Early
<1>9. NoLeases'
  BY <1>v, <1>t, <1>e DEF V!LoopEnds, V!At, V!Fine, V!Fault, V!rowVars, V!targetVars, V!Open,
     V!Terminal,
     TypeLess, NoLeases, V!Owns
<1>10. UnbanHolds'
  BY <1>v, <1>t, <1>e DEF V!LoopEnds, V!At, V!Fine, V!Fault, V!rowVars, V!targetVars, V!Open,
     V!Terminal,
     TypeLess, UnbanHolds, NoLeases, V!Owns, Early
<1>11. Lifting'
  BY <1>v, <1>t, <1>e DEF V!LoopEnds, V!At, V!Fine, V!Fault, V!rowVars, V!targetVars, V!Open,
     V!Terminal,
     TypeLess, Lifting, Early, V!Preserve
<1>12. InForce'
  BY <1>v, <1>t, <1>e DEF V!LoopEnds, V!At, V!Fine, V!Fault, V!rowVars, V!targetVars, V!Open,
     V!Terminal,
     TypeLess, InForce, NoLeases, V!Owns, Lifting, UnbanHolds
<1>13. Sweeping'
  BY <1>v, <1>t, <1>e DEF V!LoopEnds, V!At, V!Fine, V!Fault, V!rowVars, V!targetVars, V!Open,
     V!Terminal,
     TypeLess, Sweeping, NoLeases, UnbanHolds, V!Owns
<1>14. Mistrusted'
  BY <1>v, <1>t, <1>e DEF V!LoopEnds, V!At, V!Fine, V!Fault, V!rowVars, V!targetVars, V!Open,
     V!Terminal,
     TypeLess, Mistrusted, Unwatched, Sweeping, Doubts, Early, UnbanHolds, InForce, V!Owns,
     NoLeases
<1>15. Counted'
  BY <1>v, <1>t, <1>e, <1>4, <1>5, <1>f DEF V!LoopEnds, V!At, V!Fine, V!Fault, V!rowVars,
     V!targetVars,
     V!Open, V!Terminal, TypeLess, Counted, V!ThresholdSeen
<1> QED
  BY <1>7, <1>8, <1>9, <1>10, <1>11, <1>12, <1>13, <1>14, <1>15 DEF VoteInv

\* The enforcement is taken over,
LEMMA HoldsRecoverByHand ==
  ASSUME V!VoteAssumption, VoteInv, NEW e \in Enforcers, V!RecoverByHand(e)
  PROVE  VoteInv'
<1>v. /\ V!TypeOK /\ Early /\ NoLeases /\ UnbanHolds /\ Lifting /\ InForce
      /\ Sweeping /\ Mistrusted
      /\ Counted
  BY DEF VoteInv
<1>t. TypeLess
  BY <1>v DEF TypeLess, V!TypeOK, Crew, Enforcing, Steps
<1>f. voteFaults \in Nat /\ MaxVoteFaults \in Nat /\ voteCrashes \in Nat
  BY <1>v DEF V!TypeOK, V!VoteAssumption
<1>e. /\ enforcer' \in Crew
      /\ \/ Takes(e)
         \/ UNCHANGED <<poll, stale, ticket, enforcer>>
  BY <1>t, Claimed DEF V!RecoverByHand, V!Recover, V!At, V!ClaimEnforcing, TypeLess
<1>1. /\ poll' \in {"none"} \cup V!Open \cup V!Terminal
      /\ ticket' \in {"none", "leased", "due", "swept"}
      /\ unban' \in {"idle", "lift", "clear", "restore", "done"}
      /\ sweeper' \in {"idle", "act", "kept", "lifted"} /\ watch' \in {"off", "on", "dead"}
      /\ start' \in {"idle", "send", "withdraw"}
  BY <1>v DEF V!RecoverByHand, V!Recover, V!At, V!ClaimEnforcing, V!Open, V!Terminal, V!TypeOK
<1>2. ballots' \subseteq Voters /\ counting' \subseteq ballots'
  BY <1>v DEF V!RecoverByHand, V!Recover, V!At, V!ClaimEnforcing, V!Open, V!Terminal, V!TypeOK
<1>3. /\ stale' \in BOOLEAN /\ voteBanned' \in BOOLEAN /\ votePolicy' \in BOOLEAN
      /\ notify' \in BOOLEAN /\ shown' \in BOOLEAN /\ stray' \in BOOLEAN
  BY <1>v DEF V!RecoverByHand, V!Recover, V!At, V!ClaimEnforcing, V!Open, V!Terminal, V!TypeOK
<1>4. voteFaults' = voteFaults \/ (voteFaults < MaxVoteFaults /\ voteFaults' = voteFaults + 1)
  BY <1>v DEF V!RecoverByHand, V!Recover, V!At, V!ClaimEnforcing
<1>5. \/ voteCrashes' = voteCrashes
      \/ voteCrashes < MaxVoteCrashes /\ voteCrashes' = voteCrashes + 1
  BY <1>v DEF V!RecoverByHand, V!Recover, V!At, V!ClaimEnforcing
<1>6. voteFaults' \in 0..MaxVoteFaults /\ voteCrashes' \in 0..MaxVoteCrashes
  BY <1>v, <1>5, <1>4 DEF V!TypeOK, V!VoteAssumption
<1>7. V!TypeOK'
  BY <1>e, <1>1, <1>2, <1>3, <1>4, <1>5, <1>6 DEF V!TypeOK, Crew, Enforcing, Steps
<1>8. Early'
  BY <1>v, <1>t, <1>e DEF V!RecoverByHand, V!Recover, V!At, V!ClaimEnforcing, V!Open,
     V!Terminal,
     TypeLess, Takes, Early
<1>9. NoLeases'
  BY <1>v, <1>t, <1>e DEF V!RecoverByHand, V!Recover, V!At, V!ClaimEnforcing, V!Open,
     V!Terminal,
     TypeLess, Takes, NoLeases, V!Owns
<1>10. UnbanHolds'
  BY <1>v, <1>t, <1>e DEF V!RecoverByHand, V!Recover, V!At, V!ClaimEnforcing, V!Open,
     V!Terminal,
     TypeLess, Takes, UnbanHolds, NoLeases, V!Owns, Early
<1>11. Lifting'
  BY <1>v, <1>t, <1>e DEF V!RecoverByHand, V!Recover, V!At, V!ClaimEnforcing, V!Open,
     V!Terminal,
     TypeLess, Takes, Lifting, Early, V!Preserve
<1>12. InForce'
  BY <1>v, <1>t, <1>e DEF V!RecoverByHand, V!Recover, V!At, V!ClaimEnforcing, V!Open,
     V!Terminal,
     TypeLess, Takes, InForce, NoLeases, V!Owns, Lifting, UnbanHolds
<1>13. Sweeping'
  BY <1>v, <1>t, <1>e DEF V!RecoverByHand, V!Recover, V!At, V!ClaimEnforcing, V!Open,
     V!Terminal,
     TypeLess, Takes, Sweeping, NoLeases, UnbanHolds, V!Owns
<1>14. Mistrusted'
  BY <1>v, <1>t, <1>e DEF V!RecoverByHand, V!Recover, V!At, V!ClaimEnforcing, V!Open,
     V!Terminal,
     TypeLess, Takes, Mistrusted, Unwatched, Sweeping, Doubts, Early, UnbanHolds, InForce,
     V!Owns, NoLeases
<1>15. Counted'
  BY <1>v, <1>t, <1>e, <1>4, <1>5, <1>f DEF V!RecoverByHand, V!Recover, V!At, V!ClaimEnforcing,
     V!Open, V!Terminal, TypeLess, Takes, Counted, V!ThresholdSeen
<1> QED
  BY <1>7, <1>8, <1>9, <1>10, <1>11, <1>12, <1>13, <1>14, <1>15 DEF VoteInv

\* also by the loop.
LEMMA HoldsRecoverByLoop ==
  ASSUME V!VoteAssumption, VoteInv, V!RecoverByLoop
  PROVE  VoteInv'
<1>v. /\ V!TypeOK /\ Early /\ NoLeases /\ UnbanHolds /\ Lifting /\ InForce
      /\ Sweeping /\ Mistrusted
      /\ Counted
  BY DEF VoteInv
<1>t. TypeLess
  BY <1>v DEF TypeLess, V!TypeOK, Crew, Enforcing, Steps
<1>f. voteFaults \in Nat /\ MaxVoteFaults \in Nat /\ voteCrashes \in Nat
  BY <1>v DEF V!TypeOK, V!VoteAssumption
<1>l. Loop \in Enforcers
  BY DEF V!VoteAssumption
<1>e. /\ enforcer' \in Crew
      /\ \/ Takes(Loop)
         \/ UNCHANGED <<poll, stale, ticket, enforcer>>
  BY <1>t, <1>l, Claimed DEF V!RecoverByLoop, V!Recover, V!At, V!ClaimEnforcing, TypeLess
<1>1. /\ poll' \in {"none"} \cup V!Open \cup V!Terminal
      /\ ticket' \in {"none", "leased", "due", "swept"}
      /\ unban' \in {"idle", "lift", "clear", "restore", "done"}
      /\ sweeper' \in {"idle", "act", "kept", "lifted"} /\ watch' \in {"off", "on", "dead"}
      /\ start' \in {"idle", "send", "withdraw"}
  BY <1>v DEF V!RecoverByLoop, V!Recover, V!At, V!ClaimEnforcing, V!Open, V!Terminal, V!TypeOK
<1>2. ballots' \subseteq Voters /\ counting' \subseteq ballots'
  BY <1>v DEF V!RecoverByLoop, V!Recover, V!At, V!ClaimEnforcing, V!Open, V!Terminal, V!TypeOK
<1>3. /\ stale' \in BOOLEAN /\ voteBanned' \in BOOLEAN /\ votePolicy' \in BOOLEAN
      /\ notify' \in BOOLEAN /\ shown' \in BOOLEAN /\ stray' \in BOOLEAN
  BY <1>v DEF V!RecoverByLoop, V!Recover, V!At, V!ClaimEnforcing, V!Open, V!Terminal, V!TypeOK
<1>4. voteFaults' = voteFaults \/ (voteFaults < MaxVoteFaults /\ voteFaults' = voteFaults + 1)
  BY <1>v DEF V!RecoverByLoop, V!Recover, V!At, V!ClaimEnforcing
<1>5. \/ voteCrashes' = voteCrashes
      \/ voteCrashes < MaxVoteCrashes /\ voteCrashes' = voteCrashes + 1
  BY <1>v DEF V!RecoverByLoop, V!Recover, V!At, V!ClaimEnforcing
<1>6. voteFaults' \in 0..MaxVoteFaults /\ voteCrashes' \in 0..MaxVoteCrashes
  BY <1>v, <1>5, <1>4 DEF V!TypeOK, V!VoteAssumption
<1>7. V!TypeOK'
  BY <1>e, <1>1, <1>2, <1>3, <1>4, <1>5, <1>6 DEF V!TypeOK, Crew, Enforcing, Steps
<1>8. Early'
  BY <1>v, <1>t, <1>e DEF V!RecoverByLoop, V!Recover, V!At, V!ClaimEnforcing, V!Open,
     V!Terminal,
     TypeLess, Takes, Early
<1>9. NoLeases'
  BY <1>v, <1>t, <1>e DEF V!RecoverByLoop, V!Recover, V!At, V!ClaimEnforcing, V!Open,
     V!Terminal,
     TypeLess, Takes, NoLeases, V!Owns
<1>10. UnbanHolds'
  BY <1>v, <1>t, <1>e DEF V!RecoverByLoop, V!Recover, V!At, V!ClaimEnforcing, V!Open,
     V!Terminal,
     TypeLess, Takes, UnbanHolds, NoLeases, V!Owns, Early
<1>11. Lifting'
  BY <1>v, <1>t, <1>e DEF V!RecoverByLoop, V!Recover, V!At, V!ClaimEnforcing, V!Open,
     V!Terminal,
     TypeLess, Takes, Lifting, Early, V!Preserve
<1>12. InForce'
  BY <1>v, <1>t, <1>e DEF V!RecoverByLoop, V!Recover, V!At, V!ClaimEnforcing, V!Open,
     V!Terminal,
     TypeLess, Takes, InForce, NoLeases, V!Owns, Lifting, UnbanHolds
<1>13. Sweeping'
  BY <1>v, <1>t, <1>e DEF V!RecoverByLoop, V!Recover, V!At, V!ClaimEnforcing, V!Open,
     V!Terminal,
     TypeLess, Takes, Sweeping, NoLeases, UnbanHolds, V!Owns
<1>14. Mistrusted'
  BY <1>v, <1>t, <1>e DEF V!RecoverByLoop, V!Recover, V!At, V!ClaimEnforcing, V!Open,
     V!Terminal,
     TypeLess, Takes, Mistrusted, Unwatched, Sweeping, Doubts, Early, UnbanHolds, InForce,
     V!Owns, NoLeases
<1>15. Counted'
  BY <1>v, <1>t, <1>e, <1>4, <1>5, <1>f DEF V!RecoverByLoop, V!Recover, V!At, V!ClaimEnforcing,
     V!Open, V!Terminal, TypeLess, Takes, Counted, V!ThresholdSeen
<1> QED
  BY <1>7, <1>8, <1>9, <1>10, <1>11, <1>12, <1>13, <1>14, <1>15 DEF VoteInv

\* The owner looks at its leases,
LEMMA HoldsCheckOwnership ==
  ASSUME V!VoteAssumption, VoteInv, NEW e \in Enforcers, V!CheckOwnership(e)
  PROVE  VoteInv'
<1>v. /\ V!TypeOK /\ Early /\ NoLeases /\ UnbanHolds /\ Lifting /\ InForce
      /\ Sweeping /\ Mistrusted
      /\ Counted
  BY DEF VoteInv
<1>t. TypeLess
  BY <1>v DEF TypeLess, V!TypeOK, Crew, Enforcing, Steps
<1>f. voteFaults \in Nat /\ MaxVoteFaults \in Nat /\ voteCrashes \in Nat
  BY <1>v DEF V!TypeOK, V!VoteAssumption
<1>e. /\ enforcer' \in Crew
      /\ Goes(e, {"ban", "idle"})
  <2>1. V!Go(e, "ban") \/ V!Rest(e)
    BY DEF V!CheckOwnership
  <2> QED  BY <2>1, <1>t, GoForm, RestForm DEF Goes, Steps, V!Fixing, TypeLess
<1>1. /\ poll' \in {"none"} \cup V!Open \cup V!Terminal
      /\ ticket' \in {"none", "leased", "due", "swept"}
      /\ unban' \in {"idle", "lift", "clear", "restore", "done"}
      /\ sweeper' \in {"idle", "act", "kept", "lifted"} /\ watch' \in {"off", "on", "dead"}
      /\ start' \in {"idle", "send", "withdraw"}
  BY <1>v DEF V!CheckOwnership, V!At, V!Fine, V!StillHeld, V!Go, V!Rest, V!Fault, V!rowVars,
     V!targetVars,
     V!Open, V!Terminal, V!TypeOK
<1>2. ballots' \subseteq Voters /\ counting' \subseteq ballots'
  BY <1>v DEF V!CheckOwnership, V!At, V!Fine, V!StillHeld, V!Go, V!Rest, V!Fault, V!rowVars,
     V!targetVars,
     V!Open, V!Terminal, V!TypeOK
<1>3. /\ stale' \in BOOLEAN /\ voteBanned' \in BOOLEAN /\ votePolicy' \in BOOLEAN
      /\ notify' \in BOOLEAN /\ shown' \in BOOLEAN /\ stray' \in BOOLEAN
  BY <1>v DEF V!CheckOwnership, V!At, V!Fine, V!StillHeld, V!Go, V!Rest, V!Fault, V!rowVars,
     V!targetVars,
     V!Open, V!Terminal, V!TypeOK
<1>4. voteFaults' = voteFaults \/ (voteFaults < MaxVoteFaults /\ voteFaults' = voteFaults + 1)
  BY <1>v DEF V!CheckOwnership, V!At, V!Fine, V!StillHeld, V!Go, V!Rest, V!Fault, V!rowVars,
     V!targetVars
<1>5. \/ voteCrashes' = voteCrashes
      \/ voteCrashes < MaxVoteCrashes /\ voteCrashes' = voteCrashes + 1
  BY <1>v DEF V!CheckOwnership, V!At, V!Fine, V!StillHeld, V!Go, V!Rest, V!Fault, V!rowVars,
     V!targetVars
<1>6. voteFaults' \in 0..MaxVoteFaults /\ voteCrashes' \in 0..MaxVoteCrashes
  BY <1>v, <1>5, <1>4 DEF V!TypeOK, V!VoteAssumption
<1>7. V!TypeOK'
  BY <1>e, <1>1, <1>2, <1>3, <1>4, <1>5, <1>6 DEF V!TypeOK, Crew, Enforcing, Steps
<1>8. Early'
  BY <1>v, <1>t, <1>e DEF V!CheckOwnership, V!At, V!Fine, V!StillHeld, V!Go, V!Rest, V!Fault,
     V!rowVars,
     V!targetVars, V!Open, V!Terminal, TypeLess, Goes, Early
<1>9. NoLeases'
  BY <1>v, <1>t, <1>e DEF V!CheckOwnership, V!At, V!Fine, V!StillHeld, V!Go, V!Rest, V!Fault,
     V!rowVars,
     V!targetVars, V!Open, V!Terminal, TypeLess, Goes, NoLeases, V!Owns
<1>10. UnbanHolds'
  BY <1>v, <1>t, <1>e DEF V!CheckOwnership, V!At, V!Fine, V!StillHeld, V!Go, V!Rest, V!Fault,
     V!rowVars,
     V!targetVars, V!Open, V!Terminal, TypeLess, Goes, UnbanHolds, NoLeases, V!Owns, Early
<1>11. Lifting'
  BY <1>v, <1>t, <1>e DEF V!CheckOwnership, V!At, V!Fine, V!StillHeld, V!Go, V!Rest, V!Fault,
     V!rowVars,
     V!targetVars, V!Open, V!Terminal, TypeLess, Goes, Lifting, Early, V!Preserve
<1>12. InForce'
  BY <1>v, <1>t, <1>e DEF V!CheckOwnership, V!At, V!Fine, V!StillHeld, V!Go, V!Rest, V!Fault,
     V!rowVars,
     V!targetVars, V!Open, V!Terminal, TypeLess, Goes, InForce, NoLeases, V!Owns, Lifting,
     UnbanHolds
<1>13. Sweeping'
  BY <1>v, <1>t, <1>e DEF V!CheckOwnership, V!At, V!Fine, V!StillHeld, V!Go, V!Rest, V!Fault,
     V!rowVars,
     V!targetVars, V!Open, V!Terminal, TypeLess, Goes, Sweeping, NoLeases, UnbanHolds, V!Owns
<1>14. Mistrusted'
  BY <1>v, <1>t, <1>e DEF V!CheckOwnership, V!At, V!Fine, V!StillHeld, V!Go, V!Rest, V!Fault,
     V!rowVars,
     V!targetVars, V!Open, V!Terminal, TypeLess, Goes, Mistrusted, Unwatched, Sweeping, Doubts,
     Early, UnbanHolds, InForce, V!Owns, NoLeases
<1>15. Counted'
  BY <1>v, <1>t, <1>e, <1>4, <1>5, <1>f DEF V!CheckOwnership, V!At, V!Fine, V!StillHeld, V!Go,
     V!Rest,
     V!Fault, V!rowVars, V!targetVars, V!Open, V!Terminal, TypeLess, Goes, Counted,
     V!ThresholdSeen
<1> QED
  BY <1>7, <1>8, <1>9, <1>10, <1>11, <1>12, <1>13, <1>14, <1>15 DEF VoteInv

\* so does whoever took it over,
LEMMA HoldsCheckTakeover ==
  ASSUME V!VoteAssumption, VoteInv, NEW e \in Enforcers, V!CheckTakeover(e)
  PROVE  VoteInv'
<1>v. /\ V!TypeOK /\ Early /\ NoLeases /\ UnbanHolds /\ Lifting /\ InForce
      /\ Sweeping /\ Mistrusted
      /\ Counted
  BY DEF VoteInv
<1>t. TypeLess
  BY <1>v DEF TypeLess, V!TypeOK, Crew, Enforcing, Steps
<1>f. voteFaults \in Nat /\ MaxVoteFaults \in Nat /\ voteCrashes \in Nat
  BY <1>v DEF V!TypeOK, V!VoteAssumption
<1>e. /\ enforcer' \in Crew
      /\ Goes(e, {"ban", "idle"})
  <2>1. V!Go(e, "ban") \/ V!Rest(e)
    BY DEF V!CheckTakeover
  <2> QED  BY <2>1, <1>t, GoForm, RestForm DEF Goes, Steps, V!Fixing, TypeLess
<1>1. /\ poll' \in {"none"} \cup V!Open \cup V!Terminal
      /\ ticket' \in {"none", "leased", "due", "swept"}
      /\ unban' \in {"idle", "lift", "clear", "restore", "done"}
      /\ sweeper' \in {"idle", "act", "kept", "lifted"} /\ watch' \in {"off", "on", "dead"}
      /\ start' \in {"idle", "send", "withdraw"}
  BY <1>v DEF V!CheckTakeover, V!At, V!Fine, V!StillHeld, V!Go, V!Rest, V!Fault, V!rowVars,
     V!targetVars,
     V!Open, V!Terminal, V!TypeOK
<1>2. ballots' \subseteq Voters /\ counting' \subseteq ballots'
  BY <1>v DEF V!CheckTakeover, V!At, V!Fine, V!StillHeld, V!Go, V!Rest, V!Fault, V!rowVars,
     V!targetVars,
     V!Open, V!Terminal, V!TypeOK
<1>3. /\ stale' \in BOOLEAN /\ voteBanned' \in BOOLEAN /\ votePolicy' \in BOOLEAN
      /\ notify' \in BOOLEAN /\ shown' \in BOOLEAN /\ stray' \in BOOLEAN
  BY <1>v DEF V!CheckTakeover, V!At, V!Fine, V!StillHeld, V!Go, V!Rest, V!Fault, V!rowVars,
     V!targetVars,
     V!Open, V!Terminal, V!TypeOK
<1>4. voteFaults' = voteFaults \/ (voteFaults < MaxVoteFaults /\ voteFaults' = voteFaults + 1)
  BY <1>v DEF V!CheckTakeover, V!At, V!Fine, V!StillHeld, V!Go, V!Rest, V!Fault, V!rowVars,
     V!targetVars
<1>5. \/ voteCrashes' = voteCrashes
      \/ voteCrashes < MaxVoteCrashes /\ voteCrashes' = voteCrashes + 1
  BY <1>v DEF V!CheckTakeover, V!At, V!Fine, V!StillHeld, V!Go, V!Rest, V!Fault, V!rowVars,
     V!targetVars
<1>6. voteFaults' \in 0..MaxVoteFaults /\ voteCrashes' \in 0..MaxVoteCrashes
  BY <1>v, <1>5, <1>4 DEF V!TypeOK, V!VoteAssumption
<1>7. V!TypeOK'
  BY <1>e, <1>1, <1>2, <1>3, <1>4, <1>5, <1>6 DEF V!TypeOK, Crew, Enforcing, Steps
<1>8. Early'
  BY <1>v, <1>t, <1>e DEF V!CheckTakeover, V!At, V!Fine, V!StillHeld, V!Go, V!Rest, V!Fault,
     V!rowVars,
     V!targetVars, V!Open, V!Terminal, TypeLess, Goes, Early
<1>9. NoLeases'
  BY <1>v, <1>t, <1>e DEF V!CheckTakeover, V!At, V!Fine, V!StillHeld, V!Go, V!Rest, V!Fault,
     V!rowVars,
     V!targetVars, V!Open, V!Terminal, TypeLess, Goes, NoLeases, V!Owns
<1>10. UnbanHolds'
  BY <1>v, <1>t, <1>e DEF V!CheckTakeover, V!At, V!Fine, V!StillHeld, V!Go, V!Rest, V!Fault,
     V!rowVars,
     V!targetVars, V!Open, V!Terminal, TypeLess, Goes, UnbanHolds, NoLeases, V!Owns, Early
<1>11. Lifting'
  BY <1>v, <1>t, <1>e DEF V!CheckTakeover, V!At, V!Fine, V!StillHeld, V!Go, V!Rest, V!Fault,
     V!rowVars,
     V!targetVars, V!Open, V!Terminal, TypeLess, Goes, Lifting, Early, V!Preserve
<1>12. InForce'
  BY <1>v, <1>t, <1>e DEF V!CheckTakeover, V!At, V!Fine, V!StillHeld, V!Go, V!Rest, V!Fault,
     V!rowVars,
     V!targetVars, V!Open, V!Terminal, TypeLess, Goes, InForce, NoLeases, V!Owns, Lifting,
     UnbanHolds
<1>13. Sweeping'
  BY <1>v, <1>t, <1>e DEF V!CheckTakeover, V!At, V!Fine, V!StillHeld, V!Go, V!Rest, V!Fault,
     V!rowVars,
     V!targetVars, V!Open, V!Terminal, TypeLess, Goes, Sweeping, NoLeases, UnbanHolds, V!Owns
<1>14. Mistrusted'
  BY <1>v, <1>t, <1>e DEF V!CheckTakeover, V!At, V!Fine, V!StillHeld, V!Go, V!Rest, V!Fault,
     V!rowVars,
     V!targetVars, V!Open, V!Terminal, TypeLess, Goes, Mistrusted, Unwatched, Sweeping, Doubts,
     Early, UnbanHolds, InForce, V!Owns, NoLeases
<1>15. Counted'
  BY <1>v, <1>t, <1>e, <1>4, <1>5, <1>f DEF V!CheckTakeover, V!At, V!Fine, V!StillHeld, V!Go,
     V!Rest,
     V!Fault, V!rowVars, V!targetVars, V!Open, V!Terminal, TypeLess, Goes, Counted,
     V!ThresholdSeen
<1> QED
  BY <1>7, <1>8, <1>9, <1>10, <1>11, <1>12, <1>13, <1>14, <1>15 DEF VoteInv

\* bans,
LEMMA HoldsApplyBan ==
  ASSUME V!VoteAssumption, VoteInv, NEW e \in Enforcers, V!ApplyBan(e)
  PROVE  VoteInv'
<1>v. /\ V!TypeOK /\ Early /\ NoLeases /\ UnbanHolds /\ Lifting /\ InForce
      /\ Sweeping /\ Mistrusted
      /\ Counted
  BY DEF VoteInv
<1>t. TypeLess
  BY <1>v DEF TypeLess, V!TypeOK, Crew, Enforcing, Steps
<1>f. voteFaults \in Nat /\ MaxVoteFaults \in Nat /\ voteCrashes \in Nat
  BY <1>v DEF V!TypeOK, V!VoteAssumption
<1>e. /\ enforcer' \in Crew
      /\ Goes(e, {"record", "miss"})
  <2>1. V!Go(e, "record") \/ V!Go(e, "miss")
    BY DEF V!ApplyBan
  <2> QED  BY <2>1, <1>t, GoForm, RestForm DEF Goes, Steps, V!Fixing, TypeLess
<1>1. /\ poll' \in {"none"} \cup V!Open \cup V!Terminal
      /\ ticket' \in {"none", "leased", "due", "swept"}
      /\ unban' \in {"idle", "lift", "clear", "restore", "done"}
      /\ sweeper' \in {"idle", "act", "kept", "lifted"} /\ watch' \in {"off", "on", "dead"}
      /\ start' \in {"idle", "send", "withdraw"}
  BY <1>v DEF V!ApplyBan, V!At, V!Fine, V!Go, V!Fault, V!rowVars, V!Open, V!Terminal, V!TypeOK
<1>2. ballots' \subseteq Voters /\ counting' \subseteq ballots'
  BY <1>v DEF V!ApplyBan, V!At, V!Fine, V!Go, V!Fault, V!rowVars, V!Open, V!Terminal, V!TypeOK
<1>3. /\ stale' \in BOOLEAN /\ voteBanned' \in BOOLEAN /\ votePolicy' \in BOOLEAN
      /\ notify' \in BOOLEAN /\ shown' \in BOOLEAN /\ stray' \in BOOLEAN
  BY <1>v DEF V!ApplyBan, V!At, V!Fine, V!Go, V!Fault, V!rowVars, V!Open, V!Terminal, V!TypeOK
<1>4. voteFaults' = voteFaults \/ (voteFaults < MaxVoteFaults /\ voteFaults' = voteFaults + 1)
  BY <1>v DEF V!ApplyBan, V!At, V!Fine, V!Go, V!Fault, V!rowVars
<1>5. \/ voteCrashes' = voteCrashes
      \/ voteCrashes < MaxVoteCrashes /\ voteCrashes' = voteCrashes + 1
  BY <1>v DEF V!ApplyBan, V!At, V!Fine, V!Go, V!Fault, V!rowVars
<1>6. voteFaults' \in 0..MaxVoteFaults /\ voteCrashes' \in 0..MaxVoteCrashes
  BY <1>v, <1>5, <1>4 DEF V!TypeOK, V!VoteAssumption
<1>7. V!TypeOK'
  BY <1>e, <1>1, <1>2, <1>3, <1>4, <1>5, <1>6 DEF V!TypeOK, Crew, Enforcing, Steps
<1>8. Early'
  BY <1>v, <1>t, <1>e DEF V!ApplyBan, V!At, V!Fine, V!Go, V!Fault, V!rowVars, V!Open,
     V!Terminal, TypeLess,
     Goes, Early
<1>9. NoLeases'
  BY <1>v, <1>t, <1>e DEF V!ApplyBan, V!At, V!Fine, V!Go, V!Fault, V!rowVars, V!Open,
     V!Terminal, TypeLess,
     Goes, NoLeases, V!Owns
<1>10. UnbanHolds'
  BY <1>v, <1>t, <1>e DEF V!ApplyBan, V!At, V!Fine, V!Go, V!Fault, V!rowVars, V!Open,
     V!Terminal, TypeLess,
     Goes, UnbanHolds, NoLeases, V!Owns, Early
<1>11. Lifting'
  BY <1>v, <1>t, <1>e DEF V!ApplyBan, V!At, V!Fine, V!Go, V!Fault, V!rowVars, V!Open,
     V!Terminal, TypeLess,
     Goes, Lifting, Early, V!Preserve
<1>12. InForce'
  <2> SUFFICES ASSUME NEW x \in Enforcers, V!At(x, "record")', V!Owns(x)', ~stray'
               PROVE  voteBanned'
    BY DEF InForce
  <2>1. UNCHANGED <<poll, ticket, stray>> /\ (voteBanned => voteBanned')
    BY <1>t DEF V!ApplyBan, V!rowVars, TypeLess
  <2>2. CASE x = e
    <3>1. voteBanned' = TRUE \/ V!Go(e, "miss")
      BY DEF V!ApplyBan
    <3>2. V!Go(e, "miss") => enforcer'[e].at = "miss"
      BY <1>t, GoForm DEF Goes, Steps, TypeLess
    <3> QED  BY <2>2, <3>1, <3>2 DEF V!At
  <2>3. CASE x # e
    <3>1. enforcer'[x] = enforcer[x]
      BY <1>e, <2>3 DEF Goes
    <3> QED  BY <1>v, <2>1, <3>1 DEF InForce, V!At, V!Owns
  <2> QED  BY <2>2, <2>3
<1>13. Sweeping'
  BY <1>v, <1>t, <1>e DEF V!ApplyBan, V!At, V!Fine, V!Go, V!Fault, V!rowVars, V!Open,
     V!Terminal, TypeLess,
     Goes, Sweeping, NoLeases, UnbanHolds, V!Owns
<1>14. Mistrusted'
  BY <1>v, <1>t, <1>e DEF V!ApplyBan, V!At, V!Fine, V!Go, V!Fault, V!rowVars, V!Open,
     V!Terminal, TypeLess,
     Goes, Mistrusted, Unwatched, Sweeping, Doubts, Early, UnbanHolds, InForce, V!Owns,
     NoLeases
<1>15. Counted'
  BY <1>v, <1>t, <1>e, <1>4, <1>5, <1>f DEF V!ApplyBan, V!At, V!Fine, V!Go, V!Fault,
     V!rowVars, V!Open,
     V!Terminal, TypeLess, Goes, Counted, V!ThresholdSeen
<1> QED
  BY <1>7, <1>8, <1>9, <1>10, <1>11, <1>12, <1>13, <1>14, <1>15 DEF VoteInv

\* records the ban,
LEMMA HoldsRecordBan ==
  ASSUME V!VoteAssumption, VoteInv, NEW e \in Enforcers, V!RecordBan(e)
  PROVE  VoteInv'
<1>v. /\ V!TypeOK /\ Early /\ NoLeases /\ UnbanHolds /\ Lifting /\ InForce
      /\ Sweeping /\ Mistrusted
      /\ Counted
  BY DEF VoteInv
<1>t. TypeLess
  BY <1>v DEF TypeLess, V!TypeOK, Crew, Enforcing, Steps
<1>f. voteFaults \in Nat /\ MaxVoteFaults \in Nat /\ voteCrashes \in Nat
  BY <1>v DEF V!TypeOK, V!VoteAssumption
<1>e. /\ enforcer' \in Crew
      /\ \/ /\ V!Owns(e) /\ poll' = "passed" /\ votePolicy' = TRUE /\ ticket' = "none"
            /\ voteBanned' = voteBanned /\ stray' = stray
            /\ Settles /\ \A x \in Enforcers : ~enforcer'[x].lease
         \/ /\ Goes(e, {"fix"}) /\ UNCHANGED <<poll, ticket, voteBanned, votePolicy, stray>>
         \/ /\ Goes(e, {"idle"}) /\ UNCHANGED <<poll, ticket, voteBanned, votePolicy>>
            /\ stray' = (stray \/ ~V!Owns(e))
  <2>1. CASE /\ V!Owns(e) /\ V!Close("passed") /\ votePolicy' = TRUE /\ ticket' = "none"
             /\ V!Leaves(V!Outrun, e) /\ UNCHANGED <<voteBanned, stray>>
    <3>1. enforcer' \in Crew /\ Settles /\ \A x \in Enforcers : ~enforcer'[x].lease
      BY <2>1, <1>t, Dispossessed, LeavesForm DEF TypeLess, Settles
    <3> QED  BY <2>1, <3>1 DEF V!Close
  <2>2. CASE V!Go(e, "fix") /\ UNCHANGED <<poll, ticket, voteBanned, votePolicy, stray>>
    BY <2>2, <1>t, GoForm DEF Goes, Steps, V!Fixing, TypeLess
  <2>3. CASE V!RecordLost(e) /\ UNCHANGED voteBanned
    BY <2>3, <1>t, RestForm DEF Goes, V!RecordLost, TypeLess
  <2> QED  BY <2>1, <2>2, <2>3 DEF V!RecordBan
<1>1. /\ poll' \in {"none"} \cup V!Open \cup V!Terminal
      /\ ticket' \in {"none", "leased", "due", "swept"}
      /\ unban' \in {"idle", "lift", "clear", "restore", "done"}
      /\ sweeper' \in {"idle", "act", "kept", "lifted"} /\ watch' \in {"off", "on", "dead"}
      /\ start' \in {"idle", "send", "withdraw"}
  BY <1>v DEF V!RecordBan, V!At, V!Fine, V!Close, V!Go, V!RecordLost, V!Fault, V!Rest, V!Open,
     V!Terminal, V!TypeOK
<1>2. ballots' \subseteq Voters /\ counting' \subseteq ballots'
  BY <1>v DEF V!RecordBan, V!At, V!Fine, V!Close, V!Go, V!RecordLost, V!Fault, V!Rest, V!Open,
     V!Terminal, V!TypeOK
<1>3. /\ stale' \in BOOLEAN /\ voteBanned' \in BOOLEAN /\ votePolicy' \in BOOLEAN
      /\ notify' \in BOOLEAN /\ shown' \in BOOLEAN /\ stray' \in BOOLEAN
  BY <1>v DEF V!RecordBan, V!At, V!Fine, V!Close, V!Go, V!RecordLost, V!Fault, V!Rest, V!Open,
     V!Terminal, V!TypeOK
<1>4. voteFaults' = voteFaults \/ (voteFaults < MaxVoteFaults /\ voteFaults' = voteFaults + 1)
  BY <1>v DEF V!RecordBan, V!At, V!Fine, V!Close, V!Go, V!RecordLost, V!Fault, V!Rest
<1>5. \/ voteCrashes' = voteCrashes
      \/ voteCrashes < MaxVoteCrashes /\ voteCrashes' = voteCrashes + 1
  BY <1>v DEF V!RecordBan, V!At, V!Fine, V!Close, V!Go, V!RecordLost, V!Fault, V!Rest
<1>6. voteFaults' \in 0..MaxVoteFaults /\ voteCrashes' \in 0..MaxVoteCrashes
  BY <1>v, <1>5, <1>4 DEF V!TypeOK, V!VoteAssumption
<1>7. V!TypeOK'
  BY <1>e, <1>1, <1>2, <1>3, <1>4, <1>5, <1>6 DEF V!TypeOK, Crew, Enforcing, Steps
<1>8. Early'
  BY <1>v, <1>t, <1>e DEF V!RecordBan, V!At, V!Fine, V!Close, V!Go, V!RecordLost, V!Fault,
     V!Rest, V!Open,
     V!Terminal, TypeLess, Settles, Goes, Early
<1>9. NoLeases'
  BY <1>v, <1>e DEF NoLeases, Settles, Goes, V!Owns
<1>10. UnbanHolds'
  BY <1>v, <1>t, <1>e DEF V!RecordBan, V!At, V!Fine, V!Close, V!Go, V!RecordLost, V!Fault,
     V!Rest, V!Open,
     V!Terminal, TypeLess, Settles, Goes, UnbanHolds, NoLeases, V!Owns, Early
<1>11. Lifting'
  BY <1>v, <1>t, <1>e DEF V!RecordBan, V!At, V!Fine, V!Close, V!Go, V!RecordLost, V!Fault,
     V!Rest, V!Open,
     V!Terminal, TypeLess, Settles, Goes, Lifting, Early, V!Preserve
<1>12. InForce'
  <2> SUFFICES ASSUME NEW x \in Enforcers, V!At(x, "record")', V!Owns(x)', ~stray'
               PROVE  voteBanned'
    BY DEF InForce
  <2>1. CASE poll' \in V!Terminal
    BY <2>1 DEF V!Owns, V!Terminal
  <2>2. CASE /\ Goes(e, {"fix", "idle"}) /\ UNCHANGED <<poll, ticket, voteBanned>>
             /\ (stray => stray')
    <3>1. x # e
      BY <2>2 DEF Goes, V!At
    <3>2. enforcer'[x] = enforcer[x]
      BY <2>2, <3>1 DEF Goes
    <3> QED  BY <1>v, <2>2, <3>2 DEF InForce, V!At, V!Owns
  <2>3. stray \in BOOLEAN
    BY <1>v DEF V!TypeOK
  <2>4. \/ poll' \in V!Terminal
        \/ Goes(e, {"fix"}) /\ UNCHANGED <<poll, ticket, voteBanned, stray>>
        \/ Goes(e, {"idle"}) /\ UNCHANGED <<poll, ticket, voteBanned>> /\ (stray => stray')
    BY <1>e, <2>3 DEF V!Terminal
  <2> QED  BY <2>1, <2>2, <2>4 DEF Goes
<1>13. Sweeping'
  BY <1>v, <1>t, <1>e DEF V!RecordBan, V!At, V!Fine, V!Close, V!Go, V!RecordLost, V!Fault,
     V!Rest, V!Open,
     V!Terminal, TypeLess, Settles, Goes, Sweeping, NoLeases, UnbanHolds, V!Owns
<1>14. Mistrusted'
  <2>1. V!At(e, "record") /\ unban' = unban
    BY DEF V!RecordBan
  <2>2. CASE V!Owns(e) /\ votePolicy' = TRUE /\ voteBanned' = voteBanned /\ stray' = stray
    BY <1>v, <2>1, <2>2 DEF Mistrusted, InForce
  <2>3. CASE Goes(e, {"fix"})
    BY <2>3 DEF Mistrusted, Doubts, Goes
  <2>4. CASE stray' = (stray \/ ~V!Owns(e)) /\ poll' = poll
    BY <2>4 DEF Mistrusted, V!Owns, V!Terminal
  <2> QED  BY <1>e, <2>2, <2>3, <2>4
<1>15. Counted'
  BY <1>v, <1>t, <1>e, <1>4, <1>5, <1>f DEF V!RecordBan, V!At, V!Fine, V!Close, V!Go,
     V!RecordLost,
     V!Fault, V!Rest, V!Open, V!Terminal, TypeLess, Settles, Goes, Counted, V!ThresholdSeen
<1> QED
  BY <1>7, <1>8, <1>9, <1>10, <1>11, <1>12, <1>13, <1>14, <1>15 DEF VoteInv

\* or that there is none.
LEMMA HoldsRecordFailure ==
  ASSUME V!VoteAssumption, VoteInv, NEW e \in Enforcers, V!RecordFailure(e)
  PROVE  VoteInv'
<1>v. /\ V!TypeOK /\ Early /\ NoLeases /\ UnbanHolds /\ Lifting /\ InForce
      /\ Sweeping /\ Mistrusted
      /\ Counted
  BY DEF VoteInv
<1>t. TypeLess
  BY <1>v DEF TypeLess, V!TypeOK, Crew, Enforcing, Steps
<1>f. voteFaults \in Nat /\ MaxVoteFaults \in Nat /\ voteCrashes \in Nat
  BY <1>v DEF V!TypeOK, V!VoteAssumption
<1>e. /\ enforcer' \in Crew
      /\ \/ /\ V!Owns(e) /\ poll' = "failed" /\ UNCHANGED <<ticket, votePolicy, stray>>
            /\ voteBanned' = voteBanned /\ Settles
         \/ /\ Goes(e, {"fix"}) /\ UNCHANGED <<poll, ticket, voteBanned, votePolicy, stray>>
         \/ /\ Goes(e, {"idle"}) /\ UNCHANGED <<poll, ticket, voteBanned, votePolicy>>
            /\ stray' = (stray \/ ~V!Owns(e))
  <2>1. CASE /\ V!Owns(e) /\ V!Close("failed") /\ V!Leaves(enforcer, e)
             /\ UNCHANGED <<ticket, votePolicy, stray, voteBanned>>
    <3>1. enforcer' \in Crew /\ Settles
      BY <2>1, <1>t, LeavesForm DEF TypeLess, Settles
    <3> QED  BY <2>1, <3>1 DEF V!Close
  <2>2. CASE V!Go(e, "fix") /\ UNCHANGED <<poll, ticket, voteBanned, votePolicy, stray>>
    BY <2>2, <1>t, GoForm DEF Goes, Steps, V!Fixing, TypeLess
  <2>3. CASE V!RecordLost(e) /\ UNCHANGED voteBanned
    BY <2>3, <1>t, RestForm DEF Goes, V!RecordLost, TypeLess
  <2> QED  BY <2>1, <2>2, <2>3 DEF V!RecordFailure
<1>1. /\ poll' \in {"none"} \cup V!Open \cup V!Terminal
      /\ ticket' \in {"none", "leased", "due", "swept"}
      /\ unban' \in {"idle", "lift", "clear", "restore", "done"}
      /\ sweeper' \in {"idle", "act", "kept", "lifted"} /\ watch' \in {"off", "on", "dead"}
      /\ start' \in {"idle", "send", "withdraw"}
  BY <1>v DEF V!RecordFailure, V!At, V!Fine, V!Close, V!Go, V!RecordLost, V!Fault, V!Rest,
     V!Open, V!Terminal,
     V!TypeOK
<1>2. ballots' \subseteq Voters /\ counting' \subseteq ballots'
  BY <1>v DEF V!RecordFailure, V!At, V!Fine, V!Close, V!Go, V!RecordLost, V!Fault, V!Rest,
     V!Open, V!Terminal,
     V!TypeOK
<1>3. /\ stale' \in BOOLEAN /\ voteBanned' \in BOOLEAN /\ votePolicy' \in BOOLEAN
      /\ notify' \in BOOLEAN /\ shown' \in BOOLEAN /\ stray' \in BOOLEAN
  BY <1>v DEF V!RecordFailure, V!At, V!Fine, V!Close, V!Go, V!RecordLost, V!Fault, V!Rest,
     V!Open, V!Terminal,
     V!TypeOK
<1>4. voteFaults' = voteFaults \/ (voteFaults < MaxVoteFaults /\ voteFaults' = voteFaults + 1)
  BY <1>v DEF V!RecordFailure, V!At, V!Fine, V!Close, V!Go, V!RecordLost, V!Fault, V!Rest
<1>5. \/ voteCrashes' = voteCrashes
      \/ voteCrashes < MaxVoteCrashes /\ voteCrashes' = voteCrashes + 1
  BY <1>v DEF V!RecordFailure, V!At, V!Fine, V!Close, V!Go, V!RecordLost, V!Fault, V!Rest
<1>6. voteFaults' \in 0..MaxVoteFaults /\ voteCrashes' \in 0..MaxVoteCrashes
  BY <1>v, <1>5, <1>4 DEF V!TypeOK, V!VoteAssumption
<1>7. V!TypeOK'
  BY <1>e, <1>1, <1>2, <1>3, <1>4, <1>5, <1>6 DEF V!TypeOK, Crew, Enforcing, Steps
<1>8. Early'
  BY <1>v, <1>t, <1>e DEF V!RecordFailure, V!At, V!Fine, V!Close, V!Go, V!RecordLost, V!Fault,
     V!Rest, V!Open,
     V!Terminal, TypeLess, Settles, Goes, Early
<1>9. NoLeases'
  BY <1>v, <1>e DEF NoLeases, Settles, Goes, V!Owns
<1>10. UnbanHolds'
  BY <1>v, <1>t, <1>e DEF V!RecordFailure, V!At, V!Fine, V!Close, V!Go, V!RecordLost, V!Fault,
     V!Rest, V!Open,
     V!Terminal, TypeLess, Settles, Goes, UnbanHolds, NoLeases, V!Owns, Early
<1>11. Lifting'
  BY <1>v, <1>t, <1>e DEF V!RecordFailure, V!At, V!Fine, V!Close, V!Go, V!RecordLost, V!Fault,
     V!Rest, V!Open,
     V!Terminal, TypeLess, Settles, Goes, Lifting, Early, V!Preserve
<1>12. InForce'
  <2> SUFFICES ASSUME NEW x \in Enforcers, V!At(x, "record")', V!Owns(x)', ~stray'
               PROVE  voteBanned'
    BY DEF InForce
  <2>1. CASE poll' \in V!Terminal
    BY <2>1 DEF V!Owns, V!Terminal
  <2>2. CASE /\ Goes(e, {"fix", "idle"}) /\ UNCHANGED <<poll, ticket, voteBanned>>
             /\ (stray => stray')
    <3>1. x # e
      BY <2>2 DEF Goes, V!At
    <3>2. enforcer'[x] = enforcer[x]
      BY <2>2, <3>1 DEF Goes
    <3> QED  BY <1>v, <2>2, <3>2 DEF InForce, V!At, V!Owns
  <2>3. stray \in BOOLEAN
    BY <1>v DEF V!TypeOK
  <2>4. \/ poll' \in V!Terminal
        \/ Goes(e, {"fix"}) /\ UNCHANGED <<poll, ticket, voteBanned, stray>>
        \/ Goes(e, {"idle"}) /\ UNCHANGED <<poll, ticket, voteBanned>> /\ (stray => stray')
    BY <1>e, <2>3 DEF V!Terminal
  <2> QED  BY <2>1, <2>2, <2>4 DEF Goes
<1>13. Sweeping'
  BY <1>v, <1>t, <1>e DEF V!RecordFailure, V!At, V!Fine, V!Close, V!Go, V!RecordLost, V!Fault,
     V!Rest, V!Open,
     V!Terminal, TypeLess, Settles, Goes, Sweeping, NoLeases, UnbanHolds, V!Owns
<1>14. Mistrusted'
  <2>1. unban' = unban
    BY DEF V!RecordFailure
  <2>2. CASE V!Owns(e) /\ ticket' = ticket
    BY <1>v, <2>1, <2>2 DEF Mistrusted, Unwatched, UnbanHolds, NoLeases, V!Owns, V!Terminal
  <2>3. CASE Goes(e, {"fix"})
    BY <2>3 DEF Mistrusted, Doubts, Goes
  <2>4. CASE stray' = (stray \/ ~V!Owns(e)) /\ poll' = poll
    BY <2>4 DEF Mistrusted, V!Owns, V!Terminal
  <2> QED  BY <1>e, <2>2, <2>3, <2>4
<1>15. Counted'
  BY <1>v, <1>t, <1>e, <1>4, <1>5, <1>f DEF V!RecordFailure, V!At, V!Fine, V!Close, V!Go,
     V!RecordLost,
     V!Fault, V!Rest, V!Open, V!Terminal, TypeLess, Settles, Goes, Counted, V!ThresholdSeen
<1> QED
  BY <1>7, <1>8, <1>9, <1>10, <1>11, <1>12, <1>13, <1>14, <1>15 DEF VoteInv

\* What it has lost is reconciled:
LEMMA HoldsReconcile ==
  ASSUME V!VoteAssumption, VoteInv, NEW e \in Enforcers, V!Reconcile(e)
  PROVE  VoteInv'
<1>v. /\ V!TypeOK /\ Early /\ NoLeases /\ UnbanHolds /\ Lifting /\ InForce
      /\ Sweeping /\ Mistrusted
      /\ Counted
  BY DEF VoteInv
<1>t. TypeLess
  BY <1>v DEF TypeLess, V!TypeOK, Crew, Enforcing, Steps
<1>f. voteFaults \in Nat /\ MaxVoteFaults \in Nat /\ voteCrashes \in Nat
  BY <1>v DEF V!TypeOK, V!VoteAssumption
<1>e. /\ enforcer' \in Crew
      /\ \/ Goes(e, {"fix.ban"})
         \/ Goes(e, {"fix.lift"}) /\ poll # "enforcing"
         \/ Goes(e, {"idle", "told"}) /\ V!At(e, "fix.kept") /\ V!Preserve
         \/ Goes(e, {"idle", "told"}) /\ V!At(e, "fix.freed") /\ ~V!Preserve
  <2>1. \/ V!Go(e, "fix.ban")
        \/ V!Go(e, "fix.lift") /\ poll # "enforcing"
        \/ V!Over(e) /\ V!At(e, "fix.kept") /\ V!Preserve
        \/ V!Over(e) /\ V!At(e, "fix.freed") /\ ~V!Preserve
    BY DEF V!Reconcile, V!Preserve
  <2> QED  BY <2>1, <1>t, GoForm, OverForm DEF Goes, Steps, V!Fixing, TypeLess
<1>1. /\ poll' \in {"none"} \cup V!Open \cup V!Terminal
      /\ ticket' \in {"none", "leased", "due", "swept"}
      /\ unban' \in {"idle", "lift", "clear", "restore", "done"}
      /\ sweeper' \in {"idle", "act", "kept", "lifted"} /\ watch' \in {"off", "on", "dead"}
      /\ start' \in {"idle", "send", "withdraw"}
  BY <1>v DEF V!Reconcile, V!At, V!Go, V!rowVars, V!targetVars, V!Rest, V!Preserve, V!Open,
     V!Terminal, V!TypeOK
<1>2. ballots' \subseteq Voters /\ counting' \subseteq ballots'
  BY <1>v DEF V!Reconcile, V!At, V!Go, V!rowVars, V!targetVars, V!Rest, V!Preserve, V!Open,
     V!Terminal, V!TypeOK
<1>3. /\ stale' \in BOOLEAN /\ voteBanned' \in BOOLEAN /\ votePolicy' \in BOOLEAN
      /\ notify' \in BOOLEAN /\ shown' \in BOOLEAN /\ stray' \in BOOLEAN
  BY <1>v DEF V!Reconcile, V!At, V!Go, V!rowVars, V!targetVars, V!Rest, V!Preserve, V!Open,
     V!Terminal, V!TypeOK
<1>4. voteFaults' = voteFaults \/ (voteFaults < MaxVoteFaults /\ voteFaults' = voteFaults + 1)
  BY <1>v DEF V!Reconcile, V!At, V!Go, V!rowVars, V!targetVars, V!Rest, V!Preserve
<1>5. \/ voteCrashes' = voteCrashes
      \/ voteCrashes < MaxVoteCrashes /\ voteCrashes' = voteCrashes + 1
  BY <1>v DEF V!Reconcile, V!At, V!Go, V!rowVars, V!targetVars, V!Rest, V!Preserve
<1>6. voteFaults' \in 0..MaxVoteFaults /\ voteCrashes' \in 0..MaxVoteCrashes
  BY <1>v, <1>5, <1>4 DEF V!TypeOK, V!VoteAssumption
<1>7. V!TypeOK'
  BY <1>e, <1>1, <1>2, <1>3, <1>4, <1>5, <1>6 DEF V!TypeOK, Crew, Enforcing, Steps
<1>8. Early'
  BY <1>v, <1>t, <1>e DEF V!Reconcile, V!At, V!Go, V!rowVars, V!targetVars, V!Rest,
     V!Preserve, V!Open,
     V!Terminal, TypeLess, Goes, Early
<1>9. NoLeases'
  BY <1>v, <1>t, <1>e DEF V!Reconcile, V!At, V!Go, V!rowVars, V!targetVars, V!Rest,
     V!Preserve, V!Open,
     V!Terminal, TypeLess, Goes, NoLeases, V!Owns
<1>10. UnbanHolds'
  BY <1>v, <1>t, <1>e DEF V!Reconcile, V!At, V!Go, V!rowVars, V!targetVars, V!Rest,
     V!Preserve, V!Open,
     V!Terminal, TypeLess, Goes, UnbanHolds, NoLeases, V!Owns, Early
<1>11. Lifting'
  BY <1>v, <1>t, <1>e DEF V!Reconcile, V!At, V!Go, V!rowVars, V!targetVars, V!Rest,
     V!Preserve, V!Open,
     V!Terminal, TypeLess, Goes, Lifting, Early
<1>12. InForce'
  BY <1>v, <1>t, <1>e DEF V!Reconcile, V!At, V!Go, V!rowVars, V!targetVars, V!Rest,
     V!Preserve, V!Open,
     V!Terminal, TypeLess, Goes, InForce, NoLeases, V!Owns, Lifting, UnbanHolds
<1>13. Sweeping'
  BY <1>v, <1>t, <1>e DEF V!Reconcile, V!At, V!Go, V!rowVars, V!targetVars, V!Rest,
     V!Preserve, V!Open,
     V!Terminal, TypeLess, Goes, Sweeping, NoLeases, UnbanHolds, V!Owns
<1>14. Mistrusted'
  BY <1>v, <1>t, <1>e DEF V!Reconcile, V!At, V!Go, V!rowVars, V!targetVars, V!Rest,
     V!Preserve, V!Open,
     V!Terminal, TypeLess, Goes, Mistrusted, Unwatched, Sweeping, Doubts, Early, UnbanHolds,
     InForce, V!Owns, NoLeases
<1>15. Counted'
  BY <1>v, <1>t, <1>e, <1>4, <1>5, <1>f DEF V!Reconcile, V!At, V!Go, V!rowVars, V!targetVars,
     V!Rest,
     V!Preserve, V!Open, V!Terminal, TypeLess, Goes, Counted, V!ThresholdSeen
<1> QED
  BY <1>7, <1>8, <1>9, <1>10, <1>11, <1>12, <1>13, <1>14, <1>15 DEF VoteInv

\* the call.
LEMMA HoldsReconcileCall ==
  ASSUME V!VoteAssumption, VoteInv, NEW e \in Enforcers, V!ReconcileCall(e)
  PROVE  VoteInv'
<1>v. /\ V!TypeOK /\ Early /\ NoLeases /\ UnbanHolds /\ Lifting /\ InForce
      /\ Sweeping /\ Mistrusted
      /\ Counted
  BY DEF VoteInv
<1>t. TypeLess
  BY <1>v DEF TypeLess, V!TypeOK, Crew, Enforcing, Steps
<1>f. voteFaults \in Nat /\ MaxVoteFaults \in Nat /\ voteCrashes \in Nat
  BY <1>v DEF V!TypeOK, V!VoteAssumption
<1>e. /\ enforcer' \in Crew
      /\ \/ V!At(e, "fix.ban") /\ voteBanned' = TRUE /\ Goes(e, {"fix.kept"}) /\ stray' = stray
         \/ V!At(e, "fix.lift") /\ voteBanned' = FALSE /\ Goes(e, {"fix.freed"})
             /\ stray' = stray
         \/ stray' = TRUE /\ Goes(e, {"idle", "told"})
  <2>1. \/ V!At(e, "fix.ban") /\ voteBanned' = TRUE /\ V!Go(e, "fix.kept") /\ stray' = stray
        \/ V!At(e, "fix.lift") /\ voteBanned' = FALSE /\ V!Go(e, "fix.freed") /\ stray' = stray
        \/ stray' = TRUE /\ V!Over(e)
    BY DEF V!ReconcileCall, V!At
  <2> QED  BY <2>1, <1>t, GoForm, OverForm DEF Goes, Steps, V!Fixing, TypeLess
<1>1. /\ poll' \in {"none"} \cup V!Open \cup V!Terminal
      /\ ticket' \in {"none", "leased", "due", "swept"}
      /\ unban' \in {"idle", "lift", "clear", "restore", "done"}
      /\ sweeper' \in {"idle", "act", "kept", "lifted"} /\ watch' \in {"off", "on", "dead"}
      /\ start' \in {"idle", "send", "withdraw"}
  BY <1>v DEF V!ReconcileCall, V!At, V!Fine, V!Go, V!Fault, V!rowVars, V!Rest, V!Open,
     V!Terminal, V!TypeOK
<1>2. ballots' \subseteq Voters /\ counting' \subseteq ballots'
  BY <1>v DEF V!ReconcileCall, V!At, V!Fine, V!Go, V!Fault, V!rowVars, V!Rest, V!Open,
     V!Terminal, V!TypeOK
<1>3. /\ stale' \in BOOLEAN /\ voteBanned' \in BOOLEAN /\ votePolicy' \in BOOLEAN
      /\ notify' \in BOOLEAN /\ shown' \in BOOLEAN /\ stray' \in BOOLEAN
  BY <1>v DEF V!ReconcileCall, V!At, V!Fine, V!Go, V!Fault, V!rowVars, V!Rest, V!Open,
     V!Terminal, V!TypeOK
<1>4. voteFaults' = voteFaults \/ (voteFaults < MaxVoteFaults /\ voteFaults' = voteFaults + 1)
  BY <1>v DEF V!ReconcileCall, V!At, V!Fine, V!Go, V!Fault, V!rowVars, V!Rest
<1>5. \/ voteCrashes' = voteCrashes
      \/ voteCrashes < MaxVoteCrashes /\ voteCrashes' = voteCrashes + 1
  BY <1>v DEF V!ReconcileCall, V!At, V!Fine, V!Go, V!Fault, V!rowVars, V!Rest
<1>6. voteFaults' \in 0..MaxVoteFaults /\ voteCrashes' \in 0..MaxVoteCrashes
  BY <1>v, <1>5, <1>4 DEF V!TypeOK, V!VoteAssumption
<1>7. V!TypeOK'
  BY <1>e, <1>1, <1>2, <1>3, <1>4, <1>5, <1>6 DEF V!TypeOK, Crew, Enforcing, Steps
<1>8. Early'
  BY <1>v, <1>t, <1>e DEF V!ReconcileCall, V!At, V!Fine, V!Go, V!Fault, V!rowVars, V!Rest,
     V!Open, V!Terminal,
     TypeLess, Goes, Early
<1>9. NoLeases'
  BY <1>v, <1>t, <1>e DEF V!ReconcileCall, V!At, V!Fine, V!Go, V!Fault, V!rowVars, V!Rest,
     V!Open, V!Terminal,
     TypeLess, Goes, NoLeases, V!Owns
<1>10. UnbanHolds'
  BY <1>v, <1>t, <1>e DEF V!ReconcileCall, V!At, V!Fine, V!Go, V!Fault, V!rowVars, V!Rest,
     V!Open, V!Terminal,
     TypeLess, Goes, UnbanHolds, NoLeases, V!Owns, Early
<1>11. Lifting'
  BY <1>v, <1>t, <1>e DEF V!ReconcileCall, V!At, V!Fine, V!Go, V!Fault, V!rowVars, V!Rest,
     V!Open, V!Terminal,
     TypeLess, Goes, Lifting, Early, V!Preserve
<1>12. InForce'
  BY <1>v, <1>t, <1>e DEF V!ReconcileCall, V!At, V!Fine, V!Go, V!Fault, V!rowVars, V!Rest,
     V!Open, V!Terminal,
     TypeLess, Goes, InForce, NoLeases, V!Owns, Lifting, UnbanHolds
<1>13. Sweeping'
  BY <1>v, <1>t, <1>e DEF V!ReconcileCall, V!At, V!Fine, V!Go, V!Fault, V!rowVars, V!Rest,
     V!Open, V!Terminal,
     TypeLess, Goes, Sweeping, NoLeases, UnbanHolds, V!Owns
<1>14. Mistrusted'
  BY <1>v, <1>t, <1>e DEF V!ReconcileCall, V!At, V!Fine, V!Go, V!Fault, V!rowVars, V!Rest,
     V!Open, V!Terminal,
     TypeLess, Goes, Mistrusted, Unwatched, Sweeping, Doubts, Early, UnbanHolds, InForce,
     V!Owns, NoLeases
<1>15. Counted'
  BY <1>v, <1>t, <1>e, <1>4, <1>5, <1>f DEF V!ReconcileCall, V!At, V!Fine, V!Go, V!Fault,
     V!rowVars,
     V!Rest, V!Open, V!Terminal, TypeLess, Goes, Counted, V!ThresholdSeen
<1> QED
  BY <1>7, <1>8, <1>9, <1>10, <1>11, <1>12, <1>13, <1>14, <1>15 DEF VoteInv

\* The loop is told.
LEMMA HoldsTell ==
  ASSUME V!VoteAssumption, VoteInv, NEW e \in Enforcers, V!Tell(e)
  PROVE  VoteInv'
<1>v. /\ V!TypeOK /\ Early /\ NoLeases /\ UnbanHolds /\ Lifting /\ InForce
      /\ Sweeping /\ Mistrusted
      /\ Counted
  BY DEF VoteInv
<1>t. TypeLess
  BY <1>v DEF TypeLess, V!TypeOK, Crew, Enforcing, Steps
<1>f. voteFaults \in Nat /\ MaxVoteFaults \in Nat /\ voteCrashes \in Nat
  BY <1>v DEF V!TypeOK, V!VoteAssumption
<1>e. /\ enforcer' \in Crew
      /\ Fewer
  <2> DEFINE f == [enforcer EXCEPT ![e] = V!Resting]
  <2>1. /\ f \in Crew /\ f[e].at = "idle" /\ ~f[e].token /\ ~f[e].lease
        /\ \A x \in Enforcers : x # e => f[x] = enforcer[x]
    BY <1>t, Rested DEF TypeLess
  <2> HIDE DEF f
  <2>2. CASE V!CancelLoop(f)
    BY <2>1, <2>2, CancelForm DEF Fewer
  <2>3. CASE V!Rest(e)
    BY <1>t, <2>3, RestForm DEF TypeLess, Goes, Fewer
  <2> QED  BY <2>2, <2>3 DEF V!Tell, f
<1>1. /\ poll' \in {"none"} \cup V!Open \cup V!Terminal
      /\ ticket' \in {"none", "leased", "due", "swept"}
      /\ unban' \in {"idle", "lift", "clear", "restore", "done"}
      /\ sweeper' \in {"idle", "act", "kept", "lifted"} /\ watch' \in {"off", "on", "dead"}
      /\ start' \in {"idle", "send", "withdraw"}
  BY <1>v DEF V!Tell, V!At, V!Rest, V!rowVars, V!Open, V!Terminal, V!TypeOK, V!CancelLoop
<1>2. ballots' \subseteq Voters /\ counting' \subseteq ballots'
  BY <1>v DEF V!Tell, V!At, V!Rest, V!rowVars, V!Open, V!Terminal, V!TypeOK, V!CancelLoop
<1>3. /\ stale' \in BOOLEAN /\ voteBanned' \in BOOLEAN /\ votePolicy' \in BOOLEAN
      /\ notify' \in BOOLEAN /\ shown' \in BOOLEAN /\ stray' \in BOOLEAN
  BY <1>v DEF V!Tell, V!At, V!Rest, V!rowVars, V!Open, V!Terminal, V!TypeOK, V!CancelLoop
<1>4. voteFaults' = voteFaults \/ (voteFaults < MaxVoteFaults /\ voteFaults' = voteFaults + 1)
  BY <1>v DEF V!Tell, V!At, V!Rest, V!rowVars
<1>5. \/ voteCrashes' = voteCrashes
      \/ voteCrashes < MaxVoteCrashes /\ voteCrashes' = voteCrashes + 1
  BY <1>v DEF V!Tell, V!At, V!Rest, V!rowVars
<1>6. voteFaults' \in 0..MaxVoteFaults /\ voteCrashes' \in 0..MaxVoteCrashes
  BY <1>v, <1>5, <1>4 DEF V!TypeOK, V!VoteAssumption
<1>7. V!TypeOK'
  BY <1>e, <1>1, <1>2, <1>3, <1>4, <1>5, <1>6 DEF V!TypeOK, Crew, Enforcing, Steps
<1>8. Early'
  BY <1>v, <1>e DEF V!Tell, V!rowVars, Early, V!At
<1>9. NoLeases'
  BY <1>v, <1>t, <1>e DEF V!Tell, V!At, V!Rest, V!rowVars, V!Open, V!Terminal, TypeLess, Fewer,
     NoLeases, V!Owns
<1>10. UnbanHolds'
  BY <1>v, <1>t, <1>e DEF V!Tell, V!At, V!Rest, V!rowVars, V!Open, V!Terminal, TypeLess, Fewer,
     UnbanHolds, NoLeases, V!Owns, Early
<1>11. Lifting'
  BY <1>v, <1>t, <1>e DEF V!Tell, V!At, V!Rest, V!rowVars, V!Open, V!Terminal, TypeLess,
     Fewer, Lifting,
     Early, V!Preserve
<1>12. InForce'
  <2>1. UNCHANGED <<poll, ticket>> /\ (voteBanned => voteBanned') /\ (stray => stray')
    BY <1>v, <1>t DEF V!Tell, V!CancelLoop, V!rowVars, TypeLess, V!TypeOK
  <2> QED  BY <1>v, <1>e, <2>1 DEF InForce, Fewer, V!At, V!Owns
<1>13. Sweeping'
  BY <1>v, <1>t, <1>e DEF V!Tell, V!At, V!Rest, V!rowVars, V!Open, V!Terminal, TypeLess, Fewer,
     Sweeping, NoLeases, UnbanHolds, V!Owns
<1>14. Mistrusted'
  <2> DEFINE f == [enforcer EXCEPT ![e] = V!Resting]
  <2>1. UNCHANGED <<poll, ticket, votePolicy, unban, sweeper>> /\ V!At(e, "told")
    BY DEF V!Tell, V!rowVars
  <2>2. f \in Crew /\ \A x \in Enforcers : x # e => f[x] = enforcer[x]
    BY <1>t, Rested DEF TypeLess
  <2>3. \A x \in Enforcers : Doubts(x) => x # e
    BY <2>1 DEF Doubts, V!At
  <2> HIDE DEF f
  <2>4. CASE V!CancelLoop(f)
    BY <1>v, <1>t, <2>1, <2>2, <2>3, <2>4, CancelKeeps DEF V!TypeOK
  <2>5. CASE V!Rest(e) /\ UNCHANGED <<voteBanned, stray>>
    <3>1. \A x \in Enforcers : x # e => enforcer'[x] = enforcer[x]
      BY <1>t, <2>5, RestForm DEF TypeLess, Goes
    <3> QED  BY <1>v, <2>1, <2>3, <2>5, <3>1 DEF Mistrusted, Unwatched, Doubts, V!At
  <2> QED  BY <2>4, <2>5 DEF V!Tell, f
<1>15. Counted'
  BY <1>v, <1>t, <1>e, <1>4, <1>5, <1>f DEF V!Tell, V!At, V!Rest, V!rowVars, V!Open,
     V!Terminal,
     TypeLess, Fewer, Counted, V!ThresholdSeen
<1> QED
  BY <1>7, <1>8, <1>9, <1>10, <1>11, <1>12, <1>13, <1>14, <1>15 DEF VoteInv

\* /unban takes the ticket,
LEMMA HoldsUnbanStart ==
  ASSUME V!VoteAssumption, VoteInv, V!UnbanStart
  PROVE  VoteInv'
<1>v. /\ V!TypeOK /\ Early /\ NoLeases /\ UnbanHolds /\ Lifting /\ InForce
      /\ Sweeping /\ Mistrusted
      /\ Counted
  BY DEF VoteInv
<1>t. TypeLess
  BY <1>v DEF TypeLess, V!TypeOK, Crew, Enforcing, Steps
<1>f. voteFaults \in Nat /\ MaxVoteFaults \in Nat /\ voteCrashes \in Nat
  BY <1>v DEF V!TypeOK, V!VoteAssumption
<1>e. /\ enforcer' \in Crew
      /\ \A x \in Enforcers : /\ enforcer'[x].at = enforcer[x].at
                              /\ ~enforcer'[x].lease
                              /\ enforcer'[x].token => enforcer[x].token
  BY <1>t, Dispossessed DEF V!UnbanStart, V!Close, TypeLess
<1>1. /\ poll' \in {"none"} \cup V!Open \cup V!Terminal
      /\ ticket' \in {"none", "leased", "due", "swept"}
      /\ unban' \in {"idle", "lift", "clear", "restore", "done"}
      /\ sweeper' \in {"idle", "act", "kept", "lifted"} /\ watch' \in {"off", "on", "dead"}
      /\ start' \in {"idle", "send", "withdraw"}
  BY <1>v DEF V!UnbanStart, V!Close, V!Open, V!Terminal, V!TypeOK
<1>2. ballots' \subseteq Voters /\ counting' \subseteq ballots'
  BY <1>v DEF V!UnbanStart, V!Close, V!Open, V!Terminal, V!TypeOK
<1>3. /\ stale' \in BOOLEAN /\ voteBanned' \in BOOLEAN /\ votePolicy' \in BOOLEAN
      /\ notify' \in BOOLEAN /\ shown' \in BOOLEAN /\ stray' \in BOOLEAN
  BY <1>v DEF V!UnbanStart, V!Close, V!Open, V!Terminal, V!TypeOK
<1>4. voteFaults' = voteFaults \/ (voteFaults < MaxVoteFaults /\ voteFaults' = voteFaults + 1)
  BY <1>v DEF V!UnbanStart, V!Close
<1>5. \/ voteCrashes' = voteCrashes
      \/ voteCrashes < MaxVoteCrashes /\ voteCrashes' = voteCrashes + 1
  BY <1>v DEF V!UnbanStart, V!Close
<1>6. voteFaults' \in 0..MaxVoteFaults /\ voteCrashes' \in 0..MaxVoteCrashes
  BY <1>v, <1>5, <1>4 DEF V!TypeOK, V!VoteAssumption
<1>7. V!TypeOK'
  BY <1>e, <1>1, <1>2, <1>3, <1>4, <1>5, <1>6 DEF V!TypeOK, Crew, Enforcing, Steps
<1>8. Early'
  BY <1>v, <1>t, <1>e DEF V!UnbanStart, V!Close, V!At, V!Open, V!Terminal, TypeLess, Early
<1>9. NoLeases'
  BY <1>v, <1>t, <1>e DEF V!UnbanStart, V!Close, V!At, V!Open, V!Terminal, TypeLess, NoLeases,
     V!Owns
<1>10. UnbanHolds'
  BY <1>v, <1>t, <1>e DEF V!UnbanStart, V!Close, V!At, V!Open, V!Terminal, TypeLess,
     UnbanHolds,
     NoLeases, V!Owns, Early
<1>11. Lifting'
  BY <1>v, <1>t, <1>e DEF V!UnbanStart, V!Close, V!At, V!Open, V!Terminal, TypeLess, Lifting,
     Early,
     V!Preserve
<1>12. InForce'
  BY <1>v, <1>t, <1>e DEF V!UnbanStart, V!Close, V!At, V!Open, V!Terminal, TypeLess, InForce,
     NoLeases, V!Owns, Lifting, UnbanHolds
<1>13. Sweeping'
  BY <1>v, <1>t, <1>e DEF V!UnbanStart, V!Close, V!At, V!Open, V!Terminal, TypeLess, Sweeping,
     NoLeases, UnbanHolds, V!Owns
<1>14. Mistrusted'
  BY <1>v, <1>t, <1>e DEF V!UnbanStart, V!Close, V!At, V!Open, V!Terminal, TypeLess,
     Mistrusted,
     Unwatched, Sweeping, Doubts, Early, UnbanHolds, InForce, V!Owns, NoLeases
<1>15. Counted'
  BY <1>v, <1>t, <1>e, <1>4, <1>5, <1>f DEF V!UnbanStart, V!Close, V!At, V!Open, V!Terminal,
     TypeLess,
     Counted, V!ThresholdSeen
<1> QED
  BY <1>7, <1>8, <1>9, <1>10, <1>11, <1>12, <1>13, <1>14, <1>15 DEF VoteInv

\* cancels the loop,
LEMMA HoldsUnbanNotifies ==
  ASSUME V!VoteAssumption, VoteInv, V!UnbanNotifies
  PROVE  VoteInv'
<1>v. /\ V!TypeOK /\ Early /\ NoLeases /\ UnbanHolds /\ Lifting /\ InForce
      /\ Sweeping /\ Mistrusted
      /\ Counted
  BY DEF VoteInv
<1>t. TypeLess
  BY <1>v DEF TypeLess, V!TypeOK, Crew, Enforcing, Steps
<1>f. voteFaults \in Nat /\ MaxVoteFaults \in Nat /\ voteCrashes \in Nat
  BY <1>v DEF V!TypeOK, V!VoteAssumption
<1>e. /\ enforcer' \in Crew
      /\ Fewer
  <2>1. CASE V!CancelLoop(enforcer)
    BY <1>t, <2>1, CancelForm DEF TypeLess, Fewer
  <2>2. CASE UNCHANGED enforcer
    BY <1>t, <2>2 DEF TypeLess, Fewer
  <2> QED  BY <2>1, <2>2 DEF V!UnbanNotifies
<1>1. /\ poll' \in {"none"} \cup V!Open \cup V!Terminal
      /\ ticket' \in {"none", "leased", "due", "swept"}
      /\ unban' \in {"idle", "lift", "clear", "restore", "done"}
      /\ sweeper' \in {"idle", "act", "kept", "lifted"} /\ watch' \in {"off", "on", "dead"}
      /\ start' \in {"idle", "send", "withdraw"}
  BY <1>v DEF V!UnbanNotifies, V!Fine, V!Fault, V!rowVars, V!Open, V!Terminal, V!TypeOK,
     V!CancelLoop
<1>2. ballots' \subseteq Voters /\ counting' \subseteq ballots'
  BY <1>v DEF V!UnbanNotifies, V!Fine, V!Fault, V!rowVars, V!Open, V!Terminal, V!TypeOK,
     V!CancelLoop
<1>3. /\ stale' \in BOOLEAN /\ voteBanned' \in BOOLEAN /\ votePolicy' \in BOOLEAN
      /\ notify' \in BOOLEAN /\ shown' \in BOOLEAN /\ stray' \in BOOLEAN
  BY <1>v DEF V!UnbanNotifies, V!Fine, V!Fault, V!rowVars, V!Open, V!Terminal, V!TypeOK,
     V!CancelLoop
<1>4. voteFaults' = voteFaults \/ (voteFaults < MaxVoteFaults /\ voteFaults' = voteFaults + 1)
  BY <1>v DEF V!UnbanNotifies, V!Fine, V!Fault, V!rowVars
<1>5. \/ voteCrashes' = voteCrashes
      \/ voteCrashes < MaxVoteCrashes /\ voteCrashes' = voteCrashes + 1
  BY <1>v DEF V!UnbanNotifies, V!Fine, V!Fault, V!rowVars
<1>6. voteFaults' \in 0..MaxVoteFaults /\ voteCrashes' \in 0..MaxVoteCrashes
  BY <1>v, <1>5, <1>4 DEF V!TypeOK, V!VoteAssumption
<1>7. V!TypeOK'
  BY <1>e, <1>1, <1>2, <1>3, <1>4, <1>5, <1>6 DEF V!TypeOK, Crew, Enforcing, Steps
<1>8. Early'
  <2>1. UNCHANGED <<poll, counting, ticket, votePolicy, unban, sweeper>>
    BY DEF V!UnbanNotifies, V!rowVars
  <2>2. Loop \in Enforcers
    BY DEF V!VoteAssumption
  <2>3. (\A x \in Enforcers : V!At(x, "idle")) => voteBanned' = voteBanned
    BY <1>t, <2>2 DEF V!UnbanNotifies, V!CancelLoop, V!At, TypeLess
  <2> QED  BY <1>v, <1>t, <1>e, <2>1, <2>3 DEF Early, Fewer, V!At, TypeLess
<1>9. NoLeases'
  BY <1>v, <1>t, <1>e DEF V!UnbanNotifies, V!Fine, V!Fault, V!rowVars, V!At, V!Open,
     V!Terminal, TypeLess,
     Fewer, NoLeases, V!Owns
<1>10. UnbanHolds'
  BY <1>v, <1>t, <1>e DEF V!UnbanNotifies, V!Fine, V!Fault, V!rowVars, V!At, V!Open,
     V!Terminal, TypeLess,
     Fewer, UnbanHolds, NoLeases, V!Owns, Early
<1>11. Lifting'
  BY <1>v, <1>t, <1>e DEF V!UnbanNotifies, V!Fine, V!Fault, V!rowVars, V!At, V!Open,
     V!Terminal, TypeLess,
     Fewer, Lifting, Early, V!Preserve
<1>12. InForce'
  <2>1. UNCHANGED <<poll, ticket>> /\ (voteBanned => voteBanned') /\ (stray => stray')
    BY <1>v, <1>t DEF V!UnbanNotifies, V!CancelLoop, V!rowVars, TypeLess, V!TypeOK
  <2> QED  BY <1>v, <1>e, <2>1 DEF InForce, Fewer, V!At, V!Owns
<1>13. Sweeping'
  BY <1>v, <1>t, <1>e DEF V!UnbanNotifies, V!Fine, V!Fault, V!rowVars, V!At, V!Open,
     V!Terminal, TypeLess,
     Fewer, Sweeping, NoLeases, UnbanHolds, V!Owns
<1>14. Mistrusted'
  <2>1. UNCHANGED <<poll, ticket, votePolicy, unban, sweeper>>
    BY DEF V!UnbanNotifies, V!rowVars
  <2>2. CASE V!CancelLoop(enforcer)
    BY <1>v, <1>t, <2>1, <2>2, CancelKeeps DEF V!TypeOK, TypeLess
  <2>3. CASE UNCHANGED <<enforcer, voteBanned, stray>>
    BY <1>v, <2>1, <2>3 DEF Mistrusted, Unwatched, Doubts, V!At
  <2> QED  BY <2>2, <2>3 DEF V!UnbanNotifies
<1>15. Counted'
  BY <1>v, <1>t, <1>e, <1>4, <1>5, <1>f DEF V!UnbanNotifies, V!Fine, V!Fault, V!rowVars, V!At,
     V!Open,
     V!Terminal, TypeLess, Fewer, Counted, V!ThresholdSeen
<1> QED
  BY <1>7, <1>8, <1>9, <1>10, <1>11, <1>12, <1>13, <1>14, <1>15 DEF VoteInv

\* lifts the ban,
LEMMA HoldsUnbanLift ==
  ASSUME V!VoteAssumption, VoteInv, V!UnbanLift
  PROVE  VoteInv'
<1>v. /\ V!TypeOK /\ Early /\ NoLeases /\ UnbanHolds /\ Lifting /\ InForce
      /\ Sweeping /\ Mistrusted
      /\ Counted
  BY DEF VoteInv
<1>t. TypeLess
  BY <1>v DEF TypeLess, V!TypeOK, Crew, Enforcing, Steps
<1>f. voteFaults \in Nat /\ MaxVoteFaults \in Nat /\ voteCrashes \in Nat
  BY <1>v DEF V!TypeOK, V!VoteAssumption
<1>e. /\ enforcer' \in Crew
      /\ enforcer' = enforcer
  BY <1>t DEF V!UnbanLift, V!Fine, V!Fault, V!rowVars, TypeLess
<1>1. /\ poll' \in {"none"} \cup V!Open \cup V!Terminal
      /\ ticket' \in {"none", "leased", "due", "swept"}
      /\ unban' \in {"idle", "lift", "clear", "restore", "done"}
      /\ sweeper' \in {"idle", "act", "kept", "lifted"} /\ watch' \in {"off", "on", "dead"}
      /\ start' \in {"idle", "send", "withdraw"}
  BY <1>v DEF V!UnbanLift, V!Fine, V!Fault, V!rowVars, V!Open, V!Terminal, V!TypeOK
<1>2. ballots' \subseteq Voters /\ counting' \subseteq ballots'
  BY <1>v DEF V!UnbanLift, V!Fine, V!Fault, V!rowVars, V!Open, V!Terminal, V!TypeOK
<1>3. /\ stale' \in BOOLEAN /\ voteBanned' \in BOOLEAN /\ votePolicy' \in BOOLEAN
      /\ notify' \in BOOLEAN /\ shown' \in BOOLEAN /\ stray' \in BOOLEAN
  BY <1>v DEF V!UnbanLift, V!Fine, V!Fault, V!rowVars, V!Open, V!Terminal, V!TypeOK
<1>4. voteFaults' = voteFaults \/ (voteFaults < MaxVoteFaults /\ voteFaults' = voteFaults + 1)
  BY <1>v DEF V!UnbanLift, V!Fine, V!Fault, V!rowVars
<1>5. \/ voteCrashes' = voteCrashes
      \/ voteCrashes < MaxVoteCrashes /\ voteCrashes' = voteCrashes + 1
  BY <1>v DEF V!UnbanLift, V!Fine, V!Fault, V!rowVars
<1>6. voteFaults' \in 0..MaxVoteFaults /\ voteCrashes' \in 0..MaxVoteCrashes
  BY <1>v, <1>5, <1>4 DEF V!TypeOK, V!VoteAssumption
<1>7. V!TypeOK'
  BY <1>e, <1>1, <1>2, <1>3, <1>4, <1>5, <1>6 DEF V!TypeOK, Crew, Enforcing, Steps
<1>8. Early'
  BY <1>v, <1>t, <1>e DEF V!UnbanLift, V!Fine, V!Fault, V!rowVars, V!At, V!Open, V!Terminal,
     TypeLess,
     Early
<1>9. NoLeases'
  BY <1>v, <1>t, <1>e DEF V!UnbanLift, V!Fine, V!Fault, V!rowVars, V!At, V!Open, V!Terminal,
     TypeLess,
     NoLeases, V!Owns
<1>10. UnbanHolds'
  BY <1>v, <1>t, <1>e DEF V!UnbanLift, V!Fine, V!Fault, V!rowVars, V!At, V!Open, V!Terminal,
     TypeLess,
     UnbanHolds, NoLeases, V!Owns, Early
<1>11. Lifting'
  BY <1>v, <1>t, <1>e DEF V!UnbanLift, V!Fine, V!Fault, V!rowVars, V!At, V!Open, V!Terminal,
     TypeLess,
     Lifting, Early, V!Preserve
<1>12. InForce'
  BY <1>v, <1>t, <1>e DEF V!UnbanLift, V!Fine, V!Fault, V!rowVars, V!At, V!Open, V!Terminal,
     TypeLess,
     InForce, NoLeases, V!Owns, Lifting, UnbanHolds
<1>13. Sweeping'
  BY <1>v, <1>t, <1>e DEF V!UnbanLift, V!Fine, V!Fault, V!rowVars, V!At, V!Open, V!Terminal,
     TypeLess,
     Sweeping, NoLeases, UnbanHolds, V!Owns
<1>14. Mistrusted'
  BY <1>v, <1>t, <1>e DEF V!UnbanLift, V!Fine, V!Fault, V!rowVars, V!At, V!Open, V!Terminal,
     TypeLess,
     Mistrusted, Unwatched, Sweeping, Doubts, Early, UnbanHolds, InForce, V!Owns, NoLeases
<1>15. Counted'
  BY <1>v, <1>t, <1>e, <1>4, <1>5, <1>f DEF V!UnbanLift, V!Fine, V!Fault, V!rowVars, V!At,
     V!Open,
     V!Terminal, TypeLess, Counted, V!ThresholdSeen
<1> QED
  BY <1>7, <1>8, <1>9, <1>10, <1>11, <1>12, <1>13, <1>14, <1>15 DEF VoteInv

\* clears the policy,
LEMMA HoldsUnbanClear ==
  ASSUME V!VoteAssumption, VoteInv, V!UnbanClear
  PROVE  VoteInv'
<1>v. /\ V!TypeOK /\ Early /\ NoLeases /\ UnbanHolds /\ Lifting /\ InForce
      /\ Sweeping /\ Mistrusted
      /\ Counted
  BY DEF VoteInv
<1>t. TypeLess
  BY <1>v DEF TypeLess, V!TypeOK, Crew, Enforcing, Steps
<1>f. voteFaults \in Nat /\ MaxVoteFaults \in Nat /\ voteCrashes \in Nat
  BY <1>v DEF V!TypeOK, V!VoteAssumption
<1>e. /\ enforcer' \in Crew
      /\ enforcer' = enforcer
  BY <1>t DEF V!UnbanClear, V!Fine, V!Fault, V!rowVars, TypeLess
<1>1. /\ poll' \in {"none"} \cup V!Open \cup V!Terminal
      /\ ticket' \in {"none", "leased", "due", "swept"}
      /\ unban' \in {"idle", "lift", "clear", "restore", "done"}
      /\ sweeper' \in {"idle", "act", "kept", "lifted"} /\ watch' \in {"off", "on", "dead"}
      /\ start' \in {"idle", "send", "withdraw"}
  BY <1>v DEF V!UnbanClear, V!Fine, V!Fault, V!rowVars, V!Open, V!Terminal, V!TypeOK
<1>2. ballots' \subseteq Voters /\ counting' \subseteq ballots'
  BY <1>v DEF V!UnbanClear, V!Fine, V!Fault, V!rowVars, V!Open, V!Terminal, V!TypeOK
<1>3. /\ stale' \in BOOLEAN /\ voteBanned' \in BOOLEAN /\ votePolicy' \in BOOLEAN
      /\ notify' \in BOOLEAN /\ shown' \in BOOLEAN /\ stray' \in BOOLEAN
  BY <1>v DEF V!UnbanClear, V!Fine, V!Fault, V!rowVars, V!Open, V!Terminal, V!TypeOK
<1>4. voteFaults' = voteFaults \/ (voteFaults < MaxVoteFaults /\ voteFaults' = voteFaults + 1)
  BY <1>v DEF V!UnbanClear, V!Fine, V!Fault, V!rowVars
<1>5. \/ voteCrashes' = voteCrashes
      \/ voteCrashes < MaxVoteCrashes /\ voteCrashes' = voteCrashes + 1
  BY <1>v DEF V!UnbanClear, V!Fine, V!Fault, V!rowVars
<1>6. voteFaults' \in 0..MaxVoteFaults /\ voteCrashes' \in 0..MaxVoteCrashes
  BY <1>v, <1>5, <1>4 DEF V!TypeOK, V!VoteAssumption
<1>7. V!TypeOK'
  BY <1>e, <1>1, <1>2, <1>3, <1>4, <1>5, <1>6 DEF V!TypeOK, Crew, Enforcing, Steps
<1>8. Early'
  BY <1>v, <1>t, <1>e DEF V!UnbanClear, V!Fine, V!Fault, V!rowVars, V!At, V!Open, V!Terminal,
     TypeLess,
     Early
<1>9. NoLeases'
  BY <1>v, <1>t, <1>e DEF V!UnbanClear, V!Fine, V!Fault, V!rowVars, V!At, V!Open, V!Terminal,
     TypeLess,
     NoLeases, V!Owns
<1>10. UnbanHolds'
  BY <1>v, <1>t, <1>e DEF V!UnbanClear, V!Fine, V!Fault, V!rowVars, V!At, V!Open, V!Terminal,
     TypeLess,
     UnbanHolds, NoLeases, V!Owns, Early
<1>11. Lifting'
  BY <1>v, <1>t, <1>e DEF V!UnbanClear, V!Fine, V!Fault, V!rowVars, V!At, V!Open, V!Terminal,
     TypeLess,
     Lifting, Early, V!Preserve
<1>12. InForce'
  BY <1>v, <1>t, <1>e DEF V!UnbanClear, V!Fine, V!Fault, V!rowVars, V!At, V!Open, V!Terminal,
     TypeLess,
     InForce, NoLeases, V!Owns, Lifting, UnbanHolds
<1>13. Sweeping'
  BY <1>v, <1>t, <1>e DEF V!UnbanClear, V!Fine, V!Fault, V!rowVars, V!At, V!Open, V!Terminal,
     TypeLess,
     Sweeping, NoLeases, UnbanHolds, V!Owns
<1>14. Mistrusted'
  BY <1>v, <1>t, <1>e DEF V!UnbanClear, V!Fine, V!Fault, V!rowVars, V!At, V!Open, V!Terminal,
     TypeLess,
     Mistrusted, Unwatched, Sweeping, Doubts, Early, UnbanHolds, InForce, V!Owns, NoLeases
<1>15. Counted'
  BY <1>v, <1>t, <1>e, <1>4, <1>5, <1>f DEF V!UnbanClear, V!Fine, V!Fault, V!rowVars, V!At,
     V!Open,
     V!Terminal, TypeLess, Counted, V!ThresholdSeen
<1> QED
  BY <1>7, <1>8, <1>9, <1>10, <1>11, <1>12, <1>13, <1>14, <1>15 DEF VoteInv

\* gives the permissions back,
LEMMA HoldsUnbanRestore ==
  ASSUME V!VoteAssumption, VoteInv, V!UnbanRestore
  PROVE  VoteInv'
<1>v. /\ V!TypeOK /\ Early /\ NoLeases /\ UnbanHolds /\ Lifting /\ InForce
      /\ Sweeping /\ Mistrusted
      /\ Counted
  BY DEF VoteInv
<1>t. TypeLess
  BY <1>v DEF TypeLess, V!TypeOK, Crew, Enforcing, Steps
<1>f. voteFaults \in Nat /\ MaxVoteFaults \in Nat /\ voteCrashes \in Nat
  BY <1>v DEF V!TypeOK, V!VoteAssumption
<1>e. /\ enforcer' \in Crew
      /\ enforcer' = enforcer
  BY <1>t DEF V!UnbanRestore, V!Fine, V!Fault, V!rowVars, V!targetVars, TypeLess
<1>1. /\ poll' \in {"none"} \cup V!Open \cup V!Terminal
      /\ ticket' \in {"none", "leased", "due", "swept"}
      /\ unban' \in {"idle", "lift", "clear", "restore", "done"}
      /\ sweeper' \in {"idle", "act", "kept", "lifted"} /\ watch' \in {"off", "on", "dead"}
      /\ start' \in {"idle", "send", "withdraw"}
  BY <1>v DEF V!UnbanRestore, V!Fine, V!Fault, V!rowVars, V!targetVars, V!Open, V!Terminal,
     V!TypeOK
<1>2. ballots' \subseteq Voters /\ counting' \subseteq ballots'
  BY <1>v DEF V!UnbanRestore, V!Fine, V!Fault, V!rowVars, V!targetVars, V!Open, V!Terminal,
     V!TypeOK
<1>3. /\ stale' \in BOOLEAN /\ voteBanned' \in BOOLEAN /\ votePolicy' \in BOOLEAN
      /\ notify' \in BOOLEAN /\ shown' \in BOOLEAN /\ stray' \in BOOLEAN
  BY <1>v DEF V!UnbanRestore, V!Fine, V!Fault, V!rowVars, V!targetVars, V!Open, V!Terminal,
     V!TypeOK
<1>4. voteFaults' = voteFaults \/ (voteFaults < MaxVoteFaults /\ voteFaults' = voteFaults + 1)
  BY <1>v DEF V!UnbanRestore, V!Fine, V!Fault, V!rowVars, V!targetVars
<1>5. \/ voteCrashes' = voteCrashes
      \/ voteCrashes < MaxVoteCrashes /\ voteCrashes' = voteCrashes + 1
  BY <1>v DEF V!UnbanRestore, V!Fine, V!Fault, V!rowVars, V!targetVars
<1>6. voteFaults' \in 0..MaxVoteFaults /\ voteCrashes' \in 0..MaxVoteCrashes
  BY <1>v, <1>5, <1>4 DEF V!TypeOK, V!VoteAssumption
<1>7. V!TypeOK'
  BY <1>e, <1>1, <1>2, <1>3, <1>4, <1>5, <1>6 DEF V!TypeOK, Crew, Enforcing, Steps
<1>8. Early'
  BY <1>v, <1>t, <1>e DEF V!UnbanRestore, V!Fine, V!Fault, V!rowVars, V!targetVars, V!At,
     V!Open,
     V!Terminal, TypeLess, Early
<1>9. NoLeases'
  BY <1>v, <1>t, <1>e DEF V!UnbanRestore, V!Fine, V!Fault, V!rowVars, V!targetVars, V!At,
     V!Open,
     V!Terminal, TypeLess, NoLeases, V!Owns
<1>10. UnbanHolds'
  BY <1>v, <1>t, <1>e DEF V!UnbanRestore, V!Fine, V!Fault, V!rowVars, V!targetVars, V!At,
     V!Open,
     V!Terminal, TypeLess, UnbanHolds, NoLeases, V!Owns, Early
<1>11. Lifting'
  BY <1>v, <1>t, <1>e DEF V!UnbanRestore, V!Fine, V!Fault, V!rowVars, V!targetVars, V!At,
     V!Open,
     V!Terminal, TypeLess, Lifting, Early, V!Preserve
<1>12. InForce'
  BY <1>v, <1>t, <1>e DEF V!UnbanRestore, V!Fine, V!Fault, V!rowVars, V!targetVars, V!At,
     V!Open,
     V!Terminal, TypeLess, InForce, NoLeases, V!Owns, Lifting, UnbanHolds
<1>13. Sweeping'
  BY <1>v, <1>t, <1>e DEF V!UnbanRestore, V!Fine, V!Fault, V!rowVars, V!targetVars, V!At,
     V!Open,
     V!Terminal, TypeLess, Sweeping, NoLeases, UnbanHolds, V!Owns
<1>14. Mistrusted'
  BY <1>v, <1>t, <1>e DEF V!UnbanRestore, V!Fine, V!Fault, V!rowVars, V!targetVars, V!At,
     V!Open,
     V!Terminal, TypeLess, Mistrusted, Unwatched, Sweeping, Doubts, Early, UnbanHolds,
     InForce, V!Owns, NoLeases
<1>15. Counted'
  BY <1>v, <1>t, <1>e, <1>4, <1>5, <1>f DEF V!UnbanRestore, V!Fine, V!Fault, V!rowVars,
     V!targetVars,
     V!At, V!Open, V!Terminal, TypeLess, Counted, V!ThresholdSeen
<1> QED
  BY <1>7, <1>8, <1>9, <1>10, <1>11, <1>12, <1>13, <1>14, <1>15 DEF VoteInv

\* and drops the ticket.
LEMMA HoldsUnbanDone ==
  ASSUME V!VoteAssumption, VoteInv, V!UnbanDone
  PROVE  VoteInv'
<1>v. /\ V!TypeOK /\ Early /\ NoLeases /\ UnbanHolds /\ Lifting /\ InForce
      /\ Sweeping /\ Mistrusted
      /\ Counted
  BY DEF VoteInv
<1>t. TypeLess
  BY <1>v DEF TypeLess, V!TypeOK, Crew, Enforcing, Steps
<1>f. voteFaults \in Nat /\ MaxVoteFaults \in Nat /\ voteCrashes \in Nat
  BY <1>v DEF V!TypeOK, V!VoteAssumption
<1>e. /\ enforcer' \in Crew
      /\ \/ \A x \in Enforcers : /\ enforcer'[x].at = enforcer[x].at
                                 /\ ~enforcer'[x].lease
                                 /\ enforcer'[x].token => enforcer[x].token
         \/ enforcer' = enforcer /\ ticket' = ticket
  BY <1>t, Dispossessed DEF V!UnbanDone, V!Fine, V!Fault, V!rowVars, TypeLess
<1>1. /\ poll' \in {"none"} \cup V!Open \cup V!Terminal
      /\ ticket' \in {"none", "leased", "due", "swept"}
      /\ unban' \in {"idle", "lift", "clear", "restore", "done"}
      /\ sweeper' \in {"idle", "act", "kept", "lifted"} /\ watch' \in {"off", "on", "dead"}
      /\ start' \in {"idle", "send", "withdraw"}
  BY <1>v DEF V!UnbanDone, V!Fine, V!Fault, V!rowVars, V!Open, V!Terminal, V!TypeOK
<1>2. ballots' \subseteq Voters /\ counting' \subseteq ballots'
  BY <1>v DEF V!UnbanDone, V!Fine, V!Fault, V!rowVars, V!Open, V!Terminal, V!TypeOK
<1>3. /\ stale' \in BOOLEAN /\ voteBanned' \in BOOLEAN /\ votePolicy' \in BOOLEAN
      /\ notify' \in BOOLEAN /\ shown' \in BOOLEAN /\ stray' \in BOOLEAN
  BY <1>v DEF V!UnbanDone, V!Fine, V!Fault, V!rowVars, V!Open, V!Terminal, V!TypeOK
<1>4. voteFaults' = voteFaults \/ (voteFaults < MaxVoteFaults /\ voteFaults' = voteFaults + 1)
  BY <1>v DEF V!UnbanDone, V!Fine, V!Fault, V!rowVars
<1>5. \/ voteCrashes' = voteCrashes
      \/ voteCrashes < MaxVoteCrashes /\ voteCrashes' = voteCrashes + 1
  BY <1>v DEF V!UnbanDone, V!Fine, V!Fault, V!rowVars
<1>6. voteFaults' \in 0..MaxVoteFaults /\ voteCrashes' \in 0..MaxVoteCrashes
  BY <1>v, <1>5, <1>4 DEF V!TypeOK, V!VoteAssumption
<1>7. V!TypeOK'
  BY <1>e, <1>1, <1>2, <1>3, <1>4, <1>5, <1>6 DEF V!TypeOK, Crew, Enforcing, Steps
<1>8. Early'
  BY <1>v, <1>t, <1>e DEF V!UnbanDone, V!Fine, V!Fault, V!rowVars, V!At, V!Open, V!Terminal,
     TypeLess,
     Early
<1>9. NoLeases'
  BY <1>v, <1>t, <1>e DEF V!UnbanDone, V!Fine, V!Fault, V!rowVars, V!At, V!Open, V!Terminal,
     TypeLess,
     NoLeases, V!Owns
<1>10. UnbanHolds'
  BY <1>v, <1>t, <1>e DEF V!UnbanDone, V!Fine, V!Fault, V!rowVars, V!At, V!Open, V!Terminal,
     TypeLess,
     UnbanHolds, NoLeases, V!Owns, Early
<1>11. Lifting'
  BY <1>v, <1>t, <1>e DEF V!UnbanDone, V!Fine, V!Fault, V!rowVars, V!At, V!Open, V!Terminal,
     TypeLess,
     Lifting, Early, V!Preserve
<1>12. InForce'
  BY <1>v, <1>t, <1>e DEF V!UnbanDone, V!Fine, V!Fault, V!rowVars, V!At, V!Open, V!Terminal,
     TypeLess,
     InForce, NoLeases, V!Owns, Lifting, UnbanHolds
<1>13. Sweeping'
  BY <1>v, <1>t, <1>e DEF V!UnbanDone, V!Fine, V!Fault, V!rowVars, V!At, V!Open, V!Terminal,
     TypeLess,
     Sweeping, NoLeases, UnbanHolds, V!Owns
<1>14. Mistrusted'
  BY <1>v, <1>t, <1>e DEF V!UnbanDone, V!Fine, V!Fault, V!rowVars, V!At, V!Open, V!Terminal,
     TypeLess,
     Mistrusted, Unwatched, Sweeping, Doubts, Early, UnbanHolds, InForce, V!Owns, NoLeases
<1>15. Counted'
  BY <1>v, <1>t, <1>e, <1>4, <1>5, <1>f DEF V!UnbanDone, V!Fine, V!Fault, V!rowVars, V!At,
     V!Open,
     V!Terminal, TypeLess, Counted, V!ThresholdSeen
<1> QED
  BY <1>7, <1>8, <1>9, <1>10, <1>11, <1>12, <1>13, <1>14, <1>15 DEF VoteInv

\* The ticket's lease lapses:
LEMMA HoldsTicketLapses ==
  ASSUME V!VoteAssumption, VoteInv, V!TicketLapses
  PROVE  VoteInv'
<1>v. /\ V!TypeOK /\ Early /\ NoLeases /\ UnbanHolds /\ Lifting /\ InForce
      /\ Sweeping /\ Mistrusted
      /\ Counted
  BY DEF VoteInv
<1>t. TypeLess
  BY <1>v DEF TypeLess, V!TypeOK, Crew, Enforcing, Steps
<1>f. voteFaults \in Nat /\ MaxVoteFaults \in Nat /\ voteCrashes \in Nat
  BY <1>v DEF V!TypeOK, V!VoteAssumption
<1>e. /\ enforcer' \in Crew
      /\ enforcer' = enforcer
  BY <1>t DEF V!TicketLapses, V!Outlasted, V!Fault, V!Fine, V!rowVars, V!workVars, TypeLess
<1>1. /\ poll' \in {"none"} \cup V!Open \cup V!Terminal
      /\ ticket' \in {"none", "leased", "due", "swept"}
      /\ unban' \in {"idle", "lift", "clear", "restore", "done"}
      /\ sweeper' \in {"idle", "act", "kept", "lifted"} /\ watch' \in {"off", "on", "dead"}
      /\ start' \in {"idle", "send", "withdraw"}
  BY <1>v DEF V!TicketLapses, V!Outlasted, V!Fault, V!Fine, V!rowVars, V!workVars, V!Open,
     V!Terminal, V!TypeOK
<1>2. ballots' \subseteq Voters /\ counting' \subseteq ballots'
  BY <1>v DEF V!TicketLapses, V!Outlasted, V!Fault, V!Fine, V!rowVars, V!workVars, V!Open,
     V!Terminal, V!TypeOK
<1>3. /\ stale' \in BOOLEAN /\ voteBanned' \in BOOLEAN /\ votePolicy' \in BOOLEAN
      /\ notify' \in BOOLEAN /\ shown' \in BOOLEAN /\ stray' \in BOOLEAN
  BY <1>v DEF V!TicketLapses, V!Outlasted, V!Fault, V!Fine, V!rowVars, V!workVars, V!Open,
     V!Terminal, V!TypeOK
<1>4. voteFaults' = voteFaults \/ (voteFaults < MaxVoteFaults /\ voteFaults' = voteFaults + 1)
  BY <1>v DEF V!TicketLapses, V!Outlasted, V!Fault, V!Fine, V!rowVars, V!workVars
<1>5. \/ voteCrashes' = voteCrashes
      \/ voteCrashes < MaxVoteCrashes /\ voteCrashes' = voteCrashes + 1
  BY <1>v DEF V!TicketLapses, V!Outlasted, V!Fault, V!Fine, V!rowVars, V!workVars
<1>6. voteFaults' \in 0..MaxVoteFaults /\ voteCrashes' \in 0..MaxVoteCrashes
  BY <1>v, <1>5, <1>4 DEF V!TypeOK, V!VoteAssumption
<1>7. V!TypeOK'
  BY <1>e, <1>1, <1>2, <1>3, <1>4, <1>5, <1>6 DEF V!TypeOK, Crew, Enforcing, Steps
<1>8. Early'
  BY <1>v, <1>t, <1>e DEF V!TicketLapses, V!Outlasted, V!Fault, V!Fine, V!rowVars, V!workVars,
     V!At, V!Open,
     V!Terminal, TypeLess, Early
<1>9. NoLeases'
  BY <1>v, <1>t, <1>e DEF V!TicketLapses, V!Outlasted, V!Fault, V!Fine, V!rowVars, V!workVars,
     V!At, V!Open,
     V!Terminal, TypeLess, NoLeases, V!Owns
<1>10. UnbanHolds'
  BY <1>v, <1>t, <1>e DEF V!TicketLapses, V!Outlasted, V!Fault, V!Fine, V!rowVars, V!workVars,
     V!At, V!Open,
     V!Terminal, TypeLess, UnbanHolds, NoLeases, V!Owns, Early
<1>11. Lifting'
  BY <1>v, <1>t, <1>e DEF V!TicketLapses, V!Outlasted, V!Fault, V!Fine, V!rowVars, V!workVars,
     V!At, V!Open,
     V!Terminal, TypeLess, Lifting, Early, V!Preserve
<1>12. InForce'
  BY <1>v, <1>t, <1>e DEF V!TicketLapses, V!Outlasted, V!Fault, V!Fine, V!rowVars, V!workVars,
     V!At, V!Open,
     V!Terminal, TypeLess, InForce, NoLeases, V!Owns, Lifting, UnbanHolds
<1>13. Sweeping'
  BY <1>v, <1>t, <1>e DEF V!TicketLapses, V!Outlasted, V!Fault, V!Fine, V!rowVars, V!workVars,
     V!At, V!Open,
     V!Terminal, TypeLess, Sweeping, NoLeases, UnbanHolds, V!Owns
<1>14. Mistrusted'
  BY <1>v, <1>t, <1>e DEF V!TicketLapses, V!Outlasted, V!Fault, V!Fine, V!rowVars, V!workVars,
     V!At, V!Open,
     V!Terminal, TypeLess, Mistrusted, Unwatched, Sweeping, Doubts, Early, UnbanHolds,
     InForce, V!Owns, NoLeases
<1>15. Counted'
  BY <1>v, <1>t, <1>e, <1>4, <1>5, <1>f DEF V!TicketLapses, V!Outlasted, V!Fault, V!Fine,
     V!rowVars,
     V!workVars, V!At, V!Open, V!Terminal, TypeLess, Counted, V!ThresholdSeen
<1> QED
  BY <1>7, <1>8, <1>9, <1>10, <1>11, <1>12, <1>13, <1>14, <1>15 DEF VoteInv

\* the sweeper takes it,
LEMMA HoldsSweepClaim ==
  ASSUME V!VoteAssumption, VoteInv, V!SweepClaim
  PROVE  VoteInv'
<1>v. /\ V!TypeOK /\ Early /\ NoLeases /\ UnbanHolds /\ Lifting /\ InForce
      /\ Sweeping /\ Mistrusted
      /\ Counted
  BY DEF VoteInv
<1>t. TypeLess
  BY <1>v DEF TypeLess, V!TypeOK, Crew, Enforcing, Steps
<1>f. voteFaults \in Nat /\ MaxVoteFaults \in Nat /\ voteCrashes \in Nat
  BY <1>v DEF V!TypeOK, V!VoteAssumption
<1>e. /\ enforcer' \in Crew
      /\ \A x \in Enforcers : /\ enforcer'[x].at = enforcer[x].at
                              /\ ~enforcer'[x].lease
                              /\ enforcer'[x].token => enforcer[x].token
  BY <1>t, Dispossessed DEF V!SweepClaim, V!rowVars, TypeLess
<1>1. /\ poll' \in {"none"} \cup V!Open \cup V!Terminal
      /\ ticket' \in {"none", "leased", "due", "swept"}
      /\ unban' \in {"idle", "lift", "clear", "restore", "done"}
      /\ sweeper' \in {"idle", "act", "kept", "lifted"} /\ watch' \in {"off", "on", "dead"}
      /\ start' \in {"idle", "send", "withdraw"}
  BY <1>v DEF V!SweepClaim, V!rowVars, V!Open, V!Terminal, V!TypeOK
<1>2. ballots' \subseteq Voters /\ counting' \subseteq ballots'
  BY <1>v DEF V!SweepClaim, V!rowVars, V!Open, V!Terminal, V!TypeOK
<1>3. /\ stale' \in BOOLEAN /\ voteBanned' \in BOOLEAN /\ votePolicy' \in BOOLEAN
      /\ notify' \in BOOLEAN /\ shown' \in BOOLEAN /\ stray' \in BOOLEAN
  BY <1>v DEF V!SweepClaim, V!rowVars, V!Open, V!Terminal, V!TypeOK
<1>4. voteFaults' = voteFaults \/ (voteFaults < MaxVoteFaults /\ voteFaults' = voteFaults + 1)
  BY <1>v DEF V!SweepClaim, V!rowVars
<1>5. \/ voteCrashes' = voteCrashes
      \/ voteCrashes < MaxVoteCrashes /\ voteCrashes' = voteCrashes + 1
  BY <1>v DEF V!SweepClaim, V!rowVars
<1>6. voteFaults' \in 0..MaxVoteFaults /\ voteCrashes' \in 0..MaxVoteCrashes
  BY <1>v, <1>5, <1>4 DEF V!TypeOK, V!VoteAssumption
<1>7. V!TypeOK'
  BY <1>e, <1>1, <1>2, <1>3, <1>4, <1>5, <1>6 DEF V!TypeOK, Crew, Enforcing, Steps
<1>8. Early'
  BY <1>v, <1>t, <1>e DEF V!SweepClaim, V!rowVars, V!At, V!Open, V!Terminal, TypeLess, Early
<1>9. NoLeases'
  BY <1>v, <1>t, <1>e DEF V!SweepClaim, V!rowVars, V!At, V!Open, V!Terminal, TypeLess,
     NoLeases, V!Owns
<1>10. UnbanHolds'
  BY <1>v, <1>t, <1>e DEF V!SweepClaim, V!rowVars, V!At, V!Open, V!Terminal, TypeLess,
     UnbanHolds,
     NoLeases, V!Owns, Early
<1>11. Lifting'
  BY <1>v, <1>t, <1>e DEF V!SweepClaim, V!rowVars, V!At, V!Open, V!Terminal, TypeLess,
     Lifting, Early,
     V!Preserve
<1>12. InForce'
  BY <1>v, <1>t, <1>e DEF V!SweepClaim, V!rowVars, V!At, V!Open, V!Terminal, TypeLess, InForce,
     NoLeases, V!Owns, Lifting, UnbanHolds
<1>13. Sweeping'
  BY <1>v, <1>t, <1>e DEF V!SweepClaim, V!rowVars, V!At, V!Open, V!Terminal, TypeLess,
     Sweeping,
     NoLeases, UnbanHolds, V!Owns
<1>14. Mistrusted'
  BY <1>v, <1>t, <1>e DEF V!SweepClaim, V!rowVars, V!At, V!Open, V!Terminal, TypeLess,
     Mistrusted,
     Unwatched, Sweeping, Doubts, Early, UnbanHolds, InForce, V!Owns, NoLeases
<1>15. Counted'
  BY <1>v, <1>t, <1>e, <1>4, <1>5, <1>f DEF V!SweepClaim, V!rowVars, V!At, V!Open, V!Terminal,
     TypeLess, Counted, V!ThresholdSeen
<1> QED
  BY <1>7, <1>8, <1>9, <1>10, <1>11, <1>12, <1>13, <1>14, <1>15 DEF VoteInv

\* acts,
LEMMA HoldsSweepAct ==
  ASSUME V!VoteAssumption, VoteInv, V!SweepAct
  PROVE  VoteInv'
<1>v. /\ V!TypeOK /\ Early /\ NoLeases /\ UnbanHolds /\ Lifting /\ InForce
      /\ Sweeping /\ Mistrusted
      /\ Counted
  BY DEF VoteInv
<1>t. TypeLess
  BY <1>v DEF TypeLess, V!TypeOK, Crew, Enforcing, Steps
<1>f. voteFaults \in Nat /\ MaxVoteFaults \in Nat /\ voteCrashes \in Nat
  BY <1>v DEF V!TypeOK, V!VoteAssumption
<1>e. /\ enforcer' \in Crew
      /\ enforcer' = enforcer
  BY <1>t DEF V!SweepAct, V!Fine, V!Fault, V!Deferred, V!rowVars, TypeLess
<1>1. /\ poll' \in {"none"} \cup V!Open \cup V!Terminal
      /\ ticket' \in {"none", "leased", "due", "swept"}
      /\ unban' \in {"idle", "lift", "clear", "restore", "done"}
      /\ sweeper' \in {"idle", "act", "kept", "lifted"} /\ watch' \in {"off", "on", "dead"}
      /\ start' \in {"idle", "send", "withdraw"}
  BY <1>v DEF V!SweepAct, V!Fine, V!Fault, V!Deferred, V!rowVars, V!Open, V!Terminal, V!TypeOK
<1>2. ballots' \subseteq Voters /\ counting' \subseteq ballots'
  BY <1>v DEF V!SweepAct, V!Fine, V!Fault, V!Deferred, V!rowVars, V!Open, V!Terminal, V!TypeOK
<1>3. /\ stale' \in BOOLEAN /\ voteBanned' \in BOOLEAN /\ votePolicy' \in BOOLEAN
      /\ notify' \in BOOLEAN /\ shown' \in BOOLEAN /\ stray' \in BOOLEAN
  BY <1>v DEF V!SweepAct, V!Fine, V!Fault, V!Deferred, V!rowVars, V!Open, V!Terminal, V!TypeOK
<1>4. voteFaults' = voteFaults \/ (voteFaults < MaxVoteFaults /\ voteFaults' = voteFaults + 1)
  BY <1>v DEF V!SweepAct, V!Fine, V!Fault, V!Deferred, V!rowVars
<1>5. \/ voteCrashes' = voteCrashes
      \/ voteCrashes < MaxVoteCrashes /\ voteCrashes' = voteCrashes + 1
  BY <1>v DEF V!SweepAct, V!Fine, V!Fault, V!Deferred, V!rowVars
<1>6. voteFaults' \in 0..MaxVoteFaults /\ voteCrashes' \in 0..MaxVoteCrashes
  BY <1>v, <1>5, <1>4 DEF V!TypeOK, V!VoteAssumption
<1>7. V!TypeOK'
  BY <1>e, <1>1, <1>2, <1>3, <1>4, <1>5, <1>6 DEF V!TypeOK, Crew, Enforcing, Steps
<1>8. Early'
  BY <1>v, <1>t, <1>e DEF V!SweepAct, V!Fine, V!Fault, V!Deferred, V!rowVars, V!At, V!Open,
     V!Terminal,
     TypeLess, Early
<1>9. NoLeases'
  BY <1>v, <1>t, <1>e DEF V!SweepAct, V!Fine, V!Fault, V!Deferred, V!rowVars, V!At, V!Open,
     V!Terminal,
     TypeLess, NoLeases, V!Owns
<1>10. UnbanHolds'
  BY <1>v, <1>t, <1>e DEF V!SweepAct, V!Fine, V!Fault, V!Deferred, V!rowVars, V!At, V!Open,
     V!Terminal,
     TypeLess, UnbanHolds, NoLeases, V!Owns, Early
<1>11. Lifting'
  BY <1>v, <1>t, <1>e DEF V!SweepAct, V!Fine, V!Fault, V!Deferred, V!rowVars, V!At, V!Open,
     V!Terminal,
     TypeLess, Lifting, Early, V!Preserve
<1>12. InForce'
  BY <1>v, <1>t, <1>e DEF V!SweepAct, V!Fine, V!Fault, V!Deferred, V!rowVars, V!At, V!Open,
     V!Terminal,
     TypeLess, InForce, NoLeases, V!Owns, Lifting, UnbanHolds
<1>13. Sweeping'
  BY <1>v, <1>t, <1>e DEF V!SweepAct, V!Fine, V!Fault, V!Deferred, V!rowVars, V!At, V!Open,
     V!Terminal,
     TypeLess, Sweeping, NoLeases, UnbanHolds, V!Owns
<1>14. Mistrusted'
  BY <1>v, <1>t, <1>e DEF V!SweepAct, V!Fine, V!Fault, V!Deferred, V!rowVars, V!At, V!Open,
     V!Terminal,
     TypeLess, Mistrusted, Unwatched, Sweeping, Doubts, Early, UnbanHolds, InForce, V!Owns,
     NoLeases
<1>15. Counted'
  BY <1>v, <1>t, <1>e, <1>4, <1>5, <1>f DEF V!SweepAct, V!Fine, V!Fault, V!Deferred,
     V!rowVars, V!At,
     V!Open, V!Terminal, TypeLess, Counted, V!ThresholdSeen
<1> QED
  BY <1>7, <1>8, <1>9, <1>10, <1>11, <1>12, <1>13, <1>14, <1>15 DEF VoteInv

\* and checks.
LEMMA HoldsSweepCheck ==
  ASSUME V!VoteAssumption, VoteInv, V!SweepCheck
  PROVE  VoteInv'
<1>v. /\ V!TypeOK /\ Early /\ NoLeases /\ UnbanHolds /\ Lifting /\ InForce
      /\ Sweeping /\ Mistrusted
      /\ Counted
  BY DEF VoteInv
<1>t. TypeLess
  BY <1>v DEF TypeLess, V!TypeOK, Crew, Enforcing, Steps
<1>f. voteFaults \in Nat /\ MaxVoteFaults \in Nat /\ voteCrashes \in Nat
  BY <1>v DEF V!TypeOK, V!VoteAssumption
<1>e. /\ enforcer' \in Crew
      /\ enforcer' = enforcer
  BY <1>t DEF V!SweepCheck, V!Fine, V!Fault, V!Deferred, V!rowVars, TypeLess
<1>1. /\ poll' \in {"none"} \cup V!Open \cup V!Terminal
      /\ ticket' \in {"none", "leased", "due", "swept"}
      /\ unban' \in {"idle", "lift", "clear", "restore", "done"}
      /\ sweeper' \in {"idle", "act", "kept", "lifted"} /\ watch' \in {"off", "on", "dead"}
      /\ start' \in {"idle", "send", "withdraw"}
  BY <1>v DEF V!SweepCheck, V!Fine, V!Fault, V!Deferred, V!rowVars, V!Open, V!Terminal,
     V!TypeOK
<1>2. ballots' \subseteq Voters /\ counting' \subseteq ballots'
  BY <1>v DEF V!SweepCheck, V!Fine, V!Fault, V!Deferred, V!rowVars, V!Open, V!Terminal,
     V!TypeOK
<1>3. /\ stale' \in BOOLEAN /\ voteBanned' \in BOOLEAN /\ votePolicy' \in BOOLEAN
      /\ notify' \in BOOLEAN /\ shown' \in BOOLEAN /\ stray' \in BOOLEAN
  BY <1>v DEF V!SweepCheck, V!Fine, V!Fault, V!Deferred, V!rowVars, V!Open, V!Terminal,
     V!TypeOK
<1>4. voteFaults' = voteFaults \/ (voteFaults < MaxVoteFaults /\ voteFaults' = voteFaults + 1)
  BY <1>v DEF V!SweepCheck, V!Fine, V!Fault, V!Deferred, V!rowVars
<1>5. \/ voteCrashes' = voteCrashes
      \/ voteCrashes < MaxVoteCrashes /\ voteCrashes' = voteCrashes + 1
  BY <1>v DEF V!SweepCheck, V!Fine, V!Fault, V!Deferred, V!rowVars
<1>6. voteFaults' \in 0..MaxVoteFaults /\ voteCrashes' \in 0..MaxVoteCrashes
  BY <1>v, <1>5, <1>4 DEF V!TypeOK, V!VoteAssumption
<1>7. V!TypeOK'
  BY <1>e, <1>1, <1>2, <1>3, <1>4, <1>5, <1>6 DEF V!TypeOK, Crew, Enforcing, Steps
<1>8. Early'
  BY <1>v, <1>t, <1>e DEF V!SweepCheck, V!Fine, V!Fault, V!Deferred, V!rowVars, V!At, V!Open,
     V!Terminal,
     TypeLess, Early
<1>9. NoLeases'
  BY <1>v, <1>t, <1>e DEF V!SweepCheck, V!Fine, V!Fault, V!Deferred, V!rowVars, V!At, V!Open,
     V!Terminal,
     TypeLess, NoLeases, V!Owns
<1>10. UnbanHolds'
  BY <1>v, <1>t, <1>e DEF V!SweepCheck, V!Fine, V!Fault, V!Deferred, V!rowVars, V!At, V!Open,
     V!Terminal,
     TypeLess, UnbanHolds, NoLeases, V!Owns, Early
<1>11. Lifting'
  BY <1>v, <1>t, <1>e DEF V!SweepCheck, V!Fine, V!Fault, V!Deferred, V!rowVars, V!At, V!Open,
     V!Terminal,
     TypeLess, Lifting, Early, V!Preserve
<1>12. InForce'
  BY <1>v, <1>t, <1>e DEF V!SweepCheck, V!Fine, V!Fault, V!Deferred, V!rowVars, V!At, V!Open,
     V!Terminal,
     TypeLess, InForce, NoLeases, V!Owns, Lifting, UnbanHolds
<1>13. Sweeping'
  BY <1>v, <1>t, <1>e DEF V!SweepCheck, V!Fine, V!Fault, V!Deferred, V!rowVars, V!At, V!Open,
     V!Terminal,
     TypeLess, Sweeping, NoLeases, UnbanHolds, V!Owns
<1>14. Mistrusted'
  BY <1>v, <1>t, <1>e DEF V!SweepCheck, V!Fine, V!Fault, V!Deferred, V!rowVars, V!At, V!Open,
     V!Terminal,
     TypeLess, Mistrusted, Unwatched, Sweeping, Doubts, Early, UnbanHolds, InForce, V!Owns,
     NoLeases
<1>15. Counted'
  BY <1>v, <1>t, <1>e, <1>4, <1>5, <1>f DEF V!SweepCheck, V!Fine, V!Fault, V!Deferred,
     V!rowVars, V!At,
     V!Open, V!Terminal, TypeLess, Counted, V!ThresholdSeen
<1> QED
  BY <1>7, <1>8, <1>9, <1>10, <1>11, <1>12, <1>13, <1>14, <1>15 DEF VoteInv

\* A restart.
LEMMA HoldsRestart ==
  ASSUME V!VoteAssumption, VoteInv, V!Restart
  PROVE  VoteInv'
<1>v. /\ V!TypeOK /\ Early /\ NoLeases /\ UnbanHolds /\ Lifting /\ InForce
      /\ Sweeping /\ Mistrusted
      /\ Counted
  BY DEF VoteInv
<1>t. TypeLess
  BY <1>v DEF TypeLess, V!TypeOK, Crew, Enforcing, Steps
<1>f. voteFaults \in Nat /\ MaxVoteFaults \in Nat /\ voteCrashes \in Nat
  BY <1>v DEF V!TypeOK, V!VoteAssumption
<1>z. V!Resting \in Enforcing /\ V!Resting.at = "idle" /\ ~V!Resting.token /\ ~V!Resting.lease
  BY DEF V!Resting, Enforcing, Steps
<1>e. /\ enforcer' \in Crew
      /\ \A x \in Enforcers : enforcer'[x] = V!Resting
  BY <1>t, <1>z DEF V!Restart, V!Adrift, TypeLess, Crew
<1>1. /\ poll' \in {"none"} \cup V!Open \cup V!Terminal
      /\ ticket' \in {"none", "leased", "due", "swept"}
      /\ unban' \in {"idle", "lift", "clear", "restore", "done"}
      /\ sweeper' \in {"idle", "act", "kept", "lifted"} /\ watch' \in {"off", "on", "dead"}
      /\ start' \in {"idle", "send", "withdraw"}
  BY <1>v DEF V!Restart, V!Adrift, V!Open, V!Terminal, V!TypeOK
<1>2. ballots' \subseteq Voters /\ counting' \subseteq ballots'
  BY <1>v DEF V!Restart, V!Adrift, V!Open, V!Terminal, V!TypeOK
<1>3. /\ stale' \in BOOLEAN /\ voteBanned' \in BOOLEAN /\ votePolicy' \in BOOLEAN
      /\ notify' \in BOOLEAN /\ shown' \in BOOLEAN /\ stray' \in BOOLEAN
  BY <1>v DEF V!Restart, V!Adrift, V!Open, V!Terminal, V!TypeOK
<1>4. voteFaults' = voteFaults \/ (voteFaults < MaxVoteFaults /\ voteFaults' = voteFaults + 1)
  BY <1>v DEF V!Restart, V!Adrift
<1>5. \/ voteCrashes' = voteCrashes
      \/ voteCrashes < MaxVoteCrashes /\ voteCrashes' = voteCrashes + 1
  BY <1>v DEF V!Restart, V!Adrift
<1>6. voteFaults' \in 0..MaxVoteFaults /\ voteCrashes' \in 0..MaxVoteCrashes
  BY <1>v, <1>5, <1>4 DEF V!TypeOK, V!VoteAssumption
<1>7. V!TypeOK'
  BY <1>e, <1>1, <1>2, <1>3, <1>4, <1>5, <1>6 DEF V!TypeOK, Crew, Enforcing, Steps
<1>8. Early'
  BY <1>v, <1>t, <1>e, <1>z DEF V!Restart, V!Adrift, V!At, V!Open, V!Terminal, TypeLess, Early
<1>9. NoLeases'
  BY <1>v, <1>t, <1>e, <1>z DEF V!Restart, V!Adrift, V!At, V!Open, V!Terminal, TypeLess,
     NoLeases, V!Owns
<1>10. UnbanHolds'
  BY <1>v, <1>t, <1>e, <1>z DEF V!Restart, V!Adrift, V!At, V!Open, V!Terminal, TypeLess,
     UnbanHolds,
     NoLeases, V!Owns, Early
<1>11. Lifting'
  BY <1>v, <1>t, <1>e, <1>z DEF V!Restart, V!Adrift, V!At, V!Open, V!Terminal, TypeLess,
     Lifting,
     Early, V!Preserve
<1>12. InForce'
  BY <1>v, <1>t, <1>e, <1>z DEF V!Restart, V!Adrift, V!At, V!Open, V!Terminal, TypeLess,
     InForce,
     NoLeases, V!Owns, Lifting, UnbanHolds
<1>13. Sweeping'
  BY <1>v, <1>t, <1>e, <1>z DEF V!Restart, V!Adrift, V!At, V!Open, V!Terminal, TypeLess,
     Sweeping,
     NoLeases, UnbanHolds, V!Owns
<1>14. Mistrusted'
  <2>1. /\ UNCHANGED <<poll, voteBanned, votePolicy>> /\ unban' = "idle"
        /\ ticket' # "swept" /\ (ticket' = "none" => ticket = "none")
        /\ stray' = (stray \/ \E x \in Enforcers : V!Adrift(x))
    BY DEF V!Restart
  <2>2. ticket = "none" => \A x \in Enforcers : Doubts(x) => V!Adrift(x)
    BY DEF Doubts, V!Adrift, V!Owns, V!At, V!Fixing
  <2> QED  BY <1>v, <2>1, <2>2 DEF Mistrusted, Unwatched
<1>15. Counted'
  BY <1>v, <1>t, <1>e, <1>z, <1>4, <1>5, <1>f DEF V!Restart, V!Adrift, V!At, V!Open,
     V!Terminal,
     TypeLess, Counted, V!ThresholdSeen
<1> QED
  BY <1>7, <1>8, <1>9, <1>10, <1>11, <1>12, <1>13, <1>14, <1>15 DEF VoteInv

\* Every step of a vote keeps the invariant.
LEMMA VoteKept ==
  ASSUME V!VoteAssumption, VoteInv, V!Next
  PROVE  VoteInv'
<1>1. CASE \/ V!StartPoll \/ V!Posting \/ V!AdminCancel \/ V!Expire \/ V!LeaseAges
               \/ V!LoopEnds
           \/ V!RecoverByLoop \/ V!TicketLapses \/ V!Restart
  BY <1>1, HoldsStartPoll, HoldsSendPrompt, HoldsWithdraw, HoldsAdminCancel, HoldsExpire,
     HoldsLeaseAges, HoldsLoopEnds, HoldsRecoverByLoop, HoldsTicketLapses, HoldsRestart
     DEF V!Posting
<1>2. CASE V!Vote
  BY <1>2, HoldsCastBallot, HoldsRefuse, HoldsDecide DEF V!Vote
<1>3. ASSUME NEW e \in Enforcers, V!AdminBan(e) \/ V!RecoverByHand(e) \/ V!Enforce(e)
      PROVE  VoteInv'
  BY <1>3, HoldsAdminBan, HoldsRecoverByHand, HoldsCheckOwnership, HoldsCheckTakeover,
     HoldsApplyBan, HoldsRecordBan, HoldsRecordFailure, HoldsReconcile, HoldsReconcileCall,
     HoldsTell DEF V!Enforce
<1>4. CASE V!Unban
  BY <1>4, HoldsUnbanStart, HoldsUnbanNotifies, HoldsUnbanLift, HoldsUnbanClear,
     HoldsUnbanRestore, HoldsUnbanDone DEF V!Unban
<1>5. CASE V!Sweep
  BY <1>5, HoldsSweepClaim, HoldsSweepAct, HoldsSweepCheck DEF V!Sweep
<1> QED
  BY <1>1, <1>2, <1>3, <1>4, <1>5 DEF V!Next

\* The invariant holds of a group without a poll.
LEMMA VoteStarts ==
  ASSUME V!VoteAssumption, V!Init
  PROVE  VoteInv
<1>1. /\ V!Resting \in Enforcing /\ V!Resting.at = "idle" /\ ~V!Resting.token
          /\ ~V!Resting.lease
      /\ V!Resting.at \in Steps
  BY DEF V!Resting, Enforcing, Steps
<1>2. enforcer \in Crew /\ \A x \in Enforcers : enforcer[x] = V!Resting
  BY <1>1 DEF V!Init, Crew
<1>3. V!TypeOK
  <2>1. voteFaults \in 0..MaxVoteFaults /\ voteCrashes \in 0..MaxVoteCrashes
    BY DEF V!Init, V!VoteAssumption
  <2>2. /\ poll \in {"none"} \cup V!Open \cup V!Terminal
        /\ ticket \in {"none", "leased", "due", "swept"}
        /\ unban \in {"idle", "lift", "clear", "restore", "done"}
        /\ sweeper \in {"idle", "act", "kept", "lifted"} /\ watch \in {"off", "on", "dead"}
        /\ start \in {"idle", "send", "withdraw"}
        /\ ballots \subseteq Voters /\ counting \subseteq ballots
    BY DEF V!Init
  <2>3. /\ stale \in BOOLEAN /\ voteBanned \in BOOLEAN /\ votePolicy \in BOOLEAN
        /\ notify \in BOOLEAN /\ shown \in BOOLEAN /\ stray \in BOOLEAN
    BY DEF V!Init
  <2> QED  BY <1>2, <2>1, <2>2, <2>3 DEF V!TypeOK, Crew, Enforcing, Steps
<1>4. /\ Early /\ NoLeases /\ UnbanHolds /\ Lifting /\ InForce
      /\ Sweeping /\ Mistrusted
  BY <1>1, <1>2 DEF V!Init, Early, NoLeases, UnbanHolds, Lifting, InForce, Sweeping,
     Mistrusted, V!At, V!Owns, V!Terminal
<1>5. Counted
  BY FS_EmptySet DEF V!Init, Counted, V!ThresholdSeen
<1> QED
  BY <1>3, <1>4, <1>5 DEF VoteInv

\* Through ballots, administrators, deadline, recovery, /unban and sweeper in any order:
\* what Telegram enforces and what is recorded of the target are doubted by somebody
\* whenever they disagree on a closed poll (services/vote_ban.py).
THEOREM VoteInvariant ==
  ASSUME V!VoteAssumption
  PROVE  V!Init /\ [][V!Next]_voteVars => []VoteInv
<1>1. V!Init => VoteInv
  BY VoteStarts
<1>2. VoteInv /\ [V!Next]_voteVars => VoteInv'
  <2>1. CASE V!Next
    BY <2>1, VoteKept
  <2>2. CASE UNCHANGED voteVars
    BY <2>2 DEF voteVars, VoteInv, V!TypeOK, Early, NoLeases, UnbanHolds, Lifting, InForce,
                Sweeping, Mistrusted, Unwatched, Counted, V!ThresholdSeen, Doubts, V!At, V!Owns
  <2> QED  BY <2>1, <2>2
<1> QED  BY <1>1, <1>2, PTL

\* The invariant is strong enough: the last action on the target decides, and a ballot that
\* reaches the threshold is acted on ("publish this ballot before counting", group.py:3209).
LEMMA VoteSettles ==
  ASSUME VoteInv
  PROVE  V!OutcomeSettles /\ V!ThresholdSeen
<1>1. V!OutcomeSettles
  <2> SUFFICES ASSUME V!AtRest, poll \notin V!Open, ticket = "none", ~stray
               PROVE  voteBanned = votePolicy
    BY DEF V!OutcomeSettles
  <2>1. voteBanned \in BOOLEAN /\ votePolicy \in BOOLEAN /\ poll \in {"none"} \cup V!Terminal
    BY DEF VoteInv, V!TypeOK
  <2>2. CASE poll = "none"
    BY <2>1, <2>2 DEF VoteInv, Early
  <2>3. CASE poll \in V!Terminal
    <3>1. \A e \in Enforcers : ~Doubts(e)
      BY DEF V!AtRest, V!At, Doubts
    <3> QED  BY <2>1, <2>3, <3>1 DEF VoteInv, Mistrusted, Unwatched
  <2> QED  BY <2>1, <2>2, <2>3
<1>2. V!ThresholdSeen
  BY DEF VoteInv, Counted
<1> QED  BY <1>1, <1>2

\* A poll is decided once: no slower task rewrites its outcome, except the one that
\* withdraws a prompt that could not be sent.
THEOREM PollDecidedOnce ==
  ASSUME V!VoteAssumption
  PROVE  V!Init /\ [][V!Next]_voteVars => V!DecidedOnce
<1>1. [V!Next]_voteVars =>
        [(poll \in V!Terminal /\ start # "withdraw") => poll' = poll]_voteVars
  <2> SUFFICES ASSUME V!Next, poll \in V!Terminal, start # "withdraw" PROVE poll' = poll
    OBVIOUS
  <2>1. poll \notin {"none", "active", "enforcing"}
    BY DEF V!Terminal
  <2>2. CASE \/ V!StartPoll \/ V!Posting \/ V!AdminCancel \/ V!Expire \/ V!LeaseAges
                 \/ V!LoopEnds
             \/ V!RecoverByLoop \/ V!TicketLapses \/ V!Restart \/ V!Unban \/ V!Sweep
    BY <2>1, <2>2 DEF V!StartPoll, V!Posting, V!SendPrompt, V!Withdraw, V!AdminCancel,
       V!Pressed, V!Expire,
       V!LeaseAges, V!LoopEnds, V!RecoverByLoop, V!Recover, V!TicketLapses, V!Restart,
       V!Unban, V!UnbanStart,
       V!UnbanNotifies, V!UnbanLift, V!UnbanClear, V!UnbanRestore, V!UnbanDone, V!Sweep,
       V!SweepClaim,
       V!SweepAct, V!SweepCheck, V!rowVars, V!Open
  <2>3. CASE V!Vote
    BY <2>1, <2>3 DEF V!Vote, V!CastBallot, V!Pressed, V!Refuse, V!Decide
  <2>4. ASSUME NEW e \in Enforcers, V!AdminBan(e) \/ V!RecoverByHand(e) \/ V!Enforce(e)
        PROVE  poll' = poll
    BY <2>1, <2>4 DEF V!AdminBan, V!Pressed, V!RecoverByHand, V!Recover, V!ClaimEnforcing,
       V!Enforce,
       V!CheckOwnership, V!CheckTakeover, V!ApplyBan, V!RecordBan, V!RecordFailure,
       V!RecordLost, V!Owns,
       V!Reconcile, V!ReconcileCall, V!Tell, V!rowVars
  <2> QED  BY <2>2, <2>3, <2>4 DEF V!Next
<1> QED  BY <1>1, PTL DEF V!Spec, V!voteVars, voteVars, V!DecidedOnce

-----------------------------------------------------------------------------
(* Its prompt and the pin: VotePrompt *)

\* What is pinned is owned by the row, which knows the message.
PinsHeld == pinned => promptRow.pin /\ promptRow.posted

\* Nobody works for a poll that is not open yet.
Unopened ==
  promptRow.status = "none" =>
    promptStart = "idle" /\ edit = "free" /\ ~pinned /\ ~closing /\ ~notice /\ retry = "off"

\* Nothing is pinned before the prompt is stored,
Unstored ==
  promptStart \in {"send", "withdraw", "store"} =>
    ~pinned /\ edit \notin {"pin", "call", "after", "blind"}

\* the prompt about to be pinned is stored, and a pin that is about to be given up is gone.
Stored   == (promptStart = "pin" \/ edit = "pin") => promptRow.posted
GivenUp ==
  /\ edit = "persist" => ~pinned
  /\ retry = "persist" => ~pinned /\ promptRow.status = "closed"

\* Without a failed call a task is going to unpin what a closed poll has pinned.
Attended ==
  promptRow.status = "closed" /\ promptFaults = 0 /\ pinned =>
    closing \/ notice \/ promptStart = "pin" \/ edit \in {"pin", "call", "after", "unpin"}

\* The poll has one pin task; what it is about to pin is owned and nobody unpins it
\* meanwhile.  Only a closed poll's pin is given up, and only a pin that was tried once
\* is unpinned by retries.
Settling ==
  /\ edit \in {"pin", "call", "after", "blind"} => promptStart = "idle"
  /\ edit = "call" => promptRow.pin /\ promptRow.posted /\ retry = "off"
  /\ edit = "after" => promptRow.pin \/ promptRow.status = "closed"
  /\ edit \in {"unpin", "persist"} \/ closing \/ notice => promptRow.status = "closed"
  /\ retry # "off" =>
       promptRow.status = "closed" \/ (promptStart = "idle" /\ edit \notin {"pin", "call"})

\* The inductive invariant.
PromptInv ==
  U!TypeOK /\ PinsHeld /\ Unopened /\ Unstored /\ Stored /\ GivenUp /\ Settling /\ Attended

\* What the row of a poll may hold.
Rows == [status : {"none", "closed"} \cup U!Open, pin : BOOLEAN, posted : BOOLEAN]

\* The poll opens.
LEMMA KeepsOpenPoll ==
  ASSUME U!PromptAssumption, PromptInv, U!OpenPoll
  PROVE  PromptInv'
<1> USE DEF U!PromptAssumption, PromptInv, U!TypeOK
<1>r. promptRow \in Rows
  BY DEF Rows
<1>f. promptFaults \in Nat /\ MaxPromptFaults \in Nat
  OBVIOUS
<1>a. ASSUME NEW b \in BOOLEAN
      PROVE  LET r == [promptRow EXCEPT !.status = "active", !.pin = b]
             IN  r \in Rows /\ r.status = "active" /\ r.pin = b /\ r.posted = promptRow.posted
  BY <1>r DEF Rows, U!Open
<1>1. promptRow' \in Rows
  BY <1>r, <1>a DEF U!OpenPoll, U!Open
<1>2. promptStart' \in {"idle", "send", "withdraw", "store", "pin"}
  BY DEF U!OpenPoll
<1>3. /\ promptShown' \in BOOLEAN
      /\ pinned' \in BOOLEAN
      /\ closing' \in BOOLEAN
      /\ notice' \in BOOLEAN
  BY DEF U!OpenPoll, U!Open
<1>4. /\ edit' \in {"free", "pin", "call", "after", "blind", "unpin", "persist"}
      /\ retry' \in {"off", "on", "persist"}
  BY DEF U!OpenPoll
<1>5. /\ \/ promptFaults' = promptFaults
         \/ promptFaults < MaxPromptFaults /\ promptFaults' = promptFaults + 1
      /\ \/ promptCrashes' = promptCrashes
         \/ promptCrashes < MaxPromptCrashes /\ promptCrashes' = promptCrashes + 1
  BY DEF U!OpenPoll
<1>6. /\ promptFaults' \in 0..MaxPromptFaults
      /\ promptCrashes' \in 0..MaxPromptCrashes
  BY <1>5
<1>7. U!TypeOK'
  BY <1>1, <1>2, <1>3, <1>4, <1>6 DEF U!TypeOK, Rows
<1>8. PinsHeld'
  BY <1>a DEF U!OpenPoll, PinsHeld, Unopened, Unstored, Stored, GivenUp, U!Open
<1>9. Unopened'
  BY <1>a DEF U!OpenPoll, PinsHeld, Unopened, Unstored, Stored, GivenUp, U!Open
<1>10. Unstored' /\ Stored'
  BY <1>a DEF U!OpenPoll, PinsHeld, Unopened, Unstored, Stored, GivenUp, U!Open
<1>11. GivenUp'
  BY <1>a DEF U!OpenPoll, PinsHeld, Unopened, Unstored, Stored, GivenUp, U!Open
<1>12. Attended'
  BY <1>a, <1>f, <1>5 DEF U!OpenPoll, PinsHeld, Unopened, Unstored, Stored, GivenUp, U!Open,
     Attended
<1>13. Settling'
  BY <1>a DEF U!OpenPoll,
     PinsHeld, Unopened, Unstored, Stored, GivenUp, Settling, U!Open
<1> QED  BY <1>7, <1>8, <1>9, <1>10, <1>11, <1>12, <1>13 DEF PromptInv

\* The prompt is sent.
LEMMA KeepsSendPrompt ==
  ASSUME U!PromptAssumption, PromptInv, U!SendPrompt
  PROVE  PromptInv'
<1> USE DEF U!PromptAssumption, PromptInv, U!TypeOK
<1>r. promptRow \in Rows
  BY DEF Rows
<1>f. promptFaults \in Nat /\ MaxPromptFaults \in Nat
  OBVIOUS
<1>a. promptRow \in Rows
  BY <1>r
<1>1. promptRow' \in Rows
  BY <1>r, <1>a DEF U!SendPrompt, U!Fine, U!Fault, U!Open
<1>2. promptStart' \in {"idle", "send", "withdraw", "store", "pin"}
  BY DEF U!SendPrompt, U!Fine, U!Fault
<1>3. /\ promptShown' \in BOOLEAN
      /\ pinned' \in BOOLEAN
      /\ closing' \in BOOLEAN
      /\ notice' \in BOOLEAN
  BY DEF U!SendPrompt, U!Fine, U!Fault, U!Open
<1>4. /\ edit' \in {"free", "pin", "call", "after", "blind", "unpin", "persist"}
      /\ retry' \in {"off", "on", "persist"}
  BY DEF U!SendPrompt, U!Fine, U!Fault
<1>5. /\ \/ promptFaults' = promptFaults
         \/ promptFaults < MaxPromptFaults /\ promptFaults' = promptFaults + 1
      /\ \/ promptCrashes' = promptCrashes
         \/ promptCrashes < MaxPromptCrashes /\ promptCrashes' = promptCrashes + 1
  BY DEF U!SendPrompt, U!Fine, U!Fault
<1>6. /\ promptFaults' \in 0..MaxPromptFaults
      /\ promptCrashes' \in 0..MaxPromptCrashes
  BY <1>5
<1>7. U!TypeOK'
  BY <1>1, <1>2, <1>3, <1>4, <1>6 DEF U!TypeOK, Rows
<1>8. PinsHeld'
  BY <1>a DEF U!SendPrompt, U!Fine, U!Fault, PinsHeld, Unopened, Unstored, Stored, GivenUp,
     U!Open
<1>9. Unopened'
  BY <1>a DEF U!SendPrompt, U!Fine, U!Fault, PinsHeld, Unopened, Unstored, Stored, GivenUp,
     U!Open
<1>10. Unstored' /\ Stored'
  BY <1>a DEF U!SendPrompt, U!Fine, U!Fault, PinsHeld, Unopened, Unstored, Stored, GivenUp,
     U!Open
<1>11. GivenUp'
  BY <1>a DEF U!SendPrompt, U!Fine, U!Fault, PinsHeld, Unopened, Unstored, Stored, GivenUp,
     U!Open
<1>12. Attended'
  BY <1>a, <1>f, <1>5 DEF U!SendPrompt, U!Fine, U!Fault, PinsHeld, Unopened, Unstored, Stored,
     GivenUp, U!Open, Attended
<1>13. Settling'
  BY <1>a DEF U!SendPrompt, U!Fine, U!Fault,
     PinsHeld, Unopened, Unstored, Stored, GivenUp, Settling, U!Open
<1> QED  BY <1>7, <1>8, <1>9, <1>10, <1>11, <1>12, <1>13 DEF PromptInv

\* Its poll is withdrawn.
LEMMA KeepsWithdraw ==
  ASSUME U!PromptAssumption, PromptInv, U!Withdraw
  PROVE  PromptInv'
<1> USE DEF U!PromptAssumption, PromptInv, U!TypeOK
<1>r. promptRow \in Rows
  BY DEF Rows
<1>f. promptFaults \in Nat /\ MaxPromptFaults \in Nat
  OBVIOUS
<1>a. LET r == [promptRow EXCEPT !.status = "closed", !.pin = FALSE]
      IN  r \in Rows /\ r.status = "closed" /\ ~r.pin /\ r.posted = promptRow.posted
  BY <1>r DEF Rows, U!Open
<1>1. promptRow' \in Rows
  BY <1>r, <1>a DEF U!Withdraw, U!Fine, U!Fault, U!Open
<1>2. promptStart' \in {"idle", "send", "withdraw", "store", "pin"}
  BY DEF U!Withdraw, U!Fine, U!Fault
<1>3. /\ promptShown' \in BOOLEAN
      /\ pinned' \in BOOLEAN
      /\ closing' \in BOOLEAN
      /\ notice' \in BOOLEAN
  BY DEF U!Withdraw, U!Fine, U!Fault, U!Open
<1>4. /\ edit' \in {"free", "pin", "call", "after", "blind", "unpin", "persist"}
      /\ retry' \in {"off", "on", "persist"}
  BY DEF U!Withdraw, U!Fine, U!Fault
<1>5. /\ \/ promptFaults' = promptFaults
         \/ promptFaults < MaxPromptFaults /\ promptFaults' = promptFaults + 1
      /\ \/ promptCrashes' = promptCrashes
         \/ promptCrashes < MaxPromptCrashes /\ promptCrashes' = promptCrashes + 1
  BY DEF U!Withdraw, U!Fine, U!Fault
<1>6. /\ promptFaults' \in 0..MaxPromptFaults
      /\ promptCrashes' \in 0..MaxPromptCrashes
  BY <1>5
<1>7. U!TypeOK'
  BY <1>1, <1>2, <1>3, <1>4, <1>6 DEF U!TypeOK, Rows
<1>8. PinsHeld'
  BY <1>a DEF U!Withdraw, U!Fine, U!Fault, PinsHeld, Unopened, Unstored, Stored, GivenUp,
     U!Open
<1>9. Unopened'
  BY <1>a DEF U!Withdraw, U!Fine, U!Fault, PinsHeld, Unopened, Unstored, Stored, GivenUp,
     U!Open
<1>10. Unstored' /\ Stored'
  BY <1>a DEF U!Withdraw, U!Fine, U!Fault, PinsHeld, Unopened, Unstored, Stored, GivenUp,
     U!Open
<1>11. GivenUp'
  BY <1>a DEF U!Withdraw, U!Fine, U!Fault, PinsHeld, Unopened, Unstored, Stored, GivenUp,
     U!Open
<1>12. Attended'
  BY <1>a, <1>f, <1>5 DEF U!Withdraw, U!Fine, U!Fault, PinsHeld, Unopened, Unstored, Stored,
     GivenUp, U!Open, Attended
<1>13. Settling'
  BY <1>a DEF U!Withdraw, U!Fine, U!Fault,
     PinsHeld, Unopened, Unstored, Stored, GivenUp, Settling, U!Open
<1> QED  BY <1>7, <1>8, <1>9, <1>10, <1>11, <1>12, <1>13 DEF PromptInv

\* Its message is stored.
LEMMA KeepsStorePrompt ==
  ASSUME U!PromptAssumption, PromptInv, U!StorePrompt
  PROVE  PromptInv'
<1> USE DEF U!PromptAssumption, PromptInv, U!TypeOK
<1>r. promptRow \in Rows
  BY DEF Rows
<1>f. promptFaults \in Nat /\ MaxPromptFaults \in Nat
  OBVIOUS
<1>a. LET r == [promptRow EXCEPT !.posted = TRUE]
      IN  r \in Rows /\ r.status = promptRow.status /\ r.pin = promptRow.pin /\ r.posted
  BY <1>r DEF Rows, U!Open
<1>1. promptRow' \in Rows
  BY <1>r, <1>a DEF U!StorePrompt, U!Fine, U!Fault, U!Open
<1>2. promptStart' \in {"idle", "send", "withdraw", "store", "pin"}
  BY DEF U!StorePrompt, U!Fine, U!Fault
<1>3. /\ promptShown' \in BOOLEAN
      /\ pinned' \in BOOLEAN
      /\ closing' \in BOOLEAN
      /\ notice' \in BOOLEAN
  BY DEF U!StorePrompt, U!Fine, U!Fault, U!Open
<1>4. /\ edit' \in {"free", "pin", "call", "after", "blind", "unpin", "persist"}
      /\ retry' \in {"off", "on", "persist"}
  BY DEF U!StorePrompt, U!Fine, U!Fault
<1>5. /\ \/ promptFaults' = promptFaults
         \/ promptFaults < MaxPromptFaults /\ promptFaults' = promptFaults + 1
      /\ \/ promptCrashes' = promptCrashes
         \/ promptCrashes < MaxPromptCrashes /\ promptCrashes' = promptCrashes + 1
  BY DEF U!StorePrompt, U!Fine, U!Fault
<1>6. /\ promptFaults' \in 0..MaxPromptFaults
      /\ promptCrashes' \in 0..MaxPromptCrashes
  BY <1>5
<1>7. U!TypeOK'
  BY <1>1, <1>2, <1>3, <1>4, <1>6 DEF U!TypeOK, Rows
<1>8. PinsHeld'
  BY <1>a DEF U!StorePrompt, U!Fine, U!Fault, PinsHeld, Unopened, Unstored, Stored, GivenUp,
     U!Open
<1>9. Unopened'
  BY <1>a DEF U!StorePrompt, U!Fine, U!Fault, PinsHeld, Unopened, Unstored, Stored, GivenUp,
     U!Open
<1>10. Unstored' /\ Stored'
  BY <1>a DEF U!StorePrompt, U!Fine, U!Fault, PinsHeld, Unopened, Unstored, Stored, GivenUp,
     U!Open
<1>11. GivenUp'
  BY <1>a DEF U!StorePrompt, U!Fine, U!Fault, PinsHeld, Unopened, Unstored, Stored, GivenUp,
     U!Open
<1>12. Attended'
  BY <1>a, <1>f, <1>5 DEF U!StorePrompt, U!Fine, U!Fault, PinsHeld, Unopened, Unstored, Stored,
     GivenUp, U!Open, Attended
<1>13. Settling'
  BY <1>a DEF U!StorePrompt, U!Fine, U!Fault,
     PinsHeld, Unopened, Unstored, Stored, GivenUp, Settling, U!Open
<1> QED  BY <1>7, <1>8, <1>9, <1>10, <1>11, <1>12, <1>13 DEF PromptInv

\* A button is pressed.
LEMMA KeepsPress ==
  ASSUME U!PromptAssumption, PromptInv, U!Press
  PROVE  PromptInv'
<1> USE DEF U!PromptAssumption, PromptInv, U!TypeOK
<1>r. promptRow \in Rows
  BY DEF Rows
<1>f. promptFaults \in Nat /\ MaxPromptFaults \in Nat
  OBVIOUS
<1>a. ASSUME NEW s \in U!Open
      PROVE  LET r == [promptRow EXCEPT !.status = s, !.posted = TRUE]
             IN  r \in Rows /\ r.status = s /\ r.pin = promptRow.pin /\ r.posted
  BY <1>r DEF Rows, U!Open
<1>1. promptRow' \in Rows
  BY <1>r, <1>a DEF U!Press, U!Open
<1>2. promptStart' \in {"idle", "send", "withdraw", "store", "pin"}
  BY DEF U!Press
<1>3. /\ promptShown' \in BOOLEAN
      /\ pinned' \in BOOLEAN
      /\ closing' \in BOOLEAN
      /\ notice' \in BOOLEAN
  BY DEF U!Press, U!Open
<1>4. /\ edit' \in {"free", "pin", "call", "after", "blind", "unpin", "persist"}
      /\ retry' \in {"off", "on", "persist"}
  BY DEF U!Press
<1>5. /\ \/ promptFaults' = promptFaults
         \/ promptFaults < MaxPromptFaults /\ promptFaults' = promptFaults + 1
      /\ \/ promptCrashes' = promptCrashes
         \/ promptCrashes < MaxPromptCrashes /\ promptCrashes' = promptCrashes + 1
  BY DEF U!Press
<1>6. /\ promptFaults' \in 0..MaxPromptFaults
      /\ promptCrashes' \in 0..MaxPromptCrashes
  BY <1>5
<1>7. U!TypeOK'
  BY <1>1, <1>2, <1>3, <1>4, <1>6 DEF U!TypeOK, Rows
<1>8. PinsHeld'
  BY <1>a DEF U!Press, PinsHeld, Unopened, Unstored, Stored, GivenUp, U!Open
<1>9. Unopened'
  BY <1>a DEF U!Press, PinsHeld, Unopened, Unstored, Stored, GivenUp, U!Open
<1>10. Unstored' /\ Stored'
  BY <1>a DEF U!Press, PinsHeld, Unopened, Unstored, Stored, GivenUp, U!Open
<1>11. GivenUp'
  BY <1>a DEF U!Press, PinsHeld, Unopened, Unstored, Stored, GivenUp, U!Open
<1>12. Attended'
  BY <1>a, <1>f, <1>5 DEF U!Press, PinsHeld, Unopened, Unstored, Stored, GivenUp, U!Open,
     Attended
<1>13. Settling'
  BY <1>a DEF U!Press,
     PinsHeld, Unopened, Unstored, Stored, GivenUp, Settling, U!Open
<1> QED  BY <1>7, <1>8, <1>9, <1>10, <1>11, <1>12, <1>13 DEF PromptInv

\* The poll is closed.
LEMMA KeepsClosePoll ==
  ASSUME U!PromptAssumption, PromptInv, U!ClosePoll
  PROVE  PromptInv'
<1> USE DEF U!PromptAssumption, PromptInv, U!TypeOK
<1>r. promptRow \in Rows
  BY DEF Rows
<1>f. promptFaults \in Nat /\ MaxPromptFaults \in Nat
  OBVIOUS
<1>a. ASSUME NEW b \in BOOLEAN
      PROVE  LET r == [promptRow EXCEPT !.status = "closed", !.posted = b]
             IN  r \in Rows /\ r.status = "closed" /\ r.pin = promptRow.pin /\ r.posted = b
  BY <1>r DEF Rows, U!Open
<1>1. promptRow' \in Rows
  BY <1>r, <1>a DEF U!ClosePoll, U!IsOpen, U!Fine, U!Fault, U!Open
<1>2. promptStart' \in {"idle", "send", "withdraw", "store", "pin"}
  BY DEF U!ClosePoll, U!IsOpen, U!Fine, U!Fault
<1>3. /\ promptShown' \in BOOLEAN
      /\ pinned' \in BOOLEAN
      /\ closing' \in BOOLEAN
      /\ notice' \in BOOLEAN
  BY DEF U!ClosePoll, U!IsOpen, U!Fine, U!Fault, U!Open
<1>4. /\ edit' \in {"free", "pin", "call", "after", "blind", "unpin", "persist"}
      /\ retry' \in {"off", "on", "persist"}
  BY DEF U!ClosePoll, U!IsOpen, U!Fine, U!Fault
<1>5. /\ \/ promptFaults' = promptFaults
         \/ promptFaults < MaxPromptFaults /\ promptFaults' = promptFaults + 1
      /\ \/ promptCrashes' = promptCrashes
         \/ promptCrashes < MaxPromptCrashes /\ promptCrashes' = promptCrashes + 1
  BY DEF U!ClosePoll, U!IsOpen, U!Fine, U!Fault
<1>6. /\ promptFaults' \in 0..MaxPromptFaults
      /\ promptCrashes' \in 0..MaxPromptCrashes
  BY <1>5
<1>7. U!TypeOK'
  BY <1>1, <1>2, <1>3, <1>4, <1>6 DEF U!TypeOK, Rows
<1>8. PinsHeld'
  BY <1>a DEF U!ClosePoll, U!IsOpen, U!Fine, U!Fault, PinsHeld, Unopened, Unstored, Stored,
     GivenUp, U!Open
<1>9. Unopened'
  BY <1>a DEF U!ClosePoll, U!IsOpen, U!Fine, U!Fault, PinsHeld, Unopened, Unstored, Stored,
     GivenUp, U!Open
<1>10. Unstored' /\ Stored'
  BY <1>a DEF U!ClosePoll, U!IsOpen, U!Fine, U!Fault, PinsHeld, Unopened, Unstored, Stored,
     GivenUp, U!Open
<1>11. GivenUp'
  BY <1>a DEF U!ClosePoll, U!IsOpen, U!Fine, U!Fault, PinsHeld, Unopened, Unstored, Stored,
     GivenUp, U!Open
<1>12. Attended'
  <2>1. CASE closing'
    BY <2>1 DEF Attended
  <2>2. CASE promptFaults' # promptFaults
    <3>1. promptFaults' # 0
      BY <1>5, <1>f, <2>2
    <3> QED  BY <3>1 DEF Attended
  <2>3. closing' \/ promptFaults' = promptFaults + 1
    BY DEF U!ClosePoll, U!Fine, U!Fault
  <2> QED  BY <2>1, <2>2, <2>3, <1>f
<1>13. Settling'
  BY <1>a DEF U!ClosePoll, U!IsOpen, U!Fine, U!Fault,
     PinsHeld, Unopened, Unstored, Stored, GivenUp, Settling, U!Open
<1> QED  BY <1>7, <1>8, <1>9, <1>10, <1>11, <1>12, <1>13 DEF PromptInv

\* /unban closes it,
LEMMA KeepsUnbanCloses ==
  ASSUME U!PromptAssumption, PromptInv, U!UnbanCloses
  PROVE  PromptInv'
<1> USE DEF U!PromptAssumption, PromptInv, U!TypeOK
<1>r. promptRow \in Rows
  BY DEF Rows
<1>f. promptFaults \in Nat /\ MaxPromptFaults \in Nat
  OBVIOUS
<1>a. LET r == [promptRow EXCEPT !.status = "closed"]
      IN  r \in Rows /\ r.status = "closed" /\ r.pin = promptRow.pin
          /\ r.posted = promptRow.posted
  BY <1>r DEF Rows, U!Open
<1>1. promptRow' \in Rows
  BY <1>r, <1>a DEF U!UnbanCloses, U!IsOpen, U!Open
<1>2. promptStart' \in {"idle", "send", "withdraw", "store", "pin"}
  BY DEF U!UnbanCloses, U!IsOpen
<1>3. /\ promptShown' \in BOOLEAN
      /\ pinned' \in BOOLEAN
      /\ closing' \in BOOLEAN
      /\ notice' \in BOOLEAN
  BY DEF U!UnbanCloses, U!IsOpen, U!Open
<1>4. /\ edit' \in {"free", "pin", "call", "after", "blind", "unpin", "persist"}
      /\ retry' \in {"off", "on", "persist"}
  BY DEF U!UnbanCloses, U!IsOpen
<1>5. /\ \/ promptFaults' = promptFaults
         \/ promptFaults < MaxPromptFaults /\ promptFaults' = promptFaults + 1
      /\ \/ promptCrashes' = promptCrashes
         \/ promptCrashes < MaxPromptCrashes /\ promptCrashes' = promptCrashes + 1
  BY DEF U!UnbanCloses, U!IsOpen
<1>6. /\ promptFaults' \in 0..MaxPromptFaults
      /\ promptCrashes' \in 0..MaxPromptCrashes
  BY <1>5
<1>7. U!TypeOK'
  BY <1>1, <1>2, <1>3, <1>4, <1>6 DEF U!TypeOK, Rows
<1>8. PinsHeld'
  BY <1>a DEF U!UnbanCloses, U!IsOpen, PinsHeld, Unopened, Unstored, Stored, GivenUp, U!Open
<1>9. Unopened'
  BY <1>a DEF U!UnbanCloses, U!IsOpen, PinsHeld, Unopened, Unstored, Stored, GivenUp, U!Open
<1>10. Unstored' /\ Stored'
  BY <1>a DEF U!UnbanCloses, U!IsOpen, PinsHeld, Unopened, Unstored, Stored, GivenUp, U!Open
<1>11. GivenUp'
  BY <1>a DEF U!UnbanCloses, U!IsOpen, PinsHeld, Unopened, Unstored, Stored, GivenUp, U!Open
<1>12. Attended'
  BY <1>a, <1>f, <1>5 DEF U!UnbanCloses, U!IsOpen, PinsHeld, Unopened, Unstored, Stored,
     GivenUp, U!Open, Attended
<1>13. Settling'
  BY <1>a DEF U!UnbanCloses, U!IsOpen,
     PinsHeld, Unopened, Unstored, Stored, GivenUp, Settling, U!Open
<1> QED  BY <1>7, <1>8, <1>9, <1>10, <1>11, <1>12, <1>13 DEF PromptInv

\* and its task finalizes the prompt.
LEMMA KeepsNoticed ==
  ASSUME U!PromptAssumption, PromptInv, U!Noticed
  PROVE  PromptInv'
<1> USE DEF U!PromptAssumption, PromptInv, U!TypeOK
<1>r. promptRow \in Rows
  BY DEF Rows
<1>f. promptFaults \in Nat /\ MaxPromptFaults \in Nat
  OBVIOUS
<1>a. promptRow \in Rows
  BY <1>r
<1>1. promptRow' \in Rows
  BY <1>r, <1>a DEF U!Noticed, U!Fine, U!Fault, U!Open
<1>2. promptStart' \in {"idle", "send", "withdraw", "store", "pin"}
  BY DEF U!Noticed, U!Fine, U!Fault
<1>3. /\ promptShown' \in BOOLEAN
      /\ pinned' \in BOOLEAN
      /\ closing' \in BOOLEAN
      /\ notice' \in BOOLEAN
  BY DEF U!Noticed, U!Fine, U!Fault, U!Open
<1>4. /\ edit' \in {"free", "pin", "call", "after", "blind", "unpin", "persist"}
      /\ retry' \in {"off", "on", "persist"}
  BY DEF U!Noticed, U!Fine, U!Fault
<1>5. /\ \/ promptFaults' = promptFaults
         \/ promptFaults < MaxPromptFaults /\ promptFaults' = promptFaults + 1
      /\ \/ promptCrashes' = promptCrashes
         \/ promptCrashes < MaxPromptCrashes /\ promptCrashes' = promptCrashes + 1
  BY DEF U!Noticed, U!Fine, U!Fault
<1>6. /\ promptFaults' \in 0..MaxPromptFaults
      /\ promptCrashes' \in 0..MaxPromptCrashes
  BY <1>5
<1>7. U!TypeOK'
  BY <1>1, <1>2, <1>3, <1>4, <1>6 DEF U!TypeOK, Rows
<1>8. PinsHeld'
  BY <1>a DEF U!Noticed, U!Fine, U!Fault, PinsHeld, Unopened, Unstored, Stored, GivenUp, U!Open
<1>9. Unopened'
  BY <1>a DEF U!Noticed, U!Fine, U!Fault, PinsHeld, Unopened, Unstored, Stored, GivenUp, U!Open
<1>10. Unstored' /\ Stored'
  BY <1>a DEF U!Noticed, U!Fine, U!Fault, PinsHeld, Unopened, Unstored, Stored, GivenUp, U!Open
<1>11. GivenUp'
  BY <1>a DEF U!Noticed, U!Fine, U!Fault, PinsHeld, Unopened, Unstored, Stored, GivenUp, U!Open
<1>12. Attended'
  BY <1>a, <1>f, <1>5 DEF U!Noticed, U!Fine, U!Fault, PinsHeld, Unopened, Unstored, Stored,
     GivenUp, U!Open,
     Attended
<1>13. Settling'
  BY <1>a DEF U!Noticed, U!Fine, U!Fault,
     PinsHeld, Unopened, Unstored, Stored, GivenUp, Settling, U!Open
<1> QED  BY <1>7, <1>8, <1>9, <1>10, <1>11, <1>12, <1>13 DEF PromptInv

\* The pin takes the lock,
LEMMA KeepsPinPrompt ==
  ASSUME U!PromptAssumption, PromptInv, U!PinPrompt
  PROVE  PromptInv'
<1> USE DEF U!PromptAssumption, PromptInv, U!TypeOK
<1>r. promptRow \in Rows
  BY DEF Rows
<1>f. promptFaults \in Nat /\ MaxPromptFaults \in Nat
  OBVIOUS
<1>a. promptRow \in Rows
  BY <1>r
<1>1. promptRow' \in Rows
  BY <1>r, <1>a DEF U!PinPrompt, U!Open
<1>2. promptStart' \in {"idle", "send", "withdraw", "store", "pin"}
  BY DEF U!PinPrompt
<1>3. /\ promptShown' \in BOOLEAN
      /\ pinned' \in BOOLEAN
      /\ closing' \in BOOLEAN
      /\ notice' \in BOOLEAN
  BY DEF U!PinPrompt, U!Open
<1>4. /\ edit' \in {"free", "pin", "call", "after", "blind", "unpin", "persist"}
      /\ retry' \in {"off", "on", "persist"}
  BY DEF U!PinPrompt
<1>5. /\ \/ promptFaults' = promptFaults
         \/ promptFaults < MaxPromptFaults /\ promptFaults' = promptFaults + 1
      /\ \/ promptCrashes' = promptCrashes
         \/ promptCrashes < MaxPromptCrashes /\ promptCrashes' = promptCrashes + 1
  BY DEF U!PinPrompt
<1>6. /\ promptFaults' \in 0..MaxPromptFaults
      /\ promptCrashes' \in 0..MaxPromptCrashes
  BY <1>5
<1>7. U!TypeOK'
  BY <1>1, <1>2, <1>3, <1>4, <1>6 DEF U!TypeOK, Rows
<1>8. PinsHeld'
  BY <1>a DEF U!PinPrompt, PinsHeld, Unopened, Unstored, Stored, GivenUp, U!Open
<1>9. Unopened'
  BY <1>a DEF U!PinPrompt, PinsHeld, Unopened, Unstored, Stored, GivenUp, U!Open
<1>10. Unstored' /\ Stored'
  BY <1>a DEF U!PinPrompt, PinsHeld, Unopened, Unstored, Stored, GivenUp, U!Open
<1>11. GivenUp'
  BY <1>a DEF U!PinPrompt, PinsHeld, Unopened, Unstored, Stored, GivenUp, U!Open
<1>12. Attended'
  BY <1>a, <1>f, <1>5 DEF U!PinPrompt, PinsHeld, Unopened, Unstored, Stored, GivenUp, U!Open,
     Attended
<1>13. Settling'
  BY <1>a DEF U!PinPrompt,
     PinsHeld, Unopened, Unstored, Stored, GivenUp, Settling, U!Open
<1> QED  BY <1>7, <1>8, <1>9, <1>10, <1>11, <1>12, <1>13 DEF PromptInv

\* reads the row,
LEMMA KeepsPinRead ==
  ASSUME U!PromptAssumption, PromptInv, U!PinRead
  PROVE  PromptInv'
<1> USE DEF U!PromptAssumption, PromptInv, U!TypeOK
<1>r. promptRow \in Rows
  BY DEF Rows
<1>f. promptFaults \in Nat /\ MaxPromptFaults \in Nat
  OBVIOUS
<1>a. promptRow \in Rows
  BY <1>r
<1>1. promptRow' \in Rows
  BY <1>r, <1>a DEF U!PinRead, U!IsOpen, U!Fine, U!Fault, U!Open
<1>2. promptStart' \in {"idle", "send", "withdraw", "store", "pin"}
  BY DEF U!PinRead, U!IsOpen, U!Fine, U!Fault
<1>3. /\ promptShown' \in BOOLEAN
      /\ pinned' \in BOOLEAN
      /\ closing' \in BOOLEAN
      /\ notice' \in BOOLEAN
  BY DEF U!PinRead, U!IsOpen, U!Fine, U!Fault, U!Open
<1>4. /\ edit' \in {"free", "pin", "call", "after", "blind", "unpin", "persist"}
      /\ retry' \in {"off", "on", "persist"}
  BY DEF U!PinRead, U!IsOpen, U!Fine, U!Fault
<1>5. /\ \/ promptFaults' = promptFaults
         \/ promptFaults < MaxPromptFaults /\ promptFaults' = promptFaults + 1
      /\ \/ promptCrashes' = promptCrashes
         \/ promptCrashes < MaxPromptCrashes /\ promptCrashes' = promptCrashes + 1
  BY DEF U!PinRead, U!IsOpen, U!Fine, U!Fault
<1>6. /\ promptFaults' \in 0..MaxPromptFaults
      /\ promptCrashes' \in 0..MaxPromptCrashes
  BY <1>5
<1>7. U!TypeOK'
  BY <1>1, <1>2, <1>3, <1>4, <1>6 DEF U!TypeOK, Rows
<1>8. PinsHeld'
  BY <1>a DEF U!PinRead, U!IsOpen, U!Fine, U!Fault,
     PinsHeld, Unopened, Unstored, Stored, GivenUp, Settling, U!Open
<1>9. Unopened'
  BY <1>a DEF U!PinRead, U!IsOpen, U!Fine, U!Fault,
     PinsHeld, Unopened, Unstored, Stored, GivenUp, Settling, U!Open
<1>10. Unstored' /\ Stored'
  BY <1>a DEF U!PinRead, U!IsOpen, U!Fine, U!Fault,
     PinsHeld, Unopened, Unstored, Stored, GivenUp, Settling, U!Open
<1>11. GivenUp'
  BY <1>a DEF U!PinRead, U!IsOpen, U!Fine, U!Fault,
     PinsHeld, Unopened, Unstored, Stored, GivenUp, Settling, U!Open
<1>12. Attended'
  BY <1>a, <1>f, <1>5 DEF U!PinRead, U!IsOpen, U!Fine, U!Fault,
     PinsHeld, Unopened, Unstored, Stored, GivenUp, Settling, U!Open, Attended
<1>13. Settling'
  BY <1>a DEF U!PinRead, U!IsOpen, U!Fine, U!Fault,
     PinsHeld, Unopened, Unstored, Stored, GivenUp, Settling, U!Open
<1> QED  BY <1>7, <1>8, <1>9, <1>10, <1>11, <1>12, <1>13 DEF PromptInv

\* is made,
LEMMA KeepsPinCall ==
  ASSUME U!PromptAssumption, PromptInv, U!PinCall
  PROVE  PromptInv'
<1> USE DEF U!PromptAssumption, PromptInv, U!TypeOK
<1>r. promptRow \in Rows
  BY DEF Rows
<1>f. promptFaults \in Nat /\ MaxPromptFaults \in Nat
  OBVIOUS
<1>a. promptRow \in Rows
  BY <1>r
<1>1. promptRow' \in Rows
  BY <1>r, <1>a DEF U!PinCall, U!Fine, U!Fault, U!Open
<1>2. promptStart' \in {"idle", "send", "withdraw", "store", "pin"}
  BY DEF U!PinCall, U!Fine, U!Fault
<1>3. /\ promptShown' \in BOOLEAN
      /\ pinned' \in BOOLEAN
      /\ closing' \in BOOLEAN
      /\ notice' \in BOOLEAN
  BY DEF U!PinCall, U!Fine, U!Fault, U!Open
<1>4. /\ edit' \in {"free", "pin", "call", "after", "blind", "unpin", "persist"}
      /\ retry' \in {"off", "on", "persist"}
  BY DEF U!PinCall, U!Fine, U!Fault
<1>5. /\ \/ promptFaults' = promptFaults
         \/ promptFaults < MaxPromptFaults /\ promptFaults' = promptFaults + 1
      /\ \/ promptCrashes' = promptCrashes
         \/ promptCrashes < MaxPromptCrashes /\ promptCrashes' = promptCrashes + 1
  BY DEF U!PinCall, U!Fine, U!Fault
<1>6. /\ promptFaults' \in 0..MaxPromptFaults
      /\ promptCrashes' \in 0..MaxPromptCrashes
  BY <1>5
<1>7. U!TypeOK'
  BY <1>1, <1>2, <1>3, <1>4, <1>6 DEF U!TypeOK, Rows
<1>8. PinsHeld'
  BY <1>a DEF U!PinCall, U!Fine, U!Fault,
     PinsHeld, Unopened, Unstored, Stored, GivenUp, Settling, U!Open
<1>9. Unopened'
  BY <1>a DEF U!PinCall, U!Fine, U!Fault,
     PinsHeld, Unopened, Unstored, Stored, GivenUp, Settling, U!Open
<1>10. Unstored' /\ Stored'
  BY <1>a DEF U!PinCall, U!Fine, U!Fault,
     PinsHeld, Unopened, Unstored, Stored, GivenUp, Settling, U!Open
<1>11. GivenUp'
  BY <1>a DEF U!PinCall, U!Fine, U!Fault,
     PinsHeld, Unopened, Unstored, Stored, GivenUp, Settling, U!Open
<1>12. Attended'
  BY <1>a, <1>f, <1>5 DEF U!PinCall, U!Fine, U!Fault,
     PinsHeld, Unopened, Unstored, Stored, GivenUp, Settling, U!Open, Attended
<1>13. Settling'
  BY <1>a DEF U!PinCall, U!Fine, U!Fault,
     PinsHeld, Unopened, Unstored, Stored, GivenUp, Settling, U!Open
<1> QED  BY <1>7, <1>8, <1>9, <1>10, <1>11, <1>12, <1>13 DEF PromptInv

\* and is looked at again.
LEMMA KeepsPinChecked ==
  ASSUME U!PromptAssumption, PromptInv, U!PinChecked
  PROVE  PromptInv'
<1> USE DEF U!PromptAssumption, PromptInv, U!TypeOK
<1>r. promptRow \in Rows
  BY DEF Rows
<1>f. promptFaults \in Nat /\ MaxPromptFaults \in Nat
  OBVIOUS
<1>a. promptRow \in Rows
  BY <1>r
<1>1. promptRow' \in Rows
  BY <1>r, <1>a DEF U!PinChecked, U!IsOpen, U!Fine, U!Fault, U!Open
<1>2. promptStart' \in {"idle", "send", "withdraw", "store", "pin"}
  BY DEF U!PinChecked, U!IsOpen, U!Fine, U!Fault
<1>3. /\ promptShown' \in BOOLEAN
      /\ pinned' \in BOOLEAN
      /\ closing' \in BOOLEAN
      /\ notice' \in BOOLEAN
  BY DEF U!PinChecked, U!IsOpen, U!Fine, U!Fault, U!Open
<1>4. /\ edit' \in {"free", "pin", "call", "after", "blind", "unpin", "persist"}
      /\ retry' \in {"off", "on", "persist"}
  BY DEF U!PinChecked, U!IsOpen, U!Fine, U!Fault
<1>5. /\ \/ promptFaults' = promptFaults
         \/ promptFaults < MaxPromptFaults /\ promptFaults' = promptFaults + 1
      /\ \/ promptCrashes' = promptCrashes
         \/ promptCrashes < MaxPromptCrashes /\ promptCrashes' = promptCrashes + 1
  BY DEF U!PinChecked, U!IsOpen, U!Fine, U!Fault
<1>6. /\ promptFaults' \in 0..MaxPromptFaults
      /\ promptCrashes' \in 0..MaxPromptCrashes
  BY <1>5
<1>7. U!TypeOK'
  BY <1>1, <1>2, <1>3, <1>4, <1>6 DEF U!TypeOK, Rows
<1>8. PinsHeld'
  BY <1>a DEF U!PinChecked, U!IsOpen, U!Fine, U!Fault, PinsHeld, Unopened, Unstored, Stored,
     GivenUp, U!Open
<1>9. Unopened'
  BY <1>a DEF U!PinChecked, U!IsOpen, U!Fine, U!Fault, PinsHeld, Unopened, Unstored, Stored,
     GivenUp, U!Open
<1>10. Unstored' /\ Stored'
  BY <1>a DEF U!PinChecked, U!IsOpen, U!Fine, U!Fault, PinsHeld, Unopened, Unstored, Stored,
     GivenUp, U!Open
<1>11. GivenUp'
  BY <1>a DEF U!PinChecked, U!IsOpen, U!Fine, U!Fault, PinsHeld, Unopened, Unstored, Stored,
     GivenUp, U!Open
<1>12. Attended'
  BY <1>a, <1>f, <1>5 DEF U!PinChecked, U!IsOpen, U!Fine, U!Fault, PinsHeld, Unopened,
     Unstored,
     Stored, GivenUp, U!Open, Attended
<1>13. Settling'
  BY <1>a DEF U!PinChecked, U!IsOpen, U!Fine, U!Fault,
     PinsHeld, Unopened, Unstored, Stored, GivenUp, Settling, U!Open
<1> QED  BY <1>7, <1>8, <1>9, <1>10, <1>11, <1>12, <1>13 DEF PromptInv

\* The prompt is finalized:
LEMMA KeepsFinalizeMessage ==
  ASSUME U!PromptAssumption, PromptInv, U!FinalizeMessage
  PROVE  PromptInv'
<1> USE DEF U!PromptAssumption, PromptInv, U!TypeOK
<1>r. promptRow \in Rows
  BY DEF Rows
<1>f. promptFaults \in Nat /\ MaxPromptFaults \in Nat
  OBVIOUS
<1>a. promptRow \in Rows
  BY <1>r
<1>1. promptRow' \in Rows
  BY <1>r, <1>a DEF U!FinalizeMessage, U!Open
<1>2. promptStart' \in {"idle", "send", "withdraw", "store", "pin"}
  BY DEF U!FinalizeMessage
<1>3. /\ promptShown' \in BOOLEAN
      /\ pinned' \in BOOLEAN
      /\ closing' \in BOOLEAN
      /\ notice' \in BOOLEAN
  BY DEF U!FinalizeMessage, U!Open
<1>4. /\ edit' \in {"free", "pin", "call", "after", "blind", "unpin", "persist"}
      /\ retry' \in {"off", "on", "persist"}
  BY DEF U!FinalizeMessage
<1>5. /\ \/ promptFaults' = promptFaults
         \/ promptFaults < MaxPromptFaults /\ promptFaults' = promptFaults + 1
      /\ \/ promptCrashes' = promptCrashes
         \/ promptCrashes < MaxPromptCrashes /\ promptCrashes' = promptCrashes + 1
  BY DEF U!FinalizeMessage
<1>6. /\ promptFaults' \in 0..MaxPromptFaults
      /\ promptCrashes' \in 0..MaxPromptCrashes
  BY <1>5
<1>7. U!TypeOK'
  BY <1>1, <1>2, <1>3, <1>4, <1>6 DEF U!TypeOK, Rows
<1>8. PinsHeld'
  BY <1>a DEF U!FinalizeMessage, PinsHeld, Unopened, Unstored, Stored, GivenUp, U!Open
<1>9. Unopened'
  BY <1>a DEF U!FinalizeMessage, PinsHeld, Unopened, Unstored, Stored, GivenUp, U!Open
<1>10. Unstored' /\ Stored'
  BY <1>a DEF U!FinalizeMessage, PinsHeld, Unopened, Unstored, Stored, GivenUp, U!Open
<1>11. GivenUp'
  BY <1>a DEF U!FinalizeMessage, PinsHeld, Unopened, Unstored, Stored, GivenUp, U!Open
<1>12. Attended'
  BY <1>a, <1>f, <1>5 DEF U!FinalizeMessage, PinsHeld, Unopened, Unstored, Stored, GivenUp,
     U!Open, Attended
<1>13. Settling'
  BY <1>a DEF U!FinalizeMessage,
     PinsHeld, Unopened, Unstored, Stored, GivenUp, Settling, U!Open
<1> QED  BY <1>7, <1>8, <1>9, <1>10, <1>11, <1>12, <1>13 DEF PromptInv

\* it is unpinned,
LEMMA KeepsUnpin ==
  ASSUME U!PromptAssumption, PromptInv, U!Unpin
  PROVE  PromptInv'
<1> USE DEF U!PromptAssumption, PromptInv, U!TypeOK
<1>r. promptRow \in Rows
  BY DEF Rows
<1>f. promptFaults \in Nat /\ MaxPromptFaults \in Nat
  OBVIOUS
<1>a. promptRow \in Rows
  BY <1>r
<1>1. promptRow' \in Rows
  BY <1>r, <1>a DEF U!Unpin, U!Fine, U!Fault, U!Retried, U!Open
<1>2. promptStart' \in {"idle", "send", "withdraw", "store", "pin"}
  BY DEF U!Unpin, U!Fine, U!Fault, U!Retried
<1>3. /\ promptShown' \in BOOLEAN
      /\ pinned' \in BOOLEAN
      /\ closing' \in BOOLEAN
      /\ notice' \in BOOLEAN
  BY DEF U!Unpin, U!Fine, U!Fault, U!Retried, U!Open
<1>4. /\ edit' \in {"free", "pin", "call", "after", "blind", "unpin", "persist"}
      /\ retry' \in {"off", "on", "persist"}
  BY DEF U!Unpin, U!Fine, U!Fault, U!Retried
<1>5. /\ \/ promptFaults' = promptFaults
         \/ promptFaults < MaxPromptFaults /\ promptFaults' = promptFaults + 1
      /\ \/ promptCrashes' = promptCrashes
         \/ promptCrashes < MaxPromptCrashes /\ promptCrashes' = promptCrashes + 1
  BY DEF U!Unpin, U!Fine, U!Fault, U!Retried
<1>6. /\ promptFaults' \in 0..MaxPromptFaults
      /\ promptCrashes' \in 0..MaxPromptCrashes
  BY <1>5
<1>7. U!TypeOK'
  BY <1>1, <1>2, <1>3, <1>4, <1>6 DEF U!TypeOK, Rows
<1>8. PinsHeld'
  BY <1>a DEF U!Unpin, U!Fine, U!Fault, U!Retried, PinsHeld, Unopened, Unstored, Stored,
     GivenUp,
     U!Open
<1>9. Unopened'
  BY <1>a DEF U!Unpin, U!Fine, U!Fault, U!Retried, PinsHeld, Unopened, Unstored, Stored,
     GivenUp,
     U!Open
<1>10. Unstored' /\ Stored'
  <2>1. promptRow' = promptRow /\ promptStart' = promptStart /\ edit' \in {"free", "persist"}
    BY DEF U!Unpin, U!Fine, U!Fault, U!Retried
  <2>p. pinned' => pinned
    BY DEF U!Unpin, U!Fine, U!Fault, U!Retried
  <2> QED  BY <2>1, <2>p DEF Unstored, Stored
<1>11. GivenUp'
  <2>1. promptRow' = promptRow /\ promptStart' = promptStart /\ edit' \in {"free", "persist"}
    BY DEF U!Unpin, U!Fine, U!Fault, U!Retried
  <2>p. pinned' => pinned
    BY DEF U!Unpin, U!Fine, U!Fault, U!Retried
  <2>2. edit' = "persist" => ~pinned'
    BY DEF U!Unpin, U!Fine, U!Fault, U!Retried
  <2>3. retry' = "persist" => retry = "persist"
    BY DEF U!Unpin, U!Fine, U!Fault, U!Retried
  <2> QED  BY <2>1, <2>p, <2>2, <2>3 DEF GivenUp
<1>12. Attended'
  BY <1>a, <1>f, <1>5 DEF U!Unpin, U!Fine, U!Fault, U!Retried, PinsHeld, Unopened, Unstored,
     Stored,
     GivenUp, U!Open, Attended
<1>13. Settling'
  BY <1>a DEF U!Unpin, U!Fine, U!Fault, U!Retried,
     PinsHeld, Unopened, Unstored, Stored, GivenUp, Settling, U!Open
<1> QED  BY <1>7, <1>8, <1>9, <1>10, <1>11, <1>12, <1>13 DEF PromptInv

\* and the row gives the pin up.
LEMMA KeepsReleasePin ==
  ASSUME U!PromptAssumption, PromptInv, U!ReleasePin
  PROVE  PromptInv'
<1> USE DEF U!PromptAssumption, PromptInv, U!TypeOK
<1>r. promptRow \in Rows
  BY DEF Rows
<1>f. promptFaults \in Nat /\ MaxPromptFaults \in Nat
  OBVIOUS
<1>a. LET r == [promptRow EXCEPT !.pin = FALSE]
      IN  r \in Rows /\ r.status = promptRow.status /\ ~r.pin /\ r.posted = promptRow.posted
  BY <1>r DEF Rows, U!Open
<1>1. promptRow' \in Rows
  BY <1>r, <1>a DEF U!ReleasePin, U!Fine, U!Fault, U!Retried, U!Released, U!Open
<1>2. promptStart' \in {"idle", "send", "withdraw", "store", "pin"}
  BY DEF U!ReleasePin, U!Fine, U!Fault, U!Retried, U!Released
<1>3. /\ promptShown' \in BOOLEAN
      /\ pinned' \in BOOLEAN
      /\ closing' \in BOOLEAN
      /\ notice' \in BOOLEAN
  BY DEF U!ReleasePin, U!Fine, U!Fault, U!Retried, U!Released, U!Open
<1>4. /\ edit' \in {"free", "pin", "call", "after", "blind", "unpin", "persist"}
      /\ retry' \in {"off", "on", "persist"}
  BY DEF U!ReleasePin, U!Fine, U!Fault, U!Retried, U!Released
<1>5. /\ \/ promptFaults' = promptFaults
         \/ promptFaults < MaxPromptFaults /\ promptFaults' = promptFaults + 1
      /\ \/ promptCrashes' = promptCrashes
         \/ promptCrashes < MaxPromptCrashes /\ promptCrashes' = promptCrashes + 1
  BY DEF U!ReleasePin, U!Fine, U!Fault, U!Retried, U!Released
<1>6. /\ promptFaults' \in 0..MaxPromptFaults
      /\ promptCrashes' \in 0..MaxPromptCrashes
  BY <1>5
<1>7. U!TypeOK'
  BY <1>1, <1>2, <1>3, <1>4, <1>6 DEF U!TypeOK, Rows
<1>8. PinsHeld'
  <2>1. CASE promptFaults' = promptFaults
    BY <2>1, <1>a
       DEF U!ReleasePin, U!Fine, U!Fault, U!Retried, U!Released, PinsHeld, Unopened, Unstored,
       Stored, GivenUp, U!Open
  <2>2. CASE promptFaults' # promptFaults
    BY <2>2, <1>a
       DEF U!ReleasePin, U!Fine, U!Fault, U!Retried, U!Released, PinsHeld, Unopened, Unstored,
       Stored, GivenUp, U!Open
  <2> QED  BY <2>1, <2>2
<1>9. Unopened'
  <2>1. CASE promptFaults' = promptFaults
    BY <2>1, <1>a
       DEF U!ReleasePin, U!Fine, U!Fault, U!Retried, U!Released, PinsHeld, Unopened, Unstored,
       Stored, GivenUp, U!Open
  <2>2. CASE promptFaults' # promptFaults
    BY <2>2, <1>a
       DEF U!ReleasePin, U!Fine, U!Fault, U!Retried, U!Released, PinsHeld, Unopened, Unstored,
       Stored, GivenUp, U!Open
  <2> QED  BY <2>1, <2>2
<1>10. Unstored' /\ Stored'
  <2>1. edit' = "free" /\ promptStart' = promptStart /\ pinned' = pinned
            /\ promptRow'.posted = promptRow.posted
    BY <1>a DEF U!ReleasePin, U!Fine, U!Fault, U!Retried, U!Released
  <2> QED  BY <2>1 DEF Unstored, Stored
<1>11. GivenUp'
  <2>1. edit' = "free" /\ pinned' = pinned /\ promptRow'.status = promptRow.status
    BY <1>a DEF U!ReleasePin, U!Fine, U!Fault, U!Retried, U!Released
  <2>2. retry' = "persist" => retry = "persist"
    BY DEF U!ReleasePin, U!Fine, U!Fault, U!Retried, U!Released
  <2> QED  BY <2>1, <2>2 DEF GivenUp
<1>12. Attended'
  <2>1. CASE promptFaults' = promptFaults
    BY <2>1, <1>a, <1>f, <1>5
       DEF U!ReleasePin, U!Fine, U!Fault, U!Retried, U!Released, PinsHeld, Unopened, Unstored,
       Stored, GivenUp, U!Open, Attended
  <2>2. CASE promptFaults' # promptFaults
    BY <2>2, <1>a, <1>f, <1>5
       DEF U!ReleasePin, U!Fine, U!Fault, U!Retried, U!Released, PinsHeld, Unopened, Unstored,
       Stored, GivenUp, U!Open, Attended
  <2> QED  BY <2>1, <2>2
<1>13. Settling'
  BY <1>a DEF U!ReleasePin, U!Fine, U!Fault, U!Retried, U!Released,
     PinsHeld, Unopened, Unstored, Stored, GivenUp, Settling, U!Open
<1> QED  BY <1>7, <1>8, <1>9, <1>10, <1>11, <1>12, <1>13 DEF PromptInv

\* The same by the task that retries.
LEMMA KeepsRetryUnpin ==
  ASSUME U!PromptAssumption, PromptInv, U!RetryUnpin
  PROVE  PromptInv'
<1> USE DEF U!PromptAssumption, PromptInv, U!TypeOK
<1>r. promptRow \in Rows
  BY DEF Rows
<1>f. promptFaults \in Nat /\ MaxPromptFaults \in Nat
  OBVIOUS
<1>a. promptRow \in Rows
  BY <1>r
<1>1. promptRow' \in Rows
  BY <1>r, <1>a DEF U!RetryUnpin, U!Fine, U!Fault, U!Open
<1>2. promptStart' \in {"idle", "send", "withdraw", "store", "pin"}
  BY DEF U!RetryUnpin, U!Fine, U!Fault
<1>3. /\ promptShown' \in BOOLEAN
      /\ pinned' \in BOOLEAN
      /\ closing' \in BOOLEAN
      /\ notice' \in BOOLEAN
  BY DEF U!RetryUnpin, U!Fine, U!Fault, U!Open
<1>4. /\ edit' \in {"free", "pin", "call", "after", "blind", "unpin", "persist"}
      /\ retry' \in {"off", "on", "persist"}
  BY DEF U!RetryUnpin, U!Fine, U!Fault
<1>5. /\ \/ promptFaults' = promptFaults
         \/ promptFaults < MaxPromptFaults /\ promptFaults' = promptFaults + 1
      /\ \/ promptCrashes' = promptCrashes
         \/ promptCrashes < MaxPromptCrashes /\ promptCrashes' = promptCrashes + 1
  BY DEF U!RetryUnpin, U!Fine, U!Fault
<1>6. /\ promptFaults' \in 0..MaxPromptFaults
      /\ promptCrashes' \in 0..MaxPromptCrashes
  BY <1>5
<1>7. U!TypeOK'
  BY <1>1, <1>2, <1>3, <1>4, <1>6 DEF U!TypeOK, Rows
<1>8. PinsHeld'
  BY <1>a DEF U!RetryUnpin, U!Fine, U!Fault, PinsHeld, Unopened, Unstored, Stored, GivenUp,
     U!Open
<1>9. Unopened'
  BY <1>a DEF U!RetryUnpin, U!Fine, U!Fault, PinsHeld, Unopened, Unstored, Stored, GivenUp,
     U!Open
<1>10. Unstored' /\ Stored'
  BY <1>a DEF U!RetryUnpin, U!Fine, U!Fault, PinsHeld, Unopened, Unstored, Stored, GivenUp,
     U!Open
<1>11. GivenUp'
  BY <1>a DEF U!RetryUnpin, U!Fine, U!Fault, PinsHeld, Unopened, Unstored, Stored, GivenUp,
     U!Open
<1>12. Attended'
  <2>1. /\ promptRow' = promptRow /\ promptStart' = promptStart /\ edit' = edit
            /\ closing' = closing
        /\ notice' = notice /\ (pinned' => pinned)
    BY DEF U!RetryUnpin, U!Fine, U!Fault
  <2>2. promptFaults' = 0 => promptFaults = 0
    BY <1>5, <1>f
  <2> QED  BY <2>1, <2>2 DEF Attended
<1>13. Settling'
  BY <1>a DEF U!RetryUnpin, U!Fine, U!Fault,
     PinsHeld, Unopened, Unstored, Stored, GivenUp, Settling, U!Open
<1> QED  BY <1>7, <1>8, <1>9, <1>10, <1>11, <1>12, <1>13 DEF PromptInv

\* Its row.
LEMMA KeepsRetryRelease ==
  ASSUME U!PromptAssumption, PromptInv, U!RetryRelease
  PROVE  PromptInv'
<1> USE DEF U!PromptAssumption, PromptInv, U!TypeOK
<1>r. promptRow \in Rows
  BY DEF Rows
<1>f. promptFaults \in Nat /\ MaxPromptFaults \in Nat
  OBVIOUS
<1>a. LET r == [promptRow EXCEPT !.pin = FALSE]
      IN  r \in Rows /\ r.status = promptRow.status /\ ~r.pin /\ r.posted = promptRow.posted
  BY <1>r DEF Rows, U!Open
<1>1. promptRow' \in Rows
  BY <1>r, <1>a DEF U!RetryRelease, U!Fine, U!Fault, U!Released, U!Open
<1>2. promptStart' \in {"idle", "send", "withdraw", "store", "pin"}
  BY DEF U!RetryRelease, U!Fine, U!Fault, U!Released
<1>3. /\ promptShown' \in BOOLEAN
      /\ pinned' \in BOOLEAN
      /\ closing' \in BOOLEAN
      /\ notice' \in BOOLEAN
  BY DEF U!RetryRelease, U!Fine, U!Fault, U!Released, U!Open
<1>4. /\ edit' \in {"free", "pin", "call", "after", "blind", "unpin", "persist"}
      /\ retry' \in {"off", "on", "persist"}
  BY DEF U!RetryRelease, U!Fine, U!Fault, U!Released
<1>5. /\ \/ promptFaults' = promptFaults
         \/ promptFaults < MaxPromptFaults /\ promptFaults' = promptFaults + 1
      /\ \/ promptCrashes' = promptCrashes
         \/ promptCrashes < MaxPromptCrashes /\ promptCrashes' = promptCrashes + 1
  BY DEF U!RetryRelease, U!Fine, U!Fault, U!Released
<1>6. /\ promptFaults' \in 0..MaxPromptFaults
      /\ promptCrashes' \in 0..MaxPromptCrashes
  BY <1>5
<1>7. U!TypeOK'
  BY <1>1, <1>2, <1>3, <1>4, <1>6 DEF U!TypeOK, Rows
<1>8. PinsHeld'
  <2>1. CASE promptFaults' = promptFaults
    BY <2>1, <1>a
       DEF U!RetryRelease, U!Fine, U!Fault, U!Released, PinsHeld, Unopened, Unstored, Stored,
       GivenUp, U!Open
  <2>2. CASE promptFaults' # promptFaults
    BY <2>2, <1>a
       DEF U!RetryRelease, U!Fine, U!Fault, U!Released, PinsHeld, Unopened, Unstored, Stored,
       GivenUp, U!Open
  <2> QED  BY <2>1, <2>2
<1>9. Unopened'
  <2>1. CASE promptFaults' = promptFaults
    BY <2>1, <1>a
       DEF U!RetryRelease, U!Fine, U!Fault, U!Released, PinsHeld, Unopened, Unstored, Stored,
       GivenUp, U!Open
  <2>2. CASE promptFaults' # promptFaults
    BY <2>2, <1>a
       DEF U!RetryRelease, U!Fine, U!Fault, U!Released, PinsHeld, Unopened, Unstored, Stored,
       GivenUp, U!Open
  <2> QED  BY <2>1, <2>2
<1>10. Unstored' /\ Stored'
  <2>1. CASE promptFaults' = promptFaults
    BY <2>1, <1>a
       DEF U!RetryRelease, U!Fine, U!Fault, U!Released, PinsHeld, Unopened, Unstored, Stored,
       GivenUp, U!Open
  <2>2. CASE promptFaults' # promptFaults
    BY <2>2, <1>a
       DEF U!RetryRelease, U!Fine, U!Fault, U!Released, PinsHeld, Unopened, Unstored, Stored,
       GivenUp, U!Open
  <2> QED  BY <2>1, <2>2
<1>11. GivenUp'
  <2>1. CASE promptFaults' = promptFaults
    BY <2>1, <1>a
       DEF U!RetryRelease, U!Fine, U!Fault, U!Released, PinsHeld, Unopened, Unstored, Stored,
       GivenUp, U!Open
  <2>2. CASE promptFaults' # promptFaults
    BY <2>2, <1>a
       DEF U!RetryRelease, U!Fine, U!Fault, U!Released, PinsHeld, Unopened, Unstored, Stored,
       GivenUp, U!Open
  <2> QED  BY <2>1, <2>2
<1>12. Attended'
  <2>1. pinned' = pinned /\ ~pinned
    BY DEF U!RetryRelease, GivenUp
  <2> QED  BY <2>1 DEF Attended
<1>13. Settling'
  BY <1>a DEF U!RetryRelease, U!Fine, U!Fault, U!Released,
     PinsHeld, Unopened, Unstored, Stored, GivenUp, Settling, U!Open
<1> QED  BY <1>7, <1>8, <1>9, <1>10, <1>11, <1>12, <1>13 DEF PromptInv

\* A restart.
LEMMA KeepsRestart ==
  ASSUME U!PromptAssumption, PromptInv, U!Restart
  PROVE  PromptInv'
<1> USE DEF U!PromptAssumption, PromptInv, U!TypeOK
<1>r. promptRow \in Rows
  BY DEF Rows
<1>f. promptFaults \in Nat /\ MaxPromptFaults \in Nat
  OBVIOUS
<1>a. promptRow \in Rows
  BY <1>r
<1>1. promptRow' \in Rows
  BY <1>r, <1>a DEF U!Restart, U!IsOpen, U!Open
<1>2. promptStart' \in {"idle", "send", "withdraw", "store", "pin"}
  BY DEF U!Restart, U!IsOpen
<1>3. /\ promptShown' \in BOOLEAN
      /\ pinned' \in BOOLEAN
      /\ closing' \in BOOLEAN
      /\ notice' \in BOOLEAN
  BY DEF U!Restart, U!IsOpen, U!Open
<1>4. /\ edit' \in {"free", "pin", "call", "after", "blind", "unpin", "persist"}
      /\ retry' \in {"off", "on", "persist"}
  BY DEF U!Restart, U!IsOpen
<1>5. /\ \/ promptFaults' = promptFaults
         \/ promptFaults < MaxPromptFaults /\ promptFaults' = promptFaults + 1
      /\ \/ promptCrashes' = promptCrashes
         \/ promptCrashes < MaxPromptCrashes /\ promptCrashes' = promptCrashes + 1
  BY DEF U!Restart, U!IsOpen
<1>6. /\ promptFaults' \in 0..MaxPromptFaults
      /\ promptCrashes' \in 0..MaxPromptCrashes
  BY <1>5
<1>7. U!TypeOK'
  BY <1>1, <1>2, <1>3, <1>4, <1>6 DEF U!TypeOK, Rows
<1>8. PinsHeld'
  BY <1>a DEF U!Restart, U!IsOpen, PinsHeld, Unopened, Unstored, Stored, GivenUp, U!Open
<1>9. Unopened'
  BY <1>a DEF U!Restart, U!IsOpen, PinsHeld, Unopened, Unstored, Stored, GivenUp, U!Open
<1>10. Unstored' /\ Stored'
  BY <1>a DEF U!Restart, U!IsOpen, PinsHeld, Unopened, Unstored, Stored, GivenUp, U!Open
<1>11. GivenUp'
  BY <1>a DEF U!Restart, U!IsOpen, PinsHeld, Unopened, Unstored, Stored, GivenUp, U!Open
<1>12. Attended'
  BY <1>a, <1>f, <1>5 DEF U!Restart, U!IsOpen, PinsHeld, Unopened, Unstored, Stored, GivenUp,
     U!Open, Attended
<1>13. Settling'
  BY <1>a DEF U!Restart, U!IsOpen,
     PinsHeld, Unopened, Unstored, Stored, GivenUp, Settling, U!Open
<1> QED  BY <1>7, <1>8, <1>9, <1>10, <1>11, <1>12, <1>13 DEF PromptInv

\* Every step of the program keeps the invariant.
LEMMA PromptKept ==
  ASSUME U!PromptAssumption, PromptInv, U!Next
  PROVE  PromptInv'
<1> QED
  BY KeepsOpenPoll, KeepsSendPrompt, KeepsWithdraw, KeepsStorePrompt, KeepsPress,
     KeepsClosePoll, KeepsUnbanCloses, KeepsNoticed, KeepsPinPrompt, KeepsPinRead,
     KeepsPinCall,
     KeepsPinChecked, KeepsFinalizeMessage, KeepsUnpin, KeepsReleasePin, KeepsRetryUnpin,
     KeepsRetryRelease, KeepsRestart DEF U!Next

\* From the opening of a poll to the release of its pin, whatever fails on the way,
\* the message that may be pinned is one the row owns, or somebody is about to
\* release (finalize_vote_message, _persist_vote_message_release).
THEOREM PromptInvariant ==
  ASSUME U!PromptAssumption
  PROVE  U!Init /\ [][U!Next]_promptVars => []PromptInv
<1> USE DEF U!PromptAssumption
<1>a. LET r == [status |-> "none", pin |-> FALSE, posted |-> FALSE]
      IN  r \in Rows /\ r.status = "none" /\ ~r.pin /\ ~r.posted
  BY DEF Rows
<1>1. U!Init => PromptInv
  <2> SUFFICES ASSUME U!Init PROVE PromptInv
    OBVIOUS
  <2>1. promptRow \in Rows /\ promptRow.status = "none" /\ ~promptRow.pin /\ ~promptRow.posted
    BY <1>a DEF U!Init
  <2>2. U!TypeOK
    <3>1. promptFaults \in 0..MaxPromptFaults /\ promptCrashes \in 0..MaxPromptCrashes
      BY DEF U!Init
    <3>2. /\ promptStart \in {"idle", "send", "withdraw", "store", "pin"}
          /\ edit \in {"free", "pin", "call", "after", "blind", "unpin", "persist"}
          /\ retry \in {"off", "on", "persist"}
      BY DEF U!Init
    <3>3. promptShown \in BOOLEAN /\ pinned \in BOOLEAN /\ closing \in BOOLEAN
              /\ notice \in BOOLEAN
      BY DEF U!Init
    <3> QED  BY <2>1, <3>1, <3>2, <3>3 DEF U!TypeOK, Rows
  <2>3. PinsHeld /\ Unopened /\ Unstored /\ Stored /\ GivenUp /\ Settling /\ Attended
    BY <2>1 DEF U!Init, PinsHeld, Unopened, Unstored, Stored, GivenUp, Settling, Attended
  <2> QED  BY <2>2, <2>3 DEF PromptInv
<1>2. PromptInv /\ [U!Next]_promptVars => PromptInv'
  <2> SUFFICES ASSUME PromptInv, [U!Next]_promptVars PROVE PromptInv'
    OBVIOUS
  <2>1. CASE U!Next
    BY <2>1, PromptKept
  <2>2. CASE UNCHANGED promptVars
    BY <2>2 DEF promptVars, PromptInv, U!TypeOK, PinsHeld, Unopened, Unstored, Stored, GivenUp,
                Settling, Attended, U!Open
  <2> QED  BY <2>1, <2>2
<1> QED  BY <1>1, <1>2, PTL

\* The invariant is strong enough: a pin of a closed poll that nobody is about to release
\* is still owned by its row ("keep terminal pin ownership durable after an
\* ambiguous/failed unpin"), and without a failed call nothing stays pinned.
LEMMA PromptReleases ==
  ASSUME PromptInv
  PROVE  U!PinAccounted /\ U!PinReleased
BY DEF PromptInv, U!TypeOK, U!PinAccounted, U!PinReleased, PinsHeld, Attended

-----------------------------------------------------------------------------
(* Warnings and bans of one member: Moderation *)

\* The module of warnings counts as the library does.
LEMMA CountsAlike == \A N : M!Cardinality(N) = Cardinality(N)
  BY DEF M!Cardinality, Cardinality

\* It speaks of the same finiteness.
LEMMA FiniteAlike == \A N : M!IsFiniteSet(N) <=> IsFiniteSet(N)
  BY DEF M!IsFiniteSet, IsFiniteSet

\* A judged message has a verdict that counts or warns, of a kind its row admits; one from
\* before an /unban finds the marker of that /unban.
Judged ==
  \A m \in Hits : M!At(m, "judged") =>
    /\ verdict[m].hit \in {"warn", "ban"}
    /\ verdict[m].hit = "ban" => modRow[m].base # "warn"
    /\ verdict[m].stale => restoring

Recs == {n \in Hits : M!Recorded(n)}
Period == {m \in M!Live : modRow[m].epoch = epoch}

\* Rows have the ids of their order, and a later row is of no earlier period.
InOrder ==
  /\ \A m \in Hits : /\ ledger[m] # 0 <=> modRow[m].base # "none"
                     /\ ledger[m] <= Cardinality(Recs)
                     /\ modRow[m].epoch <= epoch
  /\ \A m, n \in Hits : ledger[m] = ledger[n] /\ ledger[m] # 0 => m = n
  /\ \A m, n \in M!Live : ledger[m] < ledger[n] => modRow[m].epoch <= modRow[n].epoch

\* Every period was begun by an /unban; the button works on a row it was pressed for.
Pressing ==
  /\ epoch <= presses /\ (~M!At(Command, "done") => epoch < presses)
  /\ ~M!At(Button, "done") => target \in Hits
  /\ step[Command] \in {"done", "called", "lift"}

\* A ban that was placed under a journal is the policy's as long as the journal is its own.
Placed ==
  \A a \in M!Enforcing : M!At(a, "placed") /\ modJournal = a /\ chatBan /\ ~raced
      => warning.banned

\* The inductive invariant.
ModInv == /\ M!TypeOK /\ Judged /\ InOrder /\ Pressing /\ Placed
          /\ M!CountsAgree /\ M!NobodyKeptBanned /\ M!AuditedOnce

-----------------------------------------------------------------------------
(* Records *)

BaseForms     == {"none", "warn"} \cup M!Counted
EnforcedForms == {"null", "false", "true"}
Epochs        == 0..MaxPresses
RowForms == [base : BaseForms, enforced : EnforcedForms, direct : BOOLEAN,
             reverted : BOOLEAN, notice : BOOLEAN, epoch : Epochs]
WarnForms    == [count : 0..Cardinality(Hits), banned : BOOLEAN]
VerdictForms == [hit : {"none", "warn", "ban"}, rules : 0..MaxRuleEdits, stale : BOOLEAN]

\* The type invariant in these terms.
LEMMA Typing ==
  M!TypeOK <=> /\ rulesVersion \in 0..MaxRuleEdits /\ exempted \in BOOLEAN
               /\ step \in [M!Actors -> M!Steps] /\ verdict \in [Hits -> VerdictForms]
               /\ modRow \in [Hits -> RowForms] /\ ledger \in [Hits -> 0..Cardinality(Hits)]
               /\ warning \in WarnForms /\ snapshot \in WarnForms
               /\ userLock \in M!Enforcing \cup {Unlocked} /\ chatBan \in BOOLEAN
               /\ modJournal \in M!Actors \cup {NoJournal} /\ restoring \in BOOLEAN
               /\ target \in Hits \cup {Unlocked}
               /\ audits \in [Hits -> Nat] /\ epoch \in 0..MaxPresses /\ raced \in BOOLEAN
               /\ presses \in 0..MaxPresses /\ modFaults \in 0..MaxModFaults
  BY CountsAlike DEF M!TypeOK, RowForms, WarnForms, VerdictForms, BaseForms, EnforcedForms,
     Epochs

\* What a mark on a row leaves alone.
LEMMA Marks ==
  ASSUME NEW r \in RowForms
  PROVE  /\ r.base \in BaseForms /\ r.epoch \in Epochs
         /\ r.enforced \in EnforcedForms /\ r.reverted \in BOOLEAN /\ r.direct \in BOOLEAN
         /\ /\ [r EXCEPT !.notice = TRUE] \in RowForms
            /\ [r EXCEPT !.notice = TRUE].base = r.base
            /\ [r EXCEPT !.notice = TRUE].reverted = r.reverted
            /\ [r EXCEPT !.notice = TRUE].epoch = r.epoch
            /\ [r EXCEPT !.notice = TRUE].enforced = r.enforced
         /\ /\ [r EXCEPT !.direct = TRUE] \in RowForms
            /\ [r EXCEPT !.direct = TRUE].base = r.base
            /\ [r EXCEPT !.direct = TRUE].reverted = r.reverted
            /\ [r EXCEPT !.direct = TRUE].epoch = r.epoch
            /\ [r EXCEPT !.direct = TRUE].enforced = r.enforced
         /\ /\ [r EXCEPT !.reverted = TRUE] \in RowForms
            /\ [r EXCEPT !.reverted = TRUE].base = r.base
            /\ [r EXCEPT !.reverted = TRUE].reverted = TRUE
            /\ [r EXCEPT !.reverted = TRUE].epoch = r.epoch
            /\ [r EXCEPT !.reverted = TRUE].enforced = r.enforced
  BY DEF RowForms

\* The result of a ban, written into a row.
LEMMA Results ==
  ASSUME NEW r \in RowForms, NEW e \in EnforcedForms
  PROVE  /\ [r EXCEPT !.enforced = e] \in RowForms
         /\ [r EXCEPT !.enforced = e].base = r.base
         /\ [r EXCEPT !.enforced = e].reverted = r.reverted
         /\ [r EXCEPT !.enforced = e].epoch = r.epoch
         /\ [r EXCEPT !.enforced = e].enforced = e
  BY DEF RowForms

\* What the claim of a verdict that counts nothing writes into a row.
LEMMA Bases ==
  ASSUME NEW r \in RowForms, NEW b \in BaseForms
  PROVE  /\ [r EXCEPT !.base = b] \in RowForms
         /\ [r EXCEPT !.base = b].base = b
         /\ [r EXCEPT !.base = b].reverted = r.reverted
         /\ [r EXCEPT !.base = b].epoch = r.epoch
         /\ [r EXCEPT !.base = b].enforced = r.enforced
  BY DEF RowForms

\* A step of one actor.
LEMMA Moves ==
  ASSUME M!TypeOK, NEW a \in M!Actors, NEW s \in M!Steps, M!Goto(a, s)
  PROVE  /\ step' \in [M!Actors -> M!Steps] /\ step'[a] = s
         /\ \A b \in M!Actors : b # a => step'[b] = step[b]
  BY DEF M!TypeOK, M!Goto

\* A write to one row.
LEMMA Writes ==
  ASSUME M!TypeOK, NEW m \in Hits, NEW r \in RowForms, modRow' = [modRow EXCEPT ![m] = r]
  PROVE  /\ modRow' \in [Hits -> RowForms] /\ modRow'[m] = r
         /\ \A k \in Hits : k # m => modRow'[k] = modRow[k]
  BY Typing

\* What counts a row is as before.
SameCounts ==
  \A k \in Hits : /\ modRow'[k].base = modRow[k].base
                      /\ modRow'[k].reverted = modRow[k].reverted
                  /\ modRow'[k].epoch = modRow[k].epoch

\* The actors and the names of nobody.
LEMMA Names ==
  ASSUME M!ModerationAssumption
  PROVE  /\ Hits \subseteq M!Actors /\ M!Enforcing \subseteq M!Actors /\ Button \in M!Actors
         /\ Button \in M!Enforcing /\ Command \in M!Actors /\ Hits \subseteq M!Enforcing
         /\ Button \notin Hits /\ Command \notin M!Enforcing /\ Unlocked \notin M!Enforcing
         /\ NoJournal \notin M!Actors /\ IsFiniteSet(Hits)
         /\ \A a \in M!Enforcing : a = Button \/ a \in Hits
  BY FiniteAlike DEF M!ModerationAssumption, M!Actors, M!Enforcing

-----------------------------------------------------------------------------
(* Counting *)

\* The sets that are counted are finite.
LEMMA Finite ==
  ASSUME M!ModerationAssumption, M!TypeOK
  PROVE  /\ \A N \in SUBSET Hits : /\ IsFiniteSet(N) /\ Cardinality(N) \in Nat
                                   /\ Cardinality(N) <= Cardinality(Hits)
         /\ Cardinality(Hits) \in Nat
         /\ M!Live \subseteq Hits /\ Period \subseteq M!Live /\ Recs \subseteq Hits
<1>1. IsFiniteSet(Hits)  BY FiniteAlike DEF M!ModerationAssumption
<1>2. Cardinality(Hits) \in Nat  BY <1>1, FS_CardinalityType
<1>3. \A N \in SUBSET Hits : IsFiniteSet(N) /\ Cardinality(N) <= Cardinality(Hits)
  BY <1>1, FS_Subset
<1>4. \A N \in SUBSET Hits : Cardinality(N) \in Nat  BY <1>3, FS_CardinalityType
<1>5. QED  BY <1>2, <1>3, <1>4 DEF M!Live, Period, Recs

\* Numbers of the rows.
LEMMA Numbers ==
  ASSUME M!ModerationAssumption, M!TypeOK
  PROVE  /\ \A m \in Hits : /\ ledger[m] \in Nat /\ modRow[m].epoch \in Nat
                            /\ modRow[m] \in RowForms /\ modRow[m].base \in BaseForms
                            /\ modRow[m].reverted \in BOOLEAN
         /\ epoch \in Nat /\ presses \in Nat /\ warning.count \in Nat
         /\ warning.banned \in BOOLEAN /\ MaxPresses \in Nat
<1>1. Cardinality(Hits) \in Nat  BY Finite
<1>2. warning.count \in Nat /\ warning.banned \in BOOLEAN  BY <1>1, Typing DEF WarnForms
<1>3. MaxPresses \in Nat  BY DEF M!ModerationAssumption
<1>4. \A m \in Hits : ledger[m] \in Nat  BY <1>1, Typing
<1>5. \A m \in Hits : modRow[m] \in RowForms  BY Typing
<1>6. epoch \in Nat /\ presses \in Nat  BY <1>3, Typing
<1>7. ASSUME NEW m \in Hits
      PROVE  modRow[m].epoch \in Nat /\ modRow[m].base \in BaseForms
          /\ modRow[m].reverted \in BOOLEAN
  <2>1. modRow[m].epoch \in Epochs /\ modRow[m].base \in BaseForms
            /\ modRow[m].reverted \in BOOLEAN
    BY <1>5, Marks
  <2>2. QED  BY <1>3, <2>1 DEF Epochs
<1>8. QED  BY <1>2, <1>3, <1>4, <1>5, <1>6, <1>7

\* The rows an undo looks at, the newest the counter has, are those of the period.
LEMMA ActiveIsPeriod ==
  ASSUME M!ModerationAssumption, M!TypeOK, InOrder, M!CountsAgree
  PROVE  M!Active = Period /\ warning.count = Cardinality(Period)
<1>1. warning.count = Cardinality(Period)  BY CountsAlike DEF M!CountsAgree, Period
<1>2. ASSUME NEW m \in Period  PROVE Cardinality(M!Newer(m)) < warning.count
  <2>1. M!Newer(m) \subseteq Period \ {m}
    BY Numbers, Finite DEF M!Newer, Period, InOrder
  <2>2. Period \ {m} \in SUBSET Hits /\ IsFiniteSet(Period)  BY Finite
  <2>3. Cardinality(Period \ {m}) = Cardinality(Period) - 1
    BY <2>2, FS_RemoveElement
  <2>4. Cardinality(M!Newer(m)) <= Cardinality(Period \ {m}) /\ Cardinality(M!Newer(m)) \in Nat
    BY <2>1, <2>2, Finite, FS_Subset, FS_CardinalityType
  <2>5. QED  BY <1>1, <2>3, <2>4, Numbers
<1>3. ASSUME NEW m \in M!Live \ Period  PROVE ~(Cardinality(M!Newer(m)) < warning.count)
  <2>1. ASSUME NEW n \in Period  PROVE n \in M!Newer(m)
    <3>1. /\ m \in Hits /\ n \in Hits /\ n \in M!Live /\ m \in M!Live /\ n # m
          /\ modRow[n].epoch = epoch /\ modRow[m].epoch < epoch
      BY Numbers, Finite DEF Period, InOrder
    <3>2. modRow[m].base # "none"  BY <3>1 DEF M!Live, M!Counted
    <3>3. ledger[n] # ledger[m]  BY <3>1, <3>2 DEF InOrder
    <3>4. ~(ledger[n] < ledger[m])  BY <3>1, Numbers DEF InOrder
    <3>5. ledger[n] \in Nat /\ ledger[m] \in Nat  BY <3>1, Numbers
    <3>6. ledger[n] > ledger[m]  BY <3>3, <3>4, <3>5
    <3>7. QED  BY <3>1, <3>6 DEF M!Newer
  <2>2. M!Newer(m) \in SUBSET Hits /\ IsFiniteSet(M!Newer(m))  BY Finite DEF M!Newer
  <2>3. Cardinality(Period) <= Cardinality(M!Newer(m)) /\ Cardinality(M!Newer(m)) \in Nat
    BY <2>1, <2>2, FS_Subset, FS_CardinalityType
  <2>4. QED  BY <1>1, <2>3, Numbers
<1>4. M!Active = Period  BY <1>2, <1>3, Finite, CountsAlike DEF M!Active, M!Newest, Period
<1>5. QED  BY <1>1, <1>4

\* Order and count of the rows when nothing that counts changes.
LEMMA CountKept ==
  ASSUME M!ModerationAssumption, ModInv, SameCounts, UNCHANGED <<ledger, epoch>>,
         warning'.count = warning.count
  PROVE  InOrder' /\ M!CountsAgree'
<1>1. M!Live' = M!Live  BY DEF SameCounts, M!Live
<1>2. Recs' = Recs  BY DEF Recs, M!Recorded
<1>3. \A k \in Hits : ledger'[k] = ledger[k] /\ modRow'[k].epoch = modRow[k].epoch
  BY DEF SameCounts
<1>4. Period' = Period  BY <1>1, <1>3, Finite DEF ModInv, Period
<1>5. InOrder'
  BY <1>1, <1>2, <1>3 DEF ModInv, InOrder, SameCounts, M!Live
<1>6. M!CountsAgree'  BY <1>4 DEF ModInv, M!CountsAgree, Period
<1>7. QED  BY <1>5, <1>6

\* The id of a new row is the largest.
LEMMA NewRow ==
  ASSUME M!ModerationAssumption, ModInv, NEW m \in Hits, ledger[m] = 0,
         ledger' = [ledger EXCEPT ![m] = M!NextId]
  PROVE  /\ ledger' \in [Hits -> 0..Cardinality(Hits)]
         /\ ledger'[m] = M!NextId /\ M!NextId \in Nat /\ M!NextId # 0
         /\ \A k \in Hits : k # m => ledger'[k] = ledger[k]
         /\ \A k \in Hits : ledger[k] < M!NextId
         /\ Cardinality(Recs') = M!NextId /\ Cardinality(Recs) < M!NextId
<1>1. ledger \in [Hits -> 0..Cardinality(Hits)]  BY Typing DEF ModInv
<1>2. /\ Cardinality(Recs) \in Nat /\ IsFiniteSet(Recs) /\ m \notin Recs
      /\ Recs \cup {m} \in SUBSET Hits
  BY Finite DEF ModInv, Recs, M!Recorded
<1>3. M!NextId = Cardinality(Recs) + 1 /\ M!NextId \in Nat /\ M!NextId # 0
  BY <1>2, CountsAlike DEF M!NextId, Recs
<1>4. ledger'[m] = M!NextId /\ \A k \in Hits : k # m => ledger'[k] = ledger[k]
  BY <1>1
<1>5. Recs' = Recs \cup {m}  BY <1>3, <1>4 DEF Recs, M!Recorded
<1>6. Cardinality(Recs \cup {m}) = M!NextId  BY <1>2, <1>3, FS_AddElement
<1>7. M!NextId <= Cardinality(Hits)  BY <1>2, <1>6, Finite DEF ModInv
<1>8. ledger' \in [Hits -> 0..Cardinality(Hits)]
  <2>1. M!NextId \in 0..Cardinality(Hits)  BY <1>3, <1>7, Finite DEF ModInv
  <2>2. QED  BY <1>1, <2>1
<1>9. \A k \in Hits : ledger[k] < M!NextId
  BY <1>2, <1>3, Numbers DEF ModInv, InOrder
<1>10. QED  BY <1>2, <1>3, <1>4, <1>5, <1>6, <1>8, <1>9

-----------------------------------------------------------------------------
(* Steps of enforcement *)

\* The type invariant after a step, in the same terms.
LEMMA TypingNext ==
  M!TypeOK' <=> /\ rulesVersion' \in 0..MaxRuleEdits /\ exempted' \in BOOLEAN
                /\ step' \in [M!Actors -> M!Steps] /\ verdict' \in [Hits -> VerdictForms]
                /\ modRow' \in [Hits -> RowForms] /\ ledger' \in [Hits -> 0..Cardinality(Hits)]
                /\ warning' \in WarnForms /\ snapshot' \in WarnForms
                /\ userLock' \in M!Enforcing \cup {Unlocked} /\ chatBan' \in BOOLEAN
                /\ modJournal' \in M!Actors \cup {NoJournal} /\ restoring' \in BOOLEAN
                /\ target' \in Hits \cup {Unlocked}
                /\ audits' \in [Hits -> Nat] /\ epoch' \in 0..MaxPresses /\ raced' \in BOOLEAN
                /\ presses' \in 0..MaxPresses /\ modFaults' \in 0..MaxModFaults
  BY CountsAlike DEF M!TypeOK, RowForms, WarnForms, VerdictForms, BaseForms, EnforcedForms,
     Epochs

\* Verdicts stay fit when none is new.
LEMMA JudgedKept ==
  ASSUME ModInv, verdict' = verdict, restoring => restoring', SameCounts,
         \A m \in Hits : step'[m] = "judged" => step[m] = "judged"
  PROVE  Judged'
  BY DEF ModInv, Judged, M!At, SameCounts

\* A step of whoever enforces a ban.  It leaves Telegram as it was or as the policy says,
\* and takes away its journal only when Telegram agrees with the policy.
LEMMA WorkKeeps ==
  ASSUME M!ModerationAssumption, ModInv, NEW a \in M!Enforcing, NEW s \in M!Steps,
         M!Goto(a, s), s # "judged", ~M!At(a, "done"), M!Keep, warning' = warning,
         modRow' \in [Hits -> RowForms], SameCounts,
         userLock' \in M!Enforcing \cup {Unlocked}, chatBan' \in BOOLEAN,
         modFaults' \in 0..MaxModFaults, modJournal' \in {modJournal, NoJournal},
         audits' \in [Hits -> Nat], M!AuditedOnce',
         chatBan' => chatBan \/ warning.banned,
         s = "placed" => warning.banned,
         modJournal' # modJournal => (chatBan' /\ ~raced => warning.banned)
  PROVE  ModInv'
<1>1. /\ step' \in [M!Actors -> M!Steps] /\ step'[a] = s
      /\ \A b \in M!Actors : b # a => step'[b] = step[b]
  BY Moves, Names DEF ModInv
<1>2. M!TypeOK'
  BY <1>1, Typing, TypingNext DEF ModInv, M!Keep
<1>3. Judged'
  BY <1>1, Names, JudgedKept DEF M!Keep
<1>4. InOrder' /\ M!CountsAgree'
  BY CountKept DEF M!Keep
<1>5. Pressing'
  BY <1>1, Names DEF ModInv, Pressing, M!Keep, M!At
<1>6. Placed'
  BY <1>1, Names DEF ModInv, Placed, M!Keep, M!At
<1>7. M!NobodyKeptBanned'
  BY <1>1 DEF ModInv, M!NobodyKeptBanned, M!Keep
<1>8. QED  BY <1>2, <1>3, <1>4, <1>5, <1>6, <1>7 DEF ModInv

\* Subjects, faults and locks.
LEMMA Working ==
  ASSUME M!ModerationAssumption, ModInv, NEW a \in M!Enforcing, ~M!At(a, "done")
  PROVE  /\ M!Subject(a) \in Hits /\ M!Finished(a) \in M!Steps /\ M!Finished(a) # "judged"
         /\ M!Finished(a) # "placed"
         /\ M!Freed(a) \in M!Enforcing \cup {Unlocked} /\ userLock \in M!Enforcing
             \cup {Unlocked}
         /\ chatBan \in BOOLEAN /\ warning.banned \in BOOLEAN
         /\ modFaults \in 0..MaxModFaults /\ (M!Fault => modFaults' \in 0..MaxModFaults)
         /\ modRow \in [Hits -> RowForms] /\ audits \in [Hits -> Nat]
         /\ a # NoJournal
<1>1. M!TypeOK /\ MaxModFaults \in Nat  BY DEF ModInv, M!ModerationAssumption
<1>2. /\ modFaults \in 0..MaxModFaults /\ modRow \in [Hits -> RowForms]
      /\ audits \in [Hits -> Nat] /\ chatBan \in BOOLEAN
      /\ userLock \in M!Enforcing \cup {Unlocked}
  BY <1>1, Typing
<1>3. warning.banned \in BOOLEAN  BY <1>1, Numbers
<1>4. M!Fault => modFaults' \in 0..MaxModFaults  BY <1>1, <1>2 DEF M!Fault
<1>5. M!Subject(a) \in Hits  BY Names DEF M!Subject, ModInv, Pressing
<1>6. M!Finished(a) \in M!Steps /\ M!Finished(a) # "judged" /\ M!Finished(a) # "placed"
  BY DEF M!Finished, M!Steps
<1>7. M!Freed(a) \in M!Enforcing \cup {Unlocked}  BY <1>2 DEF M!Freed
<1>8. QED  BY <1>2, <1>3, <1>4, <1>5, <1>6, <1>7, Names

\* Telegram made to match the policy.
LEMMA PlaceKeeps ==
  ASSUME M!ModerationAssumption, ModInv, NEW a \in M!Enforcing, M!Place(a)
  PROVE  ModInv'
<1>1. ~M!At(a, "done")  BY DEF M!Place, M!At
<1>2. PICK s \in M!Steps : M!Goto(a, s) /\ s # "judged" /\ (s = "placed" => warning.banned)
  BY <1>1, Working DEF M!Place, M!Steps
<1>3. /\ chatBan' = warning.banned /\ userLock' \in M!Enforcing \cup {Unlocked}
      /\ UNCHANGED <<modRow, warning, modJournal, audits, modFaults>> /\ M!Keep
  BY <1>1, Working DEF M!Place
<1>4. SameCounts /\ M!AuditedOnce'  BY <1>3 DEF SameCounts, M!AuditedOnce, ModInv
<1>5. QED  BY <1>1, <1>2, <1>3, <1>4, Working, WorkKeeps

\* The call fails.
LEMMA PlaceFailsKeeps ==
  ASSUME M!ModerationAssumption, ModInv, NEW a \in M!Enforcing, NEW after \in BOOLEAN,
         NEW retryable \in BOOLEAN, M!PlaceFails(a, after, retryable)
  PROVE  ModInv'
<1>1. ~M!At(a, "done")  BY DEF M!PlaceFails, M!At
<1> DEFINE m == M!Subject(a)
           e == IF modRow[m].enforced = "null" THEN "false" ELSE modRow[m].enforced
           r == [modRow[m] EXCEPT !.enforced = e]
<1>2. PICK s \in M!Steps : M!Goto(a, s) /\ s # "judged" /\ s # "placed"
  BY <1>1, Working DEF M!PlaceFails, M!Steps
<1>3. /\ chatBan' \in {chatBan, warning.banned} /\ userLock' \in M!Enforcing \cup {Unlocked}
      /\ modFaults' \in 0..MaxModFaults
      /\ UNCHANGED <<warning, modJournal, audits>> /\ M!Keep
  BY <1>1, Working DEF M!PlaceFails
<1>4. m \in Hits /\ modRow \in [Hits -> RowForms]  BY <1>1, Working
<1>5. modRow[m] \in RowForms /\ modRow[m].enforced \in EnforcedForms  BY <1>4, Marks
<1>6. e \in EnforcedForms  BY <1>5 DEF EnforcedForms
<1>7. modRow' = [modRow EXCEPT ![m] = r]  BY <1>4, <1>5 DEF M!PlaceFails
<1>8. /\ r \in RowForms /\ r.base = modRow[m].base /\ r.reverted = modRow[m].reverted
      /\ r.epoch = modRow[m].epoch /\ r.enforced = e
  BY <1>5, <1>6, Results
<1> HIDE DEF m, r
<1>9. /\ modRow' \in [Hits -> RowForms] /\ modRow'[m] = r
      /\ \A k \in Hits : k # m => modRow'[k] = modRow[k]
  BY <1>4, <1>7, <1>8, Writes DEF ModInv
<1>10. SameCounts  BY <1>8, <1>9 DEF SameCounts
<1>11. M!AuditedOnce'  BY <1>3, <1>8, <1>9 DEF M!AuditedOnce, ModInv
<1>12. QED  BY <1>1, <1>2, <1>3, <1>9, <1>10, <1>11, Working, WorkKeeps

\* A journal that is somebody else's by now.
LEMMA LostKeeps ==
  ASSUME M!ModerationAssumption, ModInv, NEW a \in M!Enforcing, M!Lost(a)
  PROVE  ModInv'
<1>1. ~M!At(a, "done")  BY DEF M!Lost, M!At
<1>2. M!Goto(a, "again") /\ "again" \in M!Steps  BY DEF M!Lost, M!Steps
<1>3. UNCHANGED <<modRow, warning, userLock, chatBan, modJournal, audits, modFaults>> /\ M!Keep
  BY DEF M!Lost
<1>4. SameCounts /\ M!AuditedOnce'  BY <1>3 DEF SameCounts, M!AuditedOnce, ModInv
<1>5. QED  BY <1>1, <1>2, <1>3, <1>4, Working, WorkKeeps

\* The result is recorded.
LEMMA PersistKeeps ==
  ASSUME M!ModerationAssumption, ModInv, NEW a \in M!Enforcing, M!Persist(a)
  PROVE  ModInv'
<1>1. ~M!At(a, "done")  BY DEF M!Persist, M!At
<1> DEFINE m == M!Subject(a)
           r == [modRow[m] EXCEPT !.enforced = "true"]
<1>2. M!Goto(a, M!Finished(a)) /\ M!Finished(a) \in M!Steps  BY <1>1, Working DEF M!Persist
<1>3. /\ userLock' \in M!Enforcing \cup {Unlocked} /\ modJournal' \in {modJournal, NoJournal}
      /\ UNCHANGED <<warning, chatBan, modFaults>> /\ M!Keep
  BY <1>1, Working DEF M!Persist
<1>4. m \in Hits /\ modRow \in [Hits -> RowForms] /\ audits \in [Hits -> Nat]
  BY <1>1, Working
<1>5. modRow[m] \in RowForms /\ "true" \in EnforcedForms  BY <1>4 DEF EnforcedForms
<1>6. modRow' = [modRow EXCEPT ![m] = r]  BY <1>4, <1>5 DEF M!Persist
<1>7. /\ r \in RowForms /\ r.base = modRow[m].base /\ r.reverted = modRow[m].reverted
      /\ r.epoch = modRow[m].epoch /\ r.enforced = "true"
  BY <1>5, Results
<1>8. /\ audits' \in [Hits -> Nat] /\ \A k \in Hits : k # m => audits'[k] = audits[k]
      /\ audits'[m] = IF modRow[m].enforced = "true" THEN audits[m] ELSE audits[m] + 1
  BY <1>4 DEF M!Persist
<1> HIDE DEF m, r
<1>9. /\ modRow' \in [Hits -> RowForms] /\ modRow'[m] = r
      /\ \A k \in Hits : k # m => modRow'[k] = modRow[k]
  BY <1>4, <1>6, <1>7, Writes DEF ModInv
<1>10. SameCounts  BY <1>7, <1>9 DEF SameCounts
<1>11. M!AuditedOnce'  BY <1>4, <1>7, <1>8, <1>9 DEF M!AuditedOnce, ModInv
<1>12. modJournal' # modJournal => (chatBan' /\ ~raced => warning.banned)
  <2>1. modJournal' # modJournal => M!At(a, "placed") /\ modJournal = a
    BY DEF M!Persist, M!At
  <2>2. Placed  BY DEF ModInv
  <2>3. QED  BY <1>3, <2>1, <2>2 DEF Placed
<1>13. QED  BY <1>1, <1>2, <1>3, <1>8, <1>9, <1>10, <1>11, <1>12, Working, WorkKeeps

\* The result is not recorded.
LEMMA PersistFailsKeeps ==
  ASSUME M!ModerationAssumption, ModInv, NEW a \in M!Enforcing, M!PersistFails(a)
  PROVE  ModInv'
<1>1. ~M!At(a, "done")  BY DEF M!PersistFails, M!At
<1>2. M!Goto(a, "retry") /\ "retry" \in M!Steps  BY DEF M!PersistFails, M!Steps
<1>3. /\ userLock' \in M!Enforcing \cup {Unlocked} /\ modFaults' \in 0..MaxModFaults
      /\ UNCHANGED <<modRow, warning, chatBan, modJournal, audits>> /\ M!Keep
  BY <1>1, Working DEF M!PersistFails
<1>4. SameCounts /\ M!AuditedOnce'  BY <1>3 DEF SameCounts, M!AuditedOnce, ModInv
<1>5. QED  BY <1>1, <1>2, <1>3, <1>4, Working, WorkKeeps

\* The notice is sent.
LEMMA NoticeKeeps ==
  ASSUME M!ModerationAssumption, ModInv, NEW m \in Hits, M!Notice(m)
  PROVE  ModInv'
<1>1. ~M!At(m, "done") /\ m \in M!Enforcing  BY Names DEF M!Notice, M!At
<1> DEFINE r == [modRow[m] EXCEPT !.notice = TRUE]
<1>2. PICK s \in M!Steps : M!Goto(m, s) /\ s # "judged" /\ s # "placed"
  BY DEF M!Notice, M!Steps
<1>3. /\ userLock' \in M!Enforcing \cup {Unlocked}
      /\ UNCHANGED <<warning, chatBan, modJournal, audits, modFaults>> /\ M!Keep
  BY <1>1, Working DEF M!Notice
<1>4. modRow \in [Hits -> RowForms]  BY <1>1, Working
<1>5. modRow[m] \in RowForms  BY <1>4
<1>6. modRow' = [modRow EXCEPT ![m] = r]  BY <1>4, <1>5 DEF M!Notice
<1>7. /\ r \in RowForms /\ r.base = modRow[m].base /\ r.reverted = modRow[m].reverted
      /\ r.epoch = modRow[m].epoch /\ r.enforced = modRow[m].enforced
  BY <1>5, Marks
<1> HIDE DEF r
<1>8. /\ modRow' \in [Hits -> RowForms] /\ modRow'[m] = r
      /\ \A k \in Hits : k # m => modRow'[k] = modRow[k]
  BY <1>6, <1>7, Writes DEF ModInv
<1>9. SameCounts  BY <1>7, <1>8 DEF SameCounts
<1>10. M!AuditedOnce'  BY <1>3, <1>7, <1>8 DEF M!AuditedOnce, ModInv
<1>11. QED  BY <1>1, <1>2, <1>3, <1>8, <1>9, <1>10, Working, WorkKeeps

-----------------------------------------------------------------------------
(* Messages *)

\* A verdict is made.
LEMMA JudgeKeeps ==
  ASSUME M!ModerationAssumption, ModInv, NEW m \in Hits, NEW hit \in {"clean", "warn", "ban"},
         M!Judge(m, hit)
  PROVE  ModInv'
<1>1. PICK s \in M!Steps : M!Goto(m, s) /\ s # "placed"
  BY DEF M!Judge, M!Steps
<1>2. /\ step' \in [M!Actors -> M!Steps] /\ step'[m] = s
      /\ \A b \in M!Actors : b # m => step'[b] = step[b]
  BY <1>1, Moves, Names DEF ModInv
<1>3. UNCHANGED <<rulesVersion, exempted, modRow, ledger, warning, userLock, chatBan,
                  modJournal, restoring, target, snapshot, audits, epoch, raced, presses,
                  modFaults>>
  BY DEF M!Judge
<1>4. /\ verdict' \in [Hits -> VerdictForms]
      /\ \A k \in Hits : k # m => verdict'[k] = verdict[k]
      /\ s = "judged" =>
           /\ verdict'[m].hit \in {"warn", "ban"} /\ ~verdict'[m].stale
           /\ verdict'[m].hit = "ban" => modRow[m].base # "warn"
  <2>1. verdict \in [Hits -> VerdictForms] /\ rulesVersion \in 0..MaxRuleEdits
    BY Typing DEF ModInv
  <2>2. CASE exempted \/ hit = "clean"
    <3>1. verdict' = verdict /\ M!Goto(m, "done")  BY <2>2 DEF M!Judge
    <3>2. s = "done"  BY <1>1, <1>2, <3>1, Moves, Names DEF ModInv, M!Steps
    <3>3. QED  BY <2>1, <3>1, <3>2
  <2>3. CASE ~(exempted \/ hit = "clean")
    <3>1. verdict' = [verdict EXCEPT ![m] = M!Stamped(hit)] /\ hit \in {"warn", "ban"}
          /\ (hit = "ban" => modRow[m].base # "warn")
      BY <2>3 DEF M!Judge
    <3>2. /\ M!Stamped(hit) \in VerdictForms /\ M!Stamped(hit).hit = hit
          /\ M!Stamped(hit).stale = FALSE
      BY <2>1, <3>1 DEF M!Stamped, VerdictForms
    <3>3. QED  BY <2>1, <3>1, <3>2
  <2>4. QED  BY <2>2, <2>3
<1>5. M!TypeOK'  BY <1>2, <1>3, <1>4, Typing, TypingNext DEF ModInv
<1>6. SameCounts  BY <1>3 DEF SameCounts
<1>7. Judged'  BY <1>2, <1>3, <1>4, Names DEF ModInv, Judged, M!At
<1>8. InOrder' /\ M!CountsAgree'  BY <1>3, <1>6, CountKept
<1>9. Pressing'  BY <1>2, <1>3, Names DEF ModInv, Pressing, M!At
<1>10. Placed'  BY <1>1, <1>2, <1>3, Names DEF ModInv, Placed, M!At
<1>11. M!NobodyKeptBanned' /\ M!AuditedOnce'
  BY <1>3 DEF ModInv, M!NobodyKeptBanned, M!AuditedOnce
<1>12. QED  BY <1>5, <1>7, <1>8, <1>9, <1>10, <1>11 DEF ModInv

\* What a claim does beside the rows and the counter.
ClaimBeside(m) ==
  /\ step' \in [M!Actors -> M!Steps] /\ step'[m] \notin {"judged", "placed"}
  /\ \A b \in M!Actors : b # m => step'[b] = step[b]
  /\ verdict' \in [Hits -> VerdictForms]
  /\ \A k \in Hits : k # m => verdict'[k] = verdict[k]
  /\ userLock' \in M!Enforcing \cup {Unlocked}
  /\ modJournal' \in {modJournal, m}
  /\ UNCHANGED <<rulesVersion, exempted, chatBan, restoring, target, snapshot, audits, epoch,
                 raced, presses, modFaults>>

LEMMA ClaimDoes ==
  ASSUME M!ModerationAssumption, ModInv, NEW m \in Hits, M!Claim(m)
  PROVE  ClaimBeside(m)
<1>1. PICK s \in M!Steps : M!Goto(m, s) /\ s \notin {"judged", "placed"}
  BY DEF M!Claim, M!Steps
<1>2. /\ step' \in [M!Actors -> M!Steps] /\ step'[m] = s
      /\ \A b \in M!Actors : b # m => step'[b] = step[b]
  BY <1>1, Moves, Names DEF ModInv
<1>3. verdict \in [Hits -> VerdictForms] /\ userLock \in M!Enforcing \cup {Unlocked}
      /\ MaxRuleEdits \in Nat
  BY Typing DEF ModInv, M!ModerationAssumption
<1>4. verdict' = [verdict EXCEPT ![m] = M!NoVerdict] /\ M!NoVerdict \in VerdictForms
  BY <1>3 DEF M!Claim, M!NoVerdict, VerdictForms
<1>5. userLock' \in M!Enforcing \cup {Unlocked} /\ modJournal' \in {modJournal, m}
  BY <1>3, Names DEF M!Claim
<1>6. UNCHANGED <<rulesVersion, exempted, chatBan, restoring, target, snapshot, audits, epoch,
                  raced, presses, modFaults>>
  BY DEF M!Claim
<1>7. QED  BY <1>1, <1>2, <1>3, <1>4, <1>5, <1>6 DEF ClaimBeside

\* What it leaves in force, provided the rows, their order and the counter are right.
LEMMA ClaimRest ==
  ASSUME M!ModerationAssumption, ModInv, NEW m \in Hits, ClaimBeside(m),
         modRow' \in [Hits -> RowForms], ledger' \in [Hits -> 0..Cardinality(Hits)],
         warning' \in WarnForms, warning.banned => warning'.banned,
         \A k \in Hits : k # m => modRow'[k] = modRow[k],
         modRow'[m].enforced = modRow[m].enforced,
         InOrder', M!CountsAgree'
  PROVE  ModInv'
<1>1. modJournal' \in M!Actors \cup {NoJournal} /\ (modJournal # NoJournal
          => modJournal' # NoJournal)
  BY Typing, Names DEF ModInv, ClaimBeside
<1>2. M!TypeOK'  BY <1>1, Typing, TypingNext DEF ModInv, ClaimBeside
<1>3. Judged'
  <2>1. \A k \in Hits : step'[k] = "judged" =>
          k # m /\ step[k] = "judged" /\ verdict'[k] = verdict[k] /\ modRow'[k] = modRow[k]
    BY Names DEF ClaimBeside
  <2>2. restoring' = restoring  BY DEF ClaimBeside
  <2>3. QED  BY <2>1, <2>2 DEF ModInv, Judged, M!At
<1>4. Pressing'  BY Names DEF ModInv, Pressing, M!At, ClaimBeside
<1>5. Placed'  BY Names DEF ModInv, Placed, M!At, ClaimBeside
<1>6. M!NobodyKeptBanned'  BY <1>1 DEF ModInv, M!NobodyKeptBanned, ClaimBeside
<1>7. M!AuditedOnce'  BY DEF ModInv, M!AuditedOnce, ClaimBeside
<1>8. QED  BY <1>2, <1>3, <1>4, <1>5, <1>6, <1>7 DEF ModInv

\* A verdict that is not current any more.
LEMMA ClaimNothing ==
  ASSUME M!ModerationAssumption, ModInv, NEW m \in Hits, M!Claim(m), ~M!Current(m)
  PROVE  ModInv'
<1>1. ClaimBeside(m)  BY ClaimDoes
<1>2. modRow' = modRow /\ ledger' = ledger /\ warning' = warning /\ epoch' = epoch
  BY <1>1 DEF M!Claim, ClaimBeside
<1>3. SameCounts  BY <1>2 DEF SameCounts
<1>4. InOrder' /\ M!CountsAgree'  BY <1>2, <1>3, CountKept
<1>5. QED  BY <1>1, <1>2, <1>4, ClaimRest, Typing DEF ModInv

\* The row of a message that has none yet: a warning without count.
LEMMA ClaimWarns ==
  ASSUME M!ModerationAssumption, ModInv, NEW m \in Hits, M!Claim(m), M!Current(m),
         verdict[m].hit = "warn"
  PROVE  ModInv'
<1> DEFINE b == IF M!Recorded(m) THEN modRow[m].base ELSE "warn"
           r == [modRow[m] EXCEPT !.base = b]
<1>1. ClaimBeside(m) /\ epoch' = epoch  BY ClaimDoes DEF ClaimBeside
<1>2. modRow \in [Hits -> RowForms] /\ modRow[m] \in RowForms /\ modRow[m].base \in BaseForms
  BY Typing, Numbers DEF ModInv
<1>3. b \in BaseForms  BY <1>2 DEF BaseForms
<1>4. /\ modRow' = [modRow EXCEPT ![m] = r] /\ warning' = warning
      /\ ledger' = IF M!Recorded(m) THEN ledger ELSE [ledger EXCEPT ![m] = M!NextId]
  BY <1>2 DEF M!Claim
<1>6. /\ r \in RowForms /\ r.base = b /\ r.reverted = modRow[m].reverted
      /\ r.epoch = modRow[m].epoch /\ r.enforced = modRow[m].enforced
  BY <1>2, <1>3, Bases
<1> HIDE DEF r
<1>7. /\ modRow' \in [Hits -> RowForms] /\ modRow'[m] = r
      /\ \A k \in Hits : k # m => modRow'[k] = modRow[k]
  BY <1>4, <1>6, Writes DEF ModInv
<1>8. CASE M!Recorded(m)
  <2>1. SameCounts /\ ledger' = ledger  BY <1>4, <1>6, <1>7, <1>8 DEF SameCounts
  <2>2. InOrder' /\ M!CountsAgree'  BY <1>1, <1>4, <2>1, CountKept
  <2>3. QED  BY <1>1, <1>4, <1>6, <1>7, <2>1, <2>2, ClaimRest, Typing DEF ModInv
<1>9. CASE ~M!Recorded(m)
  <2>1. ledger[m] = 0 /\ modRow[m].base = "none" /\ ledger' = [ledger EXCEPT ![m] = M!NextId]
    BY <1>4, <1>9 DEF M!Recorded, ModInv, InOrder
  <2>2. /\ ledger' \in [Hits -> 0..Cardinality(Hits)]
        /\ ledger'[m] = M!NextId /\ M!NextId \in Nat /\ M!NextId # 0
        /\ \A k \in Hits : k # m => ledger'[k] = ledger[k]
        /\ \A k \in Hits : ledger[k] < M!NextId
        /\ Cardinality(Recs') = M!NextId /\ Cardinality(Recs) < M!NextId
    BY <2>1, NewRow
  <2>3. modRow'[m].base = "warn"  BY <1>6, <1>7, <1>9
  <2>4. m \notin M!Live /\ m \notin M!Live'  BY <2>1, <2>3 DEF M!Live, M!Counted
  <2>5. M!Live' = M!Live  BY <1>7, <2>4 DEF M!Live
  <2>6. InOrder'
    <3>1. \A k \in Hits : /\ ledger'[k] # 0 <=> modRow'[k].base # "none"
                          /\ ledger'[k] <= Cardinality(Recs') /\ modRow'[k].epoch <= epoch'
      <4>1. \A k \in Hits : ledger[k] # 0 <=> modRow[k].base # "none"  BY DEF ModInv, InOrder
      <4>2. \A k \in Hits : modRow[k].epoch <= epoch  BY DEF ModInv, InOrder
      <4>3. \A k \in Hits : ledger[k] \in Nat  BY Numbers DEF ModInv
      <4>4. \A k \in Hits : ledger'[k] <= M!NextId  BY <2>2, <4>3
      <4>5. QED  BY <1>1, <1>6, <1>7, <2>2, <2>3, <4>1, <4>2, <4>4
    <3>2. \A k, n \in Hits : ledger'[k] = ledger'[n] /\ ledger'[k] # 0 => k = n
      <4>1. \A k, n \in Hits : ledger[k] = ledger[n] /\ ledger[k] # 0 => k = n
        BY DEF ModInv, InOrder
      <4>2. \A k \in Hits : ledger[k] # M!NextId  BY <2>2, Numbers DEF ModInv
      <4>3. QED  BY <2>2, <4>1, <4>2
    <3>3. \A k, n \in M!Live' : ledger'[k] < ledger'[n] => modRow'[k].epoch <= modRow'[n].epoch
      <4>1. \A k \in M!Live : k \in Hits /\ k # m  BY <2>4 DEF M!Live
      <4>2. QED  BY <1>7, <2>2, <2>5, <4>1 DEF ModInv, InOrder
    <3>4. QED  BY <3>1, <3>2, <3>3 DEF InOrder
  <2>7. Period' = Period
    <3>1. \A k \in M!Live : modRow'[k] = modRow[k]  BY <1>7, <2>4 DEF M!Live
    <3>2. QED  BY <1>1, <2>5, <3>1 DEF Period
  <2>8. M!CountsAgree'  BY <1>4, <2>7 DEF ModInv, M!CountsAgree, Period
  <2>9. QED  BY <1>1, <1>4, <1>6, <1>7, <2>2, <2>6, <2>8, ClaimRest, Typing DEF ModInv
<1>10. QED  BY <1>8, <1>9

\* A message that comes back for its ban.
LEMMA ClaimAgain ==
  ASSUME M!ModerationAssumption, ModInv, NEW m \in Hits, M!Claim(m), M!Current(m),
         verdict[m].hit = "ban", ~M!Counts(m)
  PROVE  ModInv'
<1> DEFINE b == IF modRow[m].base = "ban_applied" THEN "ban_applied" ELSE "ban_warning"
           r == [modRow[m] EXCEPT !.base = b]
<1>1. ClaimBeside(m) /\ epoch' = epoch  BY ClaimDoes DEF ClaimBeside
<1>2. modRow \in [Hits -> RowForms] /\ modRow[m] \in RowForms /\ modRow[m].base \in M!Counted
  BY Typing, Numbers DEF ModInv, M!Counts
<1>3. b \in BaseForms /\ b = modRow[m].base  BY <1>2 DEF BaseForms, M!Counted
<1>4. /\ modRow' = [modRow EXCEPT ![m] = r] /\ warning' = warning
  BY <1>2 DEF M!Claim
<1>5. ledger' = ledger
  <2>1. M!Recorded(m)  BY <1>2 DEF M!Recorded, ModInv, InOrder, M!Counted
  <2>2. QED  BY <2>1 DEF M!Claim
<1>7. /\ r \in RowForms /\ r.base = b /\ r.reverted = modRow[m].reverted
      /\ r.epoch = modRow[m].epoch /\ r.enforced = modRow[m].enforced
  BY <1>2, <1>3, Bases
<1> HIDE DEF r, b
<1>8. /\ modRow' \in [Hits -> RowForms] /\ modRow'[m] = r
      /\ \A k \in Hits : k # m => modRow'[k] = modRow[k]
  BY <1>4, <1>7, Writes DEF ModInv
<1>9. SameCounts  BY <1>3, <1>7, <1>8 DEF SameCounts
<1>10. InOrder' /\ M!CountsAgree'  BY <1>1, <1>4, <1>5, <1>9, CountKept
<1>11. QED  BY <1>1, <1>4, <1>5, <1>7, <1>8, <1>10, ClaimRest, Typing DEF ModInv

\* A message is counted: its row is the newest and of the present period.
LEMMA ClaimCounts ==
  ASSUME M!ModerationAssumption, ModInv, NEW m \in Hits, M!Claim(m), M!Current(m),
         verdict[m].hit = "ban", M!Counts(m)
  PROVE  ModInv'
<1> DEFINE count == warning.count + 1
           bans  == count >= WarnThreshold \/ warning.banned
           b     == IF bans THEN "ban_applied" ELSE "ban_warning"
           r     == [modRow[m] EXCEPT !.base = b, !.epoch = epoch, !.direct = FALSE,
                                   !.reverted = FALSE]
<1>1. ClaimBeside(m) /\ epoch' = epoch  BY ClaimDoes DEF ClaimBeside
<1>2. modRow \in [Hits -> RowForms] /\ modRow[m] \in RowForms /\ modRow[m].base \in BaseForms
      /\ epoch \in Epochs /\ b \in BaseForms /\ b \in M!Counted
  BY Typing, Numbers DEF ModInv, BaseForms, M!Counted, Epochs
<1>3. M!At(m, "judged")  BY DEF M!Claim
<1>4. modRow[m].base = "none"
  BY <1>2, <1>3 DEF ModInv, Judged, M!Counts, BaseForms, M!Counted
<1>5. ledger[m] = 0  BY <1>4 DEF ModInv, InOrder
<1>6. /\ modRow' = [modRow EXCEPT ![m] = r] /\ warning' = [count |-> count, banned |-> bans]
      /\ ledger' = [ledger EXCEPT ![m] = M!NextId]
  <2>1. ~M!Recorded(m) /\ verdict[m].hit # "warn"  BY <1>5 DEF M!Recorded
  <2>2. modRow' = [modRow EXCEPT ![m] = [@ EXCEPT !.base = b, !.epoch = epoch,
                                            !.direct = FALSE, !.reverted = FALSE]]
    BY <2>1 DEF M!Claim
  <2>3. warning' = [count |-> count, banned |-> bans]  BY <2>1 DEF M!Claim
  <2>4. ledger' = [ledger EXCEPT ![m] = M!NextId]  BY <2>1 DEF M!Claim
  <2>5. QED  BY <1>2, <2>2, <2>3, <2>4
<1>7. /\ r \in RowForms /\ r.base = b /\ r.reverted = FALSE /\ r.epoch = epoch
      /\ r.enforced = modRow[m].enforced
  <2> HIDE DEF b
  <2>1. QED  BY <1>2 DEF RowForms
<1>8. warning.count \in Nat /\ warning.banned \in BOOLEAN  BY Numbers DEF ModInv
<1>9. /\ warning'.count = warning.count + 1
      /\ (warning.banned => warning'.banned)
      /\ warning'.banned \in BOOLEAN
  BY <1>6, <1>8
<1>10. warning' = [count |-> warning'.count, banned |-> warning'.banned]
  BY <1>6
<1> HIDE DEF r, b, bans, count
<1>11. /\ modRow' \in [Hits -> RowForms] /\ modRow'[m] = r
       /\ \A k \in Hits : k # m => modRow'[k] = modRow[k]
  BY <1>6, <1>7, Writes DEF ModInv
<1>12. /\ ledger' \in [Hits -> 0..Cardinality(Hits)]
       /\ ledger'[m] = M!NextId /\ M!NextId \in Nat /\ M!NextId # 0
       /\ \A k \in Hits : k # m => ledger'[k] = ledger[k]
       /\ \A k \in Hits : ledger[k] < M!NextId
       /\ Cardinality(Recs') = M!NextId /\ Cardinality(Recs) < M!NextId
  BY <1>5, <1>6, NewRow
<1>13. m \notin M!Live /\ M!Live' = M!Live \cup {m}
  <2>1. m \notin M!Live  BY <1>4 DEF M!Live, M!Counted
  <2>2. m \in M!Live'  BY <1>2, <1>7, <1>11 DEF M!Live
  <2>3. \A k \in Hits : k # m => (k \in M!Live' <=> k \in M!Live)  BY <1>11 DEF M!Live
  <2>4. M!Live \subseteq Hits /\ M!Live' \subseteq Hits  BY DEF M!Live
  <2>5. QED  BY <2>1, <2>2, <2>3, <2>4
<1>14. m \notin Period /\ Period' = Period \cup {m}
  <2>1. \A k \in M!Live : modRow'[k].epoch = modRow[k].epoch  BY <1>11, <1>13 DEF M!Live
  <2>2. modRow'[m].epoch = epoch'  BY <1>1, <1>7, <1>11
  <2>3. Period' = {k \in M!Live \cup {m} : modRow'[k].epoch = epoch}  BY <1>1, <1>13 DEF Period
  <2>4. QED  BY <1>1, <1>13, <2>1, <2>2, <2>3 DEF Period
<1>15. /\ warning'.count = Cardinality(Period')
       /\ warning'.count \in 0..Cardinality(Hits)
  <2>1. /\ IsFiniteSet(Period) /\ Period \cup {m} \in SUBSET Hits
        /\ warning.count = Cardinality(Period)
    BY Finite, CountsAlike DEF ModInv, M!CountsAgree, Period
  <2>2. Cardinality(Period \cup {m}) = Cardinality(Period) + 1
    BY <1>14, <2>1, FS_AddElement
  <2>3. Cardinality(Period \cup {m}) <= Cardinality(Hits) /\ Cardinality(Hits) \in Nat
    BY <2>1, Finite DEF ModInv
  <2>4. QED  BY <1>8, <1>9, <1>14, <2>1, <2>2, <2>3
<1>16. warning' \in WarnForms  BY <1>9, <1>10, <1>15 DEF WarnForms
<1>17. M!CountsAgree'  BY <1>15, CountsAlike DEF M!CountsAgree, Period
<1>18. InOrder'
  <2>1. \A k \in Hits : /\ ledger'[k] # 0 <=> modRow'[k].base # "none"
                        /\ ledger'[k] <= Cardinality(Recs') /\ modRow'[k].epoch <= epoch'
    <3>1. \A k \in Hits : ledger[k] # 0 <=> modRow[k].base # "none"  BY DEF ModInv, InOrder
    <3>2. \A k \in Hits : modRow[k].epoch <= epoch  BY DEF ModInv, InOrder
    <3>3. \A k \in Hits : ledger[k] \in Nat  BY Numbers DEF ModInv
    <3>4. \A k \in Hits : ledger'[k] <= M!NextId  BY <1>12, <3>3
    <3>5. modRow'[m].base # "none" /\ epoch \in Nat
      BY <1>2, <1>7, <1>11, Numbers DEF M!Counted, ModInv
    <3>6. \A k \in Hits : ledger'[k] # 0 <=> modRow'[k].base # "none"
      BY <1>11, <1>12, <3>1, <3>5
    <3>7. \A k \in Hits : modRow'[k].epoch <= epoch'
      BY <1>1, <1>7, <1>11, <3>2, <3>5
    <3>8. QED  BY <1>12, <3>4, <3>6, <3>7
  <2>2. \A k, n \in Hits : ledger'[k] = ledger'[n] /\ ledger'[k] # 0 => k = n
    <3>1. \A k, n \in Hits : ledger[k] = ledger[n] /\ ledger[k] # 0 => k = n
      BY DEF ModInv, InOrder
    <3>2. \A k \in Hits : ledger[k] # M!NextId  BY <1>12, Numbers DEF ModInv
    <3>3. QED  BY <1>12, <3>1, <3>2
  <2>3. ASSUME NEW k \in M!Live', NEW n \in M!Live', ledger'[k] < ledger'[n]
        PROVE  modRow'[k].epoch <= modRow'[n].epoch
    <3>1. k \in Hits /\ n \in Hits  BY DEF M!Live
    <3>2. CASE n = m
      BY <1>1, <1>7, <1>11, <2>1, <3>1, <3>2
    <3>3. CASE n # m
      <4>1. k # m  BY <1>12, <2>3, <3>1, <3>3, Numbers DEF ModInv
      <4>2. k \in M!Live /\ n \in M!Live /\ ledger[k] < ledger[n]
        BY <1>12, <1>13, <2>3, <3>1, <3>3, <4>1
      <4>3. modRow[k].epoch <= modRow[n].epoch  BY <4>2 DEF ModInv, InOrder
      <4>4. QED  BY <1>11, <3>1, <3>3, <4>1, <4>3
    <3>4. QED  BY <3>2, <3>3
  <2>4. QED  BY <2>1, <2>2, <2>3 DEF InOrder
<1>19. QED  BY <1>1, <1>7, <1>9, <1>11, <1>12, <1>16, <1>17, <1>18, ClaimRest

\* The claim of a verdict.
LEMMA ClaimKeeps ==
  ASSUME M!ModerationAssumption, ModInv, NEW m \in Hits, M!Claim(m)
  PROVE  ModInv'
<1>1. verdict[m].hit \in {"warn", "ban"}  BY DEF M!Claim, ModInv, Judged
<1>2. CASE ~M!Current(m)  BY <1>2, ClaimNothing
<1>3. CASE M!Current(m) /\ verdict[m].hit = "warn"  BY <1>3, ClaimWarns
<1>4. CASE M!Current(m) /\ verdict[m].hit = "ban" /\ M!Counts(m)  BY <1>4, ClaimCounts
<1>5. CASE M!Current(m) /\ verdict[m].hit = "ban" /\ ~M!Counts(m)  BY <1>5, ClaimAgain
<1>6. QED  BY <1>1, <1>2, <1>3, <1>4, <1>5

-----------------------------------------------------------------------------
(* The button *)

\* A press that is new or repeats itself, and what no button changes.
LEMMA Presses ==
  ASSUME M!ModerationAssumption, ModInv, NEW m \in Hits, M!Pressed(m), M!KeepPress,
         NEW s \in M!Steps, M!Goto(Button, s), s # "judged", s # "placed",
         target' = m
  PROVE  /\ step' \in [M!Actors -> M!Steps] /\ step'[Button] = s
         /\ \A b \in M!Actors : b # Button => step'[b] = step[b]
         /\ presses' \in 0..MaxPresses /\ Pressing'
         /\ step[Button] \in {"done", "retry"}
<1>1. /\ step' \in [M!Actors -> M!Steps] /\ step'[Button] = s
      /\ \A b \in M!Actors : b # Button => step'[b] = step[b]
  BY Moves, Names DEF ModInv
<1>2. presses \in 0..MaxPresses /\ MaxPresses \in Nat /\ epoch \in Nat
  BY Typing, Numbers DEF ModInv, M!ModerationAssumption
<1>3. presses' \in 0..MaxPresses /\ presses <= presses' /\ presses' \in Nat
  BY <1>2 DEF M!Pressed
<1>4. epoch' = epoch /\ Command # Button /\ Command \in M!Actors
  BY Names DEF M!KeepPress
<1>5. Pressing'
  BY <1>1, <1>2, <1>3, <1>4 DEF ModInv, Pressing, M!At
<1>6. step[Button] \in {"done", "retry"}  BY DEF M!Pressed, M!At
<1>7. QED  BY <1>1, <1>3, <1>5, <1>6

\* The rest of the invariant after a press.
LEMMA PressKeeps ==
  ASSUME M!ModerationAssumption, ModInv, NEW m \in Hits, M!Pressed(m), M!KeepPress,
         NEW s \in M!Steps, M!Goto(Button, s), s # "judged", s # "placed",
         target' = m, chatBan' = chatBan, exempted' \in BOOLEAN,
         userLock' \in M!Enforcing \cup {Unlocked},
         warning' \in WarnForms, modRow' \in [Hits -> RowForms],
         \A k \in Hits : modRow'[k].base = modRow[k].base
             /\ modRow'[k].enforced = modRow[k].enforced,
         restoring' \in BOOLEAN, restoring => restoring',
         modJournal' \in {modJournal, Button},
         warning.banned /\ ~warning'.banned => modJournal' = Button,
         InOrder', M!CountsAgree'
  PROVE  ModInv'
<1>1. /\ step' \in [M!Actors -> M!Steps] /\ step'[Button] = s
      /\ \A b \in M!Actors : b # Button => step'[b] = step[b]
      /\ presses' \in 0..MaxPresses /\ Pressing'
  BY Presses
<1>2. Button # NoJournal /\ Button \in M!Actors /\ Button \notin Hits  BY Names
<1>3. modJournal' \in M!Actors \cup {NoJournal}  BY <1>2, Typing DEF ModInv
<1>4. M!TypeOK'
  BY <1>1, <1>3, Typing, TypingNext DEF ModInv, M!KeepPress
<1>5. Judged'
  BY <1>1, <1>2, Names DEF ModInv, Judged, M!At, M!KeepPress
<1>6. warning.banned \in BOOLEAN /\ warning'.banned \in BOOLEAN
  BY Numbers DEF ModInv, WarnForms
<1>7. Placed'
  BY <1>1, <1>2, <1>6, Names DEF ModInv, Placed, M!At, M!KeepPress
<1>8. M!NobodyKeptBanned'
  BY <1>2, <1>6 DEF ModInv, M!NobodyKeptBanned, M!KeepPress
<1>9. M!AuditedOnce'  BY DEF ModInv, M!AuditedOnce, M!KeepPress
<1>10. QED  BY <1>1, <1>4, <1>5, <1>7, <1>8, <1>9 DEF ModInv

\* A direct ban.
LEMMA DirectKeeps ==
  ASSUME M!ModerationAssumption, ModInv, NEW m \in Hits, M!Direct(m)
  PROVE  ModInv'
<1> DEFINE r == [modRow[m] EXCEPT !.direct = TRUE]
<1>1. M!Pressed(m) /\ M!KeepPress /\ M!Goto(Button, "enforce") /\ "enforce" \in M!Steps
      /\ target' = m /\ modJournal' = Button /\ userLock' = Button
      /\ UNCHANGED <<exempted, chatBan, restoring>>
  BY DEF M!Direct, M!Steps
<1>2. /\ modRow \in [Hits -> RowForms] /\ modRow[m] \in RowForms /\ warning \in WarnForms
      /\ exempted \in BOOLEAN /\ restoring \in BOOLEAN
  BY Typing DEF ModInv
<1>3. modRow' = [modRow EXCEPT ![m] = r]  BY <1>2 DEF M!Direct
<1>4. /\ r \in RowForms /\ r.base = modRow[m].base /\ r.reverted = modRow[m].reverted
      /\ r.epoch = modRow[m].epoch /\ r.enforced = modRow[m].enforced
  BY <1>2, Marks
<1>5. /\ warning' \in WarnForms /\ warning'.count = warning.count
      /\ (warning.banned => warning'.banned)
  <2>1. warning' \in {warning, [warning EXCEPT !.banned = TRUE]}  BY DEF M!Direct
  <2>2. QED  BY <1>2, <2>1 DEF WarnForms
<1> HIDE DEF r
<1>6. /\ modRow' \in [Hits -> RowForms] /\ modRow'[m] = r
      /\ \A k \in Hits : k # m => modRow'[k] = modRow[k]
  BY <1>3, <1>4, Writes DEF ModInv
<1>7. SameCounts /\ \A k \in Hits : modRow'[k].enforced = modRow[k].enforced
  BY <1>4, <1>6 DEF SameCounts
<1>8. InOrder' /\ M!CountsAgree'  BY <1>1, <1>5, <1>7, CountKept DEF M!KeepPress
<1>9. QED  BY <1>1, <1>2, <1>5, <1>6, <1>7, <1>8, Names, PressKeeps DEF SameCounts

\* A row that is taken back leaves the rest in order.
LEMMA Reverted ==
  ASSUME M!ModerationAssumption, ModInv, NEW m \in Hits, ~modRow[m].reverted,
         modRow' = [modRow EXCEPT ![m].reverted = TRUE], UNCHANGED <<ledger, epoch>>
  PROVE  /\ modRow' \in [Hits -> RowForms]
         /\ \A k \in Hits : /\ modRow'[k].base = modRow[k].base
                            /\ modRow'[k].enforced = modRow[k].enforced
         /\ M!Live' = M!Live \ {m} /\ Period' = Period \ {m} /\ InOrder'
<1> DEFINE r == [modRow[m] EXCEPT !.reverted = TRUE]
<1>1. modRow \in [Hits -> RowForms] /\ modRow[m] \in RowForms  BY Typing DEF ModInv
<1>2. modRow' = [modRow EXCEPT ![m] = r]  BY <1>1
<1>3. /\ r \in RowForms /\ r.base = modRow[m].base /\ r.reverted = TRUE
      /\ r.epoch = modRow[m].epoch /\ r.enforced = modRow[m].enforced
  BY <1>1, Marks
<1> HIDE DEF r
<1>4. /\ modRow' \in [Hits -> RowForms] /\ modRow'[m] = r
      /\ \A k \in Hits : k # m => modRow'[k] = modRow[k]
  BY <1>2, <1>3, Writes DEF ModInv
<1>5. \A k \in Hits : /\ modRow'[k].base = modRow[k].base /\ modRow'[k].epoch = modRow[k].epoch
                      /\ modRow'[k].enforced = modRow[k].enforced
  BY <1>3, <1>4
<1>6. modRow'[m].reverted = TRUE /\ \A k \in Hits : k # m
          => modRow'[k].reverted = modRow[k].reverted
  BY <1>3, <1>4
<1>7. M!Live' = M!Live \ {m}  BY <1>5, <1>6 DEF M!Live
<1>8. M!Live \subseteq Hits  BY DEF M!Live
<1>9. Period' = Period \ {m}  BY <1>5, <1>7, <1>8 DEF Period
<1>10. Recs' = Recs  BY DEF Recs, M!Recorded
<1>11. InOrder'
  <2>1. \A k \in Hits : /\ ledger'[k] # 0 <=> modRow'[k].base # "none"
                        /\ ledger'[k] <= Cardinality(Recs') /\ modRow'[k].epoch <= epoch'
    BY <1>5, <1>10 DEF ModInv, InOrder
  <2>2. \A k, n \in Hits : ledger'[k] = ledger'[n] /\ ledger'[k] # 0 => k = n
    BY DEF ModInv, InOrder
  <2>3. \A k, n \in M!Live' : ledger'[k] < ledger'[n] => modRow'[k].epoch <= modRow'[n].epoch
    BY <1>5, <1>7, <1>8 DEF ModInv, InOrder
  <2>4. QED  BY <2>1, <2>2, <2>3 DEF InOrder
<1>12. QED  BY <1>4, <1>5, <1>7, <1>9, <1>11

\* A warning is taken back: the counter gives up one, and just one that it has.
LEMMA UndoKeeps ==
  ASSUME M!ModerationAssumption, ModInv, NEW m \in Hits, M!Undo(m)
  PROVE  ModInv'
<1>1. /\ M!Pressed(m) /\ M!KeepPress /\ target' = m /\ ~modRow[m].reverted
      /\ modRow' = [modRow EXCEPT ![m].reverted = TRUE]
      /\ UNCHANGED <<exempted, chatBan>>
  BY DEF M!Undo
<1>2. UNCHANGED <<ledger, epoch>>  BY <1>1 DEF M!KeepPress
<1>3. /\ modRow' \in [Hits -> RowForms]
      /\ \A k \in Hits : modRow'[k].base = modRow[k].base
          /\ modRow'[k].enforced = modRow[k].enforced
      /\ Period' = Period \ {m} /\ InOrder'
  BY <1>1, <1>2, Reverted
<1>4. /\ warning \in WarnForms /\ exempted \in BOOLEAN /\ restoring \in BOOLEAN
      /\ userLock \in M!Enforcing \cup {Unlocked} /\ warning.count \in Nat
      /\ warning.banned \in BOOLEAN
  BY Typing, Numbers DEF ModInv
<1>5. M!Active = Period /\ warning.count = Cardinality(Period)
  BY ActiveIsPeriod DEF ModInv
<1>6. Button \in M!Enforcing  BY Names
<1>7. CASE modRow[m].base \in M!Counted /\ M!InPeriod(m)
  <2>1. PICK lets \in BOOLEAN :
          /\ warning' = [count |-> warning.count - 1, banned |-> warning.banned /\ ~lets]
          /\ IF lets THEN /\ modJournal' = Button /\ restoring' = TRUE /\ userLock' = Button
                          /\ M!Goto(Button, "lift")
             ELSE M!Goto(Button, "done") /\ UNCHANGED <<modJournal, restoring, userLock>>
    <3> DEFINE restores == /\ modRow[m].base = "ban_applied" /\ warning.banned
                           /\ warning.count - 1 < WarnThreshold /\ ~M!DirectlyBanned
    <3>1. restores \in BOOLEAN  OBVIOUS
    <3>2. /\ warning' = [count |-> warning.count - 1, banned |-> warning.banned /\ ~restores]
          /\ IF restores THEN /\ modJournal' = Button /\ restoring' = TRUE
              /\ userLock' = Button
                              /\ M!Goto(Button, "lift")
             ELSE M!Goto(Button, "done") /\ UNCHANGED <<modJournal, restoring, userLock>>
      BY <1>7 DEF M!Undo, M!ActivateRecovery
    <3> HIDE DEF restores
    <3>3. QED  BY <3>1, <3>2
  <2>2. m \in Period /\ warning.count > 0  BY <1>5, <1>7 DEF M!InPeriod
  <2>3. warning.count \in 0..Cardinality(Hits) /\ Cardinality(Hits) \in Nat
    BY <1>4, Finite DEF WarnForms, ModInv
  <2>4. warning.count - 1 \in 0..Cardinality(Hits)  BY <2>2, <2>3
  <2>5. (warning.banned /\ ~lets) \in BOOLEAN  OBVIOUS
  <2>6. /\ warning'.count = warning.count - 1 /\ warning'.banned = (warning.banned /\ ~lets)
        /\ warning' \in WarnForms
    BY <2>1, <2>4, <2>5 DEF WarnForms
  <2>7. M!CountsAgree'
    <3>1. IsFiniteSet(Period)  BY Finite DEF ModInv
    <3>2. Cardinality(Period \ {m}) = Cardinality(Period) - 1
      BY <2>2, <3>1, FS_RemoveElement
    <3>3. QED  BY <1>3, <1>5, <2>6, <3>2, CountsAlike DEF M!CountsAgree, Period
  <2>8. PICK s \in M!Steps : M!Goto(Button, s) /\ s # "judged" /\ s # "placed"
    BY <2>1 DEF M!Steps
  <2>9. /\ modJournal' \in {modJournal, Button} /\ restoring' \in BOOLEAN
        /\ (restoring => restoring') /\ userLock' \in M!Enforcing \cup {Unlocked}
    BY <1>4, <1>6, <2>1
  <2>10. warning.banned /\ ~warning'.banned => modJournal' = Button  BY <2>1, <2>6
  <2>11. QED
    BY <1>1, <1>3, <1>4, <2>6, <2>7, <2>8, <2>9, <2>10, PressKeeps
<1>8. CASE ~(modRow[m].base \in M!Counted /\ M!InPeriod(m))
  <2>1. /\ M!Goto(Button, "done") /\ UNCHANGED <<warning, modJournal, restoring, userLock>>
        /\ "done" \in M!Steps
    BY <1>8 DEF M!Undo, M!Steps
  <2>2. m \notin Period
    <3>1. ASSUME m \in Period  PROVE modRow[m].base \in M!Counted /\ M!InPeriod(m)
      <4>1. modRow[m].base \in M!Counted  BY <3>1 DEF Period, M!Live
      <4>2. IsFiniteSet(Period) /\ Period # {}  BY <3>1, Finite DEF ModInv
      <4>3. Cardinality(Period) # 0  BY <4>2, FS_EmptySet
      <4>4. warning.count > 0  BY <1>4, <1>5, <4>3
      <4>5. QED  BY <1>5, <3>1, <4>1, <4>4, CountsAlike DEF M!InPeriod
    <3>2. QED  BY <1>8, <3>1
  <2>3. M!CountsAgree'  BY <1>3, <1>5, <2>1, <2>2, CountsAlike DEF M!CountsAgree, Period
  <2>4. QED  BY <1>1, <1>3, <1>4, <2>1, <2>3, PressKeeps
<1>9. QED  BY <1>7, <1>8

\* An exemption.
LEMMA ExemptKeeps ==
  ASSUME M!ModerationAssumption, ModInv, NEW m \in Hits, M!Exempt(m)
  PROVE  ModInv'
<1>1. M!Pressed(m) /\ M!KeepPress /\ M!Goto(Button, "release") /\ "release" \in M!Steps
      /\ target' = m /\ modJournal' = Button /\ userLock' = Button /\ exempted' = TRUE
      /\ restoring' = TRUE /\ UNCHANGED <<modRow, warning, chatBan>>
  BY DEF M!Exempt, M!Steps, M!ActivateRecovery
<1>2. modRow \in [Hits -> RowForms] /\ warning \in WarnForms  BY Typing DEF ModInv
<1>3. SameCounts /\ \A k \in Hits : modRow'[k].enforced = modRow[k].enforced
  BY <1>1 DEF SameCounts
<1>4. InOrder' /\ M!CountsAgree'  BY <1>1, <1>3, CountKept DEF M!KeepPress
<1>5. QED  BY <1>1, <1>2, <1>3, <1>4, Names, PressKeeps DEF SameCounts

\* The calls of an undo and of an exemption: as enforcement, with the button's journal
\* ended by a call that made Telegram agree with the policy.
LEMMA LiftKeeps ==
  ASSUME M!ModerationAssumption, ModInv, NEW done \in BOOLEAN,
         M!Lift(done) \/ M!Release(done), UNCHANGED presses
  PROVE  ModInv'
<1>1. ~M!At(Button, "done") /\ M!Goto(Button, "done") /\ "done" \in M!Steps
      /\ Button \in M!Enforcing /\ M!Keep /\ userLock' = Unlocked
      /\ UNCHANGED <<modRow, warning, audits>>
  BY Names DEF M!Lift, M!Release, M!At, M!Steps
<1>2. /\ chatBan \in BOOLEAN /\ warning.banned \in BOOLEAN
      /\ modFaults \in 0..MaxModFaults /\ (M!Fault => modFaults' \in 0..MaxModFaults)
      /\ modRow \in [Hits -> RowForms] /\ audits \in [Hits -> Nat]
  BY <1>1, Working
<1>3. modFaults' \in 0..MaxModFaults  BY <1>2 DEF M!Lift, M!Release, M!Fine
<1>4. /\ chatBan' \in BOOLEAN /\ (chatBan' => chatBan \/ warning.banned)
      /\ modJournal' \in {modJournal, NoJournal}
      /\ (modJournal' # modJournal => chatBan' = warning.banned)
  BY <1>2 DEF M!Lift, M!Release
<1>5. SameCounts /\ M!AuditedOnce'  BY <1>1 DEF SameCounts, M!AuditedOnce, ModInv
<1>6. QED  BY <1>1, <1>2, <1>3, <1>4, <1>5, WorkKeeps

-----------------------------------------------------------------------------
(* The command *)

\* What the command leaves in force when rows, order and counter are right.
LEMMA CommandKeeps ==
  ASSUME M!ModerationAssumption, ModInv, NEW s \in {"done", "called", "lift"},
         M!Goto(Command, s), M!KeepCommand,
         verdict' \in [Hits -> VerdictForms],
         \A k \in Hits : verdict'[k].hit = verdict[k].hit,
         \A k \in Hits : M!At(k, "judged") /\ verdict'[k].stale => restoring',
         warning' \in WarnForms, snapshot' \in WarnForms, chatBan' \in BOOLEAN,
         modJournal' \in {modJournal, Command, NoJournal}, restoring' \in BOOLEAN,
         epoch' \in Epochs, raced' \in BOOLEAN, presses' \in 0..MaxPresses,
         modFaults' \in 0..MaxModFaults,
         epoch' <= presses', s # "done" => epoch' < presses',
         InOrder', M!CountsAgree', Placed', M!NobodyKeptBanned'
  PROVE  ModInv'
<1>1. s \in M!Steps  BY DEF M!Steps
<1>2. /\ step' \in [M!Actors -> M!Steps] /\ step'[Command] = s
      /\ \A b \in M!Actors : b # Command => step'[b] = step[b]
  BY <1>1, Moves, Names DEF ModInv
<1>3. modJournal' \in M!Actors \cup {NoJournal}  BY Names, Typing DEF ModInv
<1>4. M!TypeOK'
  BY <1>2, <1>3, Typing, TypingNext DEF ModInv, M!KeepCommand, Epochs
<1>5. Judged'
  <2>1. ASSUME NEW k \in Hits, step'[k] = "judged"
        PROVE  /\ verdict'[k].hit \in {"warn", "ban"}
               /\ (verdict'[k].hit = "ban" => modRow'[k].base # "warn")
               /\ (verdict'[k].stale => restoring')
    BY <1>2, <2>1, Names DEF ModInv, Judged, M!At, M!KeepCommand
  <2>2. QED  BY <2>1 DEF Judged, M!At
<1>6. Pressing'  BY <1>2, Names DEF ModInv, Pressing, M!At, M!KeepCommand
<1>7. M!AuditedOnce'  BY DEF ModInv, M!AuditedOnce, M!KeepCommand
<1>8. QED  BY <1>4, <1>5, <1>6, <1>7 DEF ModInv

\* The values a command starts from.
LEMMA Commanding ==
  ASSUME M!ModerationAssumption, ModInv
  PROVE  /\ verdict \in [Hits -> VerdictForms] /\ warning \in WarnForms
         /\ snapshot \in WarnForms /\ chatBan \in BOOLEAN /\ restoring \in BOOLEAN
         /\ raced \in BOOLEAN /\ epoch \in Epochs /\ presses \in 0..MaxPresses
         /\ epoch \in Nat /\ presses \in Nat /\ MaxPresses \in Nat
         /\ modFaults \in 0..MaxModFaults /\ (M!Fault => modFaults' \in 0..MaxModFaults)
         /\ warning.banned \in BOOLEAN /\ epoch <= presses
         /\ Command # NoJournal /\ Command \notin M!Enforcing
<1>1. MaxModFaults \in Nat /\ MaxPresses \in Nat  BY DEF M!ModerationAssumption
<1>2. modFaults \in 0..MaxModFaults  BY Typing DEF ModInv
<1>3. M!Fault => modFaults' \in 0..MaxModFaults  BY <1>1, <1>2 DEF M!Fault
<1>4. epoch \in Nat /\ presses \in Nat /\ warning.banned \in BOOLEAN  BY Numbers DEF ModInv
<1>5. QED  BY <1>1, <1>2, <1>3, <1>4, Names, Typing DEF ModInv, Epochs, Pressing

\* The marker of a running /unban reaches every verdict from before it.
LEMMA UnbanStartKeeps ==
  ASSUME M!ModerationAssumption, ModInv, M!UnbanStart
  PROVE  ModInv'
<1>1. /\ M!Goto(Command, "called") /\ M!KeepCommand /\ presses' = presses + 1
      /\ presses < MaxPresses /\ snapshot' = warning /\ modJournal' = Command
      /\ restoring' = TRUE /\ UNCHANGED <<warning, chatBan, epoch, raced, modFaults>>
  BY DEF M!UnbanStart, M!ActivateRecovery
<1>2. /\ verdict' \in [Hits -> VerdictForms]
      /\ \A k \in Hits : verdict'[k].hit = verdict[k].hit
  <2>1. \A k \in Hits : verdict[k] \in VerdictForms  BY Commanding
  <2>2. ASSUME NEW v \in VerdictForms, NEW st \in BOOLEAN
        PROVE  /\ [v EXCEPT !.stale = st] \in VerdictForms
               /\ [v EXCEPT !.stale = st].hit = v.hit
    BY DEF VerdictForms
  <2>3. \A k \in Hits : M!At(k, "judged") \in BOOLEAN  BY DEF M!At
  <2>4. verdict' = [k \in Hits |-> [verdict[k] EXCEPT !.stale = M!At(k, "judged")]]
    BY DEF M!UnbanStart
  <2>5. QED  BY <2>1, <2>2, <2>3, <2>4
<1>3. SameCounts  BY <1>1 DEF SameCounts, M!KeepCommand
<1>4. InOrder' /\ M!CountsAgree'  BY <1>1, <1>3, CountKept DEF M!KeepCommand
<1>5. M!NobodyKeptBanned'  BY <1>1, Commanding DEF M!NobodyKeptBanned
<1>6. Placed'  BY <1>1, Commanding DEF Placed
<1>7. presses' \in 0..MaxPresses /\ epoch' < presses' /\ epoch' <= presses'
  BY <1>1, Commanding
<1>8. QED  BY <1>1, <1>2, <1>4, <1>5, <1>6, <1>7, Commanding, CommandKeeps

\* The call.
LEMMA UnbanCallKeeps ==
  ASSUME M!ModerationAssumption, ModInv, NEW done \in BOOLEAN, M!UnbanCall(done)
  PROVE  ModInv'
<1>1. M!KeepCommand /\ UNCHANGED <<verdict, warning, snapshot, modJournal, restoring, epoch,
                                   raced, presses>> /\ M!At(Command, "called")
  BY DEF M!UnbanCall
<1>2. PICK s \in {"done", "called", "lift"} : M!Goto(Command, s)  BY DEF M!UnbanCall
<1>3. /\ chatBan' \in BOOLEAN /\ (chatBan' => chatBan)
      /\ modFaults' \in 0..MaxModFaults
  <2>1. \/ chatBan' = FALSE /\ UNCHANGED modFaults
        \/ UNCHANGED chatBan /\ M!Fault
    BY DEF M!UnbanCall, M!Fine
  <2>2. chatBan \in BOOLEAN  BY Commanding
  <2>3. chatBan' \in BOOLEAN /\ (chatBan' => chatBan)
    <3>1. CASE chatBan' = FALSE  BY <3>1
    <3>2. CASE chatBan' = chatBan  BY <2>2, <3>2
    <3>3. QED  BY <2>1, <3>1, <3>2
  <2>4. modFaults' \in 0..MaxModFaults  BY <2>1, Commanding
  <2>5. QED  BY <2>3, <2>4
<1>4. SameCounts  BY <1>1 DEF SameCounts, M!KeepCommand
<1>5. InOrder' /\ M!CountsAgree'  BY <1>1, <1>4, CountKept DEF M!KeepCommand
<1>6. M!NobodyKeptBanned'  BY <1>1, <1>3 DEF M!NobodyKeptBanned, ModInv
<1>7. step' \in [M!Actors -> M!Steps] /\ \A b \in M!Actors : b # Command => step'[b] = step[b]
  <2>1. s \in M!Steps  BY DEF M!Steps
  <2>2. QED  BY <1>2, <2>1, Moves, Names DEF ModInv
<1>8. Placed'  BY <1>1, <1>3, <1>7, Names DEF Placed, ModInv, M!At
<1>9. epoch < presses  BY <1>1 DEF ModInv, Pressing, M!At
<1>10. \A k \in Hits : M!At(k, "judged") /\ verdict'[k].stale => restoring'
  BY <1>1 DEF ModInv, Judged
<1>11. QED
  BY <1>1, <1>2, <1>3, <1>5, <1>6, <1>8, <1>9, <1>10, Commanding, CommandKeeps

\* A new period of warnings: no row is of it.
LEMMA NewPeriod ==
  ASSUME M!ModerationAssumption, ModInv, UNCHANGED <<modRow, ledger>>, epoch' = epoch + 1,
         warning' = [count |-> 0, banned |-> FALSE]
  PROVE  InOrder' /\ M!CountsAgree' /\ warning' \in WarnForms
<1>1. \A k \in Hits : modRow[k].epoch \in Nat /\ modRow[k].epoch <= epoch /\ epoch \in Nat
  BY Numbers DEF ModInv, InOrder
<1>2. M!Live' = M!Live /\ Recs' = Recs  BY DEF M!Live, Recs, M!Recorded
<1>3. InOrder'  BY <1>1, <1>2 DEF ModInv, InOrder
<1>4. Period' = {}
  <2>1. ASSUME NEW k \in Hits  PROVE modRow'[k].epoch # epoch'  BY <1>1
  <2>2. QED  BY <2>1 DEF Period, M!Live
<1>5. Cardinality(Period') = 0  BY <1>4, FS_EmptySet
<1>6. warning'.count = 0  OBVIOUS
<1>7. M!CountsAgree'  BY <1>5, <1>6, CountsAlike DEF M!CountsAgree, Period
<1>8. 0 \in 0..Cardinality(Hits)  BY Finite DEF ModInv
<1>9. QED  BY <1>3, <1>7, <1>8 DEF WarnForms

\* The end of an /unban.
LEMMA UnbanEndKeeps ==
  ASSUME M!ModerationAssumption, ModInv, NEW restored \in BOOLEAN, M!UnbanEnd(restored)
  PROVE  ModInv'
<1>1. /\ M!KeepCommand /\ M!Goto(Command, "done") /\ M!At(Command, "lift")
      /\ UNCHANGED <<verdict, snapshot, restoring, presses>>
  BY DEF M!UnbanEnd
<1>2. /\ step' \in [M!Actors -> M!Steps] /\ \A b \in M!Actors : b # Command
          => step'[b] = step[b]
      /\ step'[Command] = "done"
  <2>1. "done" \in M!Steps  BY DEF M!Steps
  <2>2. QED  BY <1>1, <2>1, Moves, Names DEF ModInv
<1>3. epoch < presses  BY <1>1 DEF ModInv, Pressing, M!At
<1>4. \A k \in Hits : M!At(k, "judged") /\ verdict'[k].stale => restoring'
  BY <1>1 DEF ModInv, Judged
<1>5. modFaults' \in 0..MaxModFaults  BY Commanding DEF M!UnbanEnd, M!Fine
<1>6. CASE warning = snapshot /\ epoch' = epoch + 1
  <2>1. /\ warning' = [count |-> 0, banned |-> FALSE] /\ raced' = (raced \/ chatBan)
        /\ modJournal' \in {modJournal, NoJournal} /\ (modJournal' # modJournal => ~chatBan)
        /\ chatBan' = chatBan
    BY <1>6, Commanding DEF M!UnbanEnd
  <2>2. InOrder' /\ M!CountsAgree' /\ warning' \in WarnForms
    BY <1>1, <1>6, <2>1, NewPeriod DEF M!KeepCommand
  <2>3. M!NobodyKeptBanned'  BY <2>1, Commanding DEF M!NobodyKeptBanned
  <2>4. Placed'  BY <2>1, Commanding DEF Placed
  <2>5. raced' \in BOOLEAN /\ epoch' \in Epochs /\ epoch' <= presses'
    BY <1>1, <1>3, <1>6, <2>1, Commanding DEF Epochs
  <2>6. QED
    BY <1>1, <1>4, <1>5, <2>1, <2>2, <2>3, <2>4, <2>5, Commanding, CommandKeeps
<1>7. CASE ~(warning = snapshot /\ epoch' = epoch + 1)
  <2>1. /\ UNCHANGED <<warning, epoch, raced, modJournal>> /\ chatBan' \in BOOLEAN
        /\ (chatBan' => chatBan \/ warning.banned)
    BY <1>7, Commanding DEF M!UnbanEnd
  <2>2. SameCounts  BY <1>1 DEF SameCounts, M!KeepCommand
  <2>3. InOrder' /\ M!CountsAgree'  BY <1>1, <2>1, <2>2, CountKept DEF M!KeepCommand
  <2>4. M!NobodyKeptBanned'  BY <2>1 DEF M!NobodyKeptBanned, ModInv
  <2>5. Placed'  BY <1>2, <2>1, Names DEF Placed, ModInv, M!At
  <2>6. QED
    BY <1>1, <1>3, <1>4, <1>5, <2>1, <2>3, <2>4, <2>5, Commanding, CommandKeeps
<1>8. QED  BY <1>6, <1>7

-----------------------------------------------------------------------------
(* Surroundings *)

\* The sweeper.
LEMMA SweepKeeps ==
  ASSUME M!ModerationAssumption, ModInv, M!Sweep
  PROVE  ModInv'
<1>1. /\ UNCHANGED <<step, modRow, warning, userLock, audits, modFaults, presses>> /\ M!Keep
      /\ chatBan' = warning.banned /\ modJournal' = NoJournal
  BY DEF M!Sweep
<1>2. M!TypeOK'  BY <1>1, Commanding, Typing, TypingNext DEF ModInv, M!Keep
<1>3. SameCounts  BY <1>1 DEF SameCounts
<1>4. InOrder' /\ M!CountsAgree'  BY <1>1, <1>3, CountKept DEF M!Keep
<1>5. Judged'  BY <1>1, <1>3, JudgedKept DEF M!Keep
<1>6. Pressing' /\ M!AuditedOnce'
  BY <1>1 DEF ModInv, Pressing, M!AuditedOnce, M!At, M!Keep
<1>7. Placed' /\ M!NobodyKeptBanned'  BY <1>1 DEF Placed, M!NobodyKeptBanned
<1>8. QED  BY <1>2, <1>4, <1>5, <1>6, <1>7 DEF ModInv

\* The marker ends when no verdict from before it is left.
LEMMA MarkerKeeps ==
  ASSUME M!ModerationAssumption, ModInv, M!MarkerExpires
  PROVE  ModInv'
<1>1. /\ UNCHANGED <<rulesVersion, exempted, step, verdict, modRow, ledger, warning, userLock,
                     chatBan, modJournal, target, snapshot, audits, epoch, raced, presses,
                     modFaults>>
      /\ restoring' = FALSE /\ \A m \in Hits : ~M!At(m, "judged")
  BY DEF M!MarkerExpires
<1>2. M!TypeOK'  BY <1>1, Typing, TypingNext DEF ModInv
<1>3. SameCounts  BY <1>1 DEF SameCounts
<1>4. InOrder' /\ M!CountsAgree'  BY <1>1, <1>3, CountKept
<1>5. Judged'  BY <1>1 DEF Judged, M!At
<1>6. Pressing' /\ M!AuditedOnce' /\ Placed' /\ M!NobodyKeptBanned'
  BY <1>1 DEF ModInv, Pressing, M!AuditedOnce, M!At, Placed, M!NobodyKeptBanned
<1>7. QED  BY <1>2, <1>4, <1>5, <1>6 DEF ModInv

\* The rules.
LEMMA EditRulesKeeps ==
  ASSUME M!ModerationAssumption, ModInv, M!EditRules
  PROVE  ModInv'
<1>1. /\ UNCHANGED <<exempted, step, verdict, modRow, ledger, warning, userLock, chatBan,
                     modJournal, restoring, target, snapshot, audits, epoch, raced, presses,
                     modFaults>>
      /\ rulesVersion < MaxRuleEdits /\ rulesVersion' = rulesVersion + 1
  BY DEF M!EditRules
<1>2. rulesVersion' \in 0..MaxRuleEdits
  BY <1>1, Typing DEF ModInv, M!ModerationAssumption
<1>3. M!TypeOK'  BY <1>1, <1>2, Typing, TypingNext DEF ModInv
<1>4. SameCounts  BY <1>1 DEF SameCounts
<1>5. InOrder' /\ M!CountsAgree'  BY <1>1, <1>4, CountKept
<1>6. Judged'  BY <1>1, <1>4, JudgedKept
<1>7. Pressing' /\ M!AuditedOnce' /\ Placed' /\ M!NobodyKeptBanned'
  BY <1>1 DEF ModInv, Pressing, M!AuditedOnce, M!At, Placed, M!NobodyKeptBanned
<1>8. QED  BY <1>3, <1>5, <1>6, <1>7 DEF ModInv

\* A crash ends every operation, and with them the verdicts and the marker.
LEMMA CrashKeeps ==
  ASSUME M!ModerationAssumption, ModInv, M!CrashModeration
  PROVE  ModInv'
<1>1. /\ verdict' = [m \in Hits |-> M!NoVerdict] /\ userLock' = Unlocked /\ restoring' = FALSE
      /\ UNCHANGED <<rulesVersion, exempted, modRow, ledger, warning, chatBan, modJournal,
                     target, snapshot, audits, epoch, raced, presses>>
      /\ M!Fault
      /\ step' = [a \in M!Actors |-> IF M!At(a, "done") \/ M!At(a, "new") THEN step[a]
                                   ELSE IF a \in Hits THEN "new" ELSE "done"]
  BY DEF M!CrashModeration
<1>2. /\ step' \in [M!Actors -> M!Steps]
      /\ \A a \in M!Actors : step'[a] \in {"new", "done"}
      /\ \A a \in M!Actors : a \notin Hits => step'[a] = "done" \/ step'[a] = step[a]
  <2>1. step \in [M!Actors -> M!Steps]  BY Typing DEF ModInv
  <2>2. "new" \in M!Steps /\ "done" \in M!Steps  BY DEF M!Steps
  <2>3. QED  BY <1>1, <2>1, <2>2 DEF M!At
<1>3. M!NoVerdict \in VerdictForms
  <2>1. 0 \in 0..MaxRuleEdits  BY DEF M!ModerationAssumption
  <2>2. QED  BY <2>1 DEF M!NoVerdict, VerdictForms
<1>4. verdict' \in [Hits -> VerdictForms] /\ modFaults' \in 0..MaxModFaults
  BY <1>1, <1>3, Commanding
<1>5. M!TypeOK'  BY <1>1, <1>2, <1>4, Typing, TypingNext DEF ModInv
<1>6. SameCounts  BY <1>1 DEF SameCounts
<1>7. InOrder' /\ M!CountsAgree'  BY <1>1, <1>6, CountKept
<1>8. Judged' /\ Placed'  BY <1>2, Names DEF Judged, Placed, M!At
<1>9. Pressing'
  <2>1. Command \notin Hits /\ Button \notin Hits /\ Command \in M!Actors
            /\ Button \in M!Actors
    BY Names
  <2>2. \A a \in {Command, Button} : step'[a] = "done" \/ step'[a] = step[a]
    BY <1>2, <2>1
  <2>3. QED  BY <1>1, <2>2 DEF ModInv, Pressing, M!At
<1>10. M!AuditedOnce' /\ M!NobodyKeptBanned'
  BY <1>1 DEF ModInv, M!AuditedOnce, M!NobodyKeptBanned
<1>11. QED  BY <1>5, <1>7, <1>8, <1>9, <1>10 DEF ModInv

-----------------------------------------------------------------------------
(* The invariant *)

\* The initial states.
LEMMA ModInit ==
  ASSUME M!ModerationAssumption, M!Init
  PROVE  ModInv
<1>1. /\ IsFiniteSet(Hits) /\ Cardinality(Hits) \in Nat
  BY FS_CardinalityType, FiniteAlike DEF M!ModerationAssumption
<1>2. /\ 0 \in 0..MaxRuleEdits /\ 0 \in Epochs /\ 0 \in 0..Cardinality(Hits)
      /\ 0 \in 0..MaxPresses /\ 0 \in 0..MaxModFaults
  BY <1>1 DEF M!ModerationAssumption, Epochs
<1>3. M!NoRow \in RowForms /\ M!NoVerdict \in VerdictForms
  BY <1>2 DEF M!NoRow, M!NoVerdict, RowForms, VerdictForms, BaseForms, EnforcedForms
<1>4. warning \in WarnForms  BY <1>2 DEF M!Init, WarnForms
<1>5. /\ step \in [M!Actors -> M!Steps] /\ \A a \in M!Actors : step[a] \in {"new", "done"}
      /\ \A a \in M!Actors : a \notin Hits => step[a] = "done"
  BY DEF M!Init, M!Steps
<1>6. M!TypeOK  BY <1>2, <1>3, <1>4, <1>5, Typing DEF M!Init
<1>7. Judged /\ Placed  BY <1>5, Names DEF Judged, Placed, M!At
<1>8. \A m \in Hits : modRow[m].base = "none" /\ modRow[m].epoch = 0
          /\ modRow[m].enforced = "null"
  BY DEF M!Init, M!NoRow
<1>9. M!Live = {}  BY <1>8 DEF M!Live, M!Counted
<1>10. Recs = {}  BY DEF M!Init, Recs, M!Recorded
<1>11. Cardinality({}) = 0  BY FS_EmptySet
<1>12. InOrder
  BY <1>8, <1>9, <1>10, <1>11 DEF M!Init, InOrder
<1>13. M!CountsAgree
  <2>1. {m \in M!Live : modRow[m].epoch = epoch} = {}  BY <1>9
  <2>2. warning.count = 0  BY DEF M!Init
  <2>3. QED  BY <1>11, <2>1, <2>2, CountsAlike DEF M!CountsAgree
<1>14. Pressing  BY <1>5, Names DEF Pressing, M!Init, M!At
<1>15. M!NobodyKeptBanned /\ M!AuditedOnce
  BY <1>8 DEF M!NobodyKeptBanned, M!AuditedOnce, M!Init
<1>16. QED  BY <1>6, <1>7, <1>12, <1>13, <1>14, <1>15 DEF ModInv

\* Every step.
LEMMA ModNext ==
  ASSUME M!ModerationAssumption, ModInv, [M!Next]_modVars
  PROVE  ModInv'
<1>1. CASE M!Next
  <2>1. ASSUME NEW m \in Hits, M!Handle(m)  PROVE ModInv'
    BY <2>1, JudgeKeeps, ClaimKeeps, NoticeKeeps DEF M!Handle
  <2>2. ASSUME NEW a \in M!Enforcing, M!Enforce(a)  PROVE ModInv'
    BY <2>2, PlaceKeeps, PlaceFailsKeeps, LostKeeps, PersistKeeps,
       PersistFailsKeeps DEF M!Enforce
  <2>3. CASE M!Press
    BY <2>3, DirectKeeps, UndoKeeps, ExemptKeeps, LiftKeeps DEF M!Press
  <2>4. CASE M!Unban
    BY <2>4, UnbanStartKeeps, UnbanCallKeeps, UnbanEndKeeps DEF M!Unban
  <2>5. QED
    BY <1>1, <2>1, <2>2, <2>3, <2>4, SweepKeeps, MarkerKeeps, EditRulesKeeps, CrashKeeps
    DEF M!Next
<1>2. CASE UNCHANGED modVars
  <2>1. UNCHANGED <<rulesVersion, exempted, step, verdict, modRow, ledger, warning, userLock,
                    chatBan, modJournal, restoring, target, snapshot, audits, epoch, raced,
                    presses, modFaults>>
    BY <1>2 DEF modVars
  <2>2. M!TypeOK'  BY <2>1, Typing, TypingNext DEF ModInv
  <2>3. SameCounts  BY <2>1 DEF SameCounts
  <2>4. InOrder' /\ M!CountsAgree'  BY <2>1, <2>3, CountKept
  <2>5. Judged'  BY <2>1, <2>3, JudgedKept
  <2>6. Pressing' /\ M!AuditedOnce' /\ Placed' /\ M!NobodyKeptBanned'
    BY <2>1 DEF ModInv, Pressing, M!AuditedOnce, M!At, Placed, M!NobodyKeptBanned
  <2>7. QED  BY <2>2, <2>4, <2>5, <2>6 DEF ModInv
<1>3. QED  BY <1>1, <1>2

\* The counter of a member, the journal and the audit ledger agree with the rows in every
\* behaviour.
THEOREM ModerationInvariant ==
  ASSUME M!ModerationAssumption
  PROVE  M!Init /\ [][M!Next]_modVars => []ModInv
<1>1. M!Init => ModInv  BY ModInit
<1>2. ModInv /\ [M!Next]_modVars => ModInv'  BY ModNext
<1>3. QED  BY <1>1, <1>2, PTL

\* The base of a row is written by a claim alone.
SameBase == \A k \in Hits : modRow'[k].base = modRow[k].base

LEMMA BasesStay ==
  ASSUME M!ModerationAssumption, ModInv, [M!Next]_modVars
  PROVE  SameBase \/ \E m \in Hits : M!Claim(m)
<1>1. modRow \in [Hits -> RowForms]  BY Typing DEF ModInv
<1>2. ASSUME modRow' = modRow  PROVE SameBase  BY <1>2 DEF SameBase
<1>3. ASSUME NEW m \in Hits, NEW r, r.base = modRow[m].base, modRow' = [modRow EXCEPT ![m] = r]
      PROVE  SameBase
  BY <1>1, <1>3 DEF SameBase
<1>4. ASSUME NEW m \in Hits
      PROVE  /\ [modRow[m] EXCEPT !.notice = TRUE].base = modRow[m].base
             /\ [modRow[m] EXCEPT !.direct = TRUE].base = modRow[m].base
             /\ [modRow[m] EXCEPT !.reverted = TRUE].base = modRow[m].base
             /\ \A e \in EnforcedForms :
                 [modRow[m] EXCEPT !.enforced = e].base = modRow[m].base
  BY <1>1, Marks, Results
<1>5. CASE M!Next
  <2>1. ASSUME NEW m \in Hits, M!Handle(m), ~M!Claim(m)  PROVE SameBase
    <3>1. CASE \E hit \in {"clean", "warn", "ban"} : M!Judge(m, hit)
      BY <1>2, <3>1 DEF M!Judge
    <3>2. CASE M!Notice(m)
      <4>1. modRow' = [modRow EXCEPT ![m] = [modRow[m] EXCEPT !.notice = TRUE]]
        BY <1>1, <3>2 DEF M!Notice
      <4>2. QED  BY <1>3, <1>4, <4>1
    <3>3. QED  BY <2>1, <3>1, <3>2 DEF M!Handle
  <2>2. ASSUME NEW a \in M!Enforcing, M!Enforce(a)  PROVE SameBase
    <3>1. CASE M!Place(a) \/ M!Lost(a) \/ M!PersistFails(a)
      BY <1>2, <3>1 DEF M!Place, M!Lost, M!PersistFails
    <3>2. CASE M!Persist(a)
      <4>1. ~M!At(a, "done")  BY <3>2 DEF M!Persist, M!At
      <4>2. M!Subject(a) \in Hits /\ "true" \in EnforcedForms
        BY <4>1, Working DEF EnforcedForms
      <4>3. modRow' = [modRow EXCEPT ![M!Subject(a)] =
                        [modRow[M!Subject(a)] EXCEPT !.enforced = "true"]]
        BY <1>1, <3>2, <4>2 DEF M!Persist
      <4>4. QED  BY <1>3, <1>4, <4>2, <4>3
    <3>3. ASSUME NEW after \in BOOLEAN, NEW retryable \in BOOLEAN,
                 M!PlaceFails(a, after, retryable)
          PROVE  SameBase
      <4> DEFINE e == IF modRow[M!Subject(a)].enforced = "null" THEN "false"
                      ELSE modRow[M!Subject(a)].enforced
      <4>1. ~M!At(a, "done")  BY <3>3 DEF M!PlaceFails, M!At
      <4>2. M!Subject(a) \in Hits  BY <4>1, Working
      <4>3. modRow[M!Subject(a)].enforced \in EnforcedForms  BY <1>1, <4>2, Marks
      <4>4. e \in EnforcedForms  BY <4>3 DEF EnforcedForms
      <4>5. modRow' = [modRow EXCEPT ![M!Subject(a)] =
                        [modRow[M!Subject(a)] EXCEPT !.enforced = e]]
        BY <1>1, <3>3, <4>2 DEF M!PlaceFails
      <4> HIDE DEF e
      <4>6. QED  BY <1>3, <1>4, <4>2, <4>4, <4>5
    <3>4. QED  BY <2>2, <3>1, <3>2, <3>3 DEF M!Enforce
  <2>3. CASE M!Press
    <3>1. ASSUME NEW m \in Hits, M!Direct(m)  PROVE SameBase
      <4>1. modRow' = [modRow EXCEPT ![m] = [modRow[m] EXCEPT !.direct = TRUE]]
        BY <1>1, <3>1 DEF M!Direct
      <4>2. QED  BY <1>3, <1>4, <4>1
    <3>2. ASSUME NEW m \in Hits, M!Undo(m)  PROVE SameBase
      <4>1. modRow' = [modRow EXCEPT ![m] = [modRow[m] EXCEPT !.reverted = TRUE]]
        BY <1>1, <3>2 DEF M!Undo
      <4>2. QED  BY <1>3, <1>4, <4>1
    <3>3. ASSUME NEW m \in Hits, M!Exempt(m)  PROVE SameBase
      BY <1>2, <3>3 DEF M!Exempt
    <3>4. ASSUME NEW done \in BOOLEAN, M!Lift(done) \/ M!Release(done)  PROVE SameBase
      BY <1>2, <3>4 DEF M!Lift, M!Release
    <3>5. QED  BY <2>3, <3>1, <3>2, <3>3, <3>4 DEF M!Press
  <2>4. CASE M!Unban
    BY <1>2, <2>4 DEF M!Unban, M!UnbanStart, M!UnbanCall, M!UnbanEnd, M!KeepCommand
  <2>5. CASE M!Sweep \/ M!MarkerExpires \/ M!EditRules \/ M!CrashModeration
    BY <1>2, <2>5 DEF M!Sweep, M!MarkerExpires, M!EditRules, M!CrashModeration
  <2>6. QED  BY <1>5, <2>1, <2>2, <2>3, <2>4, <2>5 DEF M!Next
<1>6. CASE UNCHANGED modVars
  BY <1>2, <1>6 DEF modVars
<1>7. QED  BY <1>5, <1>6

\* Nothing is recorded on a verdict that an /unban, an exemption or other rules overtook.
THEOREM VerdictsAreCurrent ==
  ASSUME M!ModerationAssumption
  PROVE  M!Init /\ [][M!Next]_modVars => M!VerdictsCurrent
<1> DEFINE OnCurrent ==
      \A m \in Hits : modRow'[m].base # modRow[m].base =>
        ~verdict[m].stale /\ ~exempted /\ verdict[m].rules = rulesVersion
<1>1. ASSUME ModInv, [M!Next]_modVars  PROVE OnCurrent \/ UNCHANGED modVars
  <2>1. ASSUME NEW m \in Hits, M!Claim(m)  PROVE OnCurrent
    <3>1. CASE ~M!Current(m)
      <4>1. modRow' = modRow  BY <2>1, <3>1 DEF M!Claim
      <4>2. QED  BY <4>1
    <3>2. CASE M!Current(m)
      <4>1. ~restoring /\ ~exempted /\ verdict[m].rules = rulesVersion
        BY <3>2 DEF M!Current
      <4>2. ~verdict[m].stale  BY <1>1, <2>1, <4>1 DEF M!Claim, ModInv, Judged
      <4>3. \A k \in Hits : k # m => modRow'[k] = modRow[k]
        <5>1. modRow \in [Hits -> RowForms]  BY <1>1, Typing DEF ModInv
        <5>2. \E r : modRow' = [modRow EXCEPT ![m] = r]
          BY <2>1, <3>2 DEF M!Claim
        <5>3. QED  BY <5>1, <5>2
      <4>4. QED  BY <4>1, <4>2, <4>3
    <3>3. QED  BY <3>1, <3>2
  <2>2. ASSUME SameBase  PROVE OnCurrent
    BY <2>2 DEF SameBase
  <2>3. QED  BY <1>1, <2>1, <2>2, BasesStay
<1>2. QED
  BY <1>1, ModerationInvariant, PTL DEF M!Spec, M!moderationVars, modVars, M!VerdictsCurrent

-----------------------------------------------------------------------------
(* The composition *)

\* A behaviour of the whole is, for each of the three modules, a behaviour of the module.
LEMMA Projection ==
  Spec => /\ V!Init /\ [][V!Next]_voteVars
          /\ U!Init /\ [][U!Next]_promptVars
          /\ M!Init /\ [][M!Next]_modVars
<1>1. Init => V!Init /\ U!Init /\ M!Init
  BY DEF Init
<1>2. [Next]_everything => [V!Next]_voteVars /\ [U!Next]_promptVars
                           /\ [M!Next]_modVars
  BY DEF Next, everything
<1> QED  BY <1>1, <1>2, PTL DEF Spec

\* Votes: a threshold that is reached is acted on, once a poll is closed and its tasks are
\* at rest Telegram bans the target exactly when the policy does, and a pin that outlives
\* its poll is still owned by its row (services/vote_ban.py).
THEOREM VotesHold == Spec => []VotesSettle
<1>0. V!VoteAssumption /\ U!PromptAssumption
  BY EnforcementAssumption
<1>1. VoteInv => V!OutcomeSettles /\ V!ThresholdSeen
  BY VoteSettles
<1>2. PromptInv => U!PinAccounted /\ U!PinReleased
  BY PromptReleases
<1>3. V!OutcomeSettles /\ V!ThresholdSeen /\ U!PinAccounted /\ U!PinReleased => VotesSettle
  BY DEF VotesSettle
<1> QED  BY <1>0, <1>1, <1>2, <1>3, Projection, VoteInvariant, PromptInvariant, PTL

\* Warnings: a member's counter is what the rows of the present period say, a ban enters the
\* ledger once, and nobody stays banned against the policy without a journal, whatever
\* comes back, fails or crashes (handlers/group.py:1474-2227).
THEOREM PunishmentsHold == Spec => []PunishmentsCounted
<1>0. M!ModerationAssumption
  BY EnforcementAssumption
<1>1. ModInv => PunishmentsCounted
  BY DEF ModInv, PunishmentsCounted
<1> QED  BY <1>0, <1>1, Projection, ModerationInvariant, PTL

\* Verdicts: a poll is decided once, and moderation records nothing on a verdict that an
\* /unban, an exemption or a change of the rules has overtaken.
THEOREM VerdictsHold == Spec => VerdictsStand
<1>0. V!VoteAssumption /\ M!ModerationAssumption
  BY EnforcementAssumption
<1>1. V!DecidedOnce /\ M!VerdictsCurrent => VerdictsStand
  BY DEF VerdictsStand
<1> QED
  BY <1>0, <1>1, Projection, PollDecidedOnce, VerdictsAreCurrent, PTL DEF V!Spec, V!voteVars,
     voteVars, M!Spec, M!moderationVars, modVars
=============================================================================
