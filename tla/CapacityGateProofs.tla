------------------------- MODULE CapacityGateProofs -------------------------
(***************************************************************************)
(* Theorems about the admission gate for every set of requests and all     *)
(* capacities.                                                             *)
(***************************************************************************)
EXTENDS CapacityGate, FiniteSetTheorems, TLAPS

States == {"outside", "waiting", "granted", "cancelled", "inside"}
Pending == {u \in Tasks : st[u] = "waiting"}

LEMMA SemFacts ==
  /\ Sems \subseteq Nat /\ Total \in Sems /\ Total = 3
  /\ \A s \in Sems : s <= Total /\ (s # Total => s < Total)
  /\ \A s \in Sems : Capacity[s] \in Nat /\ Capacity[s] > 0
  /\ \A t \in Tasks : Tier[t] \in Sems
  BY ConstantsAssumption DEF Sems, Normal, Noncritical, Total

\* Every set of tasks is finite.
LEMMA TasksFinite ==
  ASSUME NEW S, S \subseteq Tasks
  PROVE  IsFiniteSet(S) /\ Cardinality(S) \in Nat
  BY ConstantsAssumption, FS_Subset, FS_CardinalityType

LEMMA DisjointUnion ==
  ASSUME NEW A, NEW B, IsFiniteSet(A), IsFiniteSet(B), A \cap B = {}
  PROVE  IsFiniteSet(A \cup B) /\ Cardinality(A \cup B) = Cardinality(A) + Cardinality(B)
<1>1. Cardinality(A \cap B) = 0  BY FS_EmptySet
<1>2. Cardinality(A) \in Nat /\ Cardinality(B) \in Nat  BY FS_CardinalityType
<1>3. /\ IsFiniteSet(A \cup B)
      /\ Cardinality(A \cup B) = Cardinality(A) + Cardinality(B) - Cardinality(A \cap B)
  BY FS_Union
<1>4. QED  BY <1>1, <1>2, <1>3

LEMMA ForemostCount ==
  ASSUME NEW s \in Sems, NEW n \in Nat, NEW G, Foremost(s, n, G)
  PROVE  /\ G \subseteq Waiting(s) /\ Cardinality(G) \in Nat /\ Cardinality(G) <= n
         /\ Cardinality(G) < n => G = Waiting(s)
         /\ n = 0 => G = {}
         /\ n > 0 /\ Waiting(s) # {} => G # {}
         /\ Waiting(s) = {} => Cardinality(G) = 0
<1>1. Waiting(s) \subseteq Tasks /\ G \subseteq Waiting(s)  BY DEF Waiting, Foremost
<1>2. /\ IsFiniteSet(G) /\ Cardinality(G) \in Nat
      /\ IsFiniteSet(Waiting(s)) /\ Cardinality(Waiting(s)) \in Nat
  BY <1>1, TasksFinite
<1>3. Cardinality(G) = Least(n, Cardinality(Waiting(s)))  BY DEF Foremost
<1>4. Cardinality(G) = n \/ Cardinality(G) = Cardinality(Waiting(s))  BY <1>3 DEF Least
<1>5. Cardinality(G) <= n  BY <1>2, <1>3 DEF Least
<1>6. Cardinality(G) = Cardinality(Waiting(s)) => G = Waiting(s)
  BY <1>1, <1>2, FS_Subset
<1>7. Cardinality(G) = 0 <=> G = {}  BY <1>2, FS_EmptySet
<1>8. Waiting(s) = {} => G = {}  BY <1>1
<1>9. n > 0 /\ Cardinality(G) = 0 => Cardinality(Waiting(s)) = 0  BY <1>4
<1>10. Cardinality(Waiting(s)) = 0 => Waiting(s) = {}  BY <1>2, FS_EmptySet
<1>11. n = 0 => Cardinality(G) = 0  BY <1>2, <1>5
<1>12. Cardinality(G) < n => G = Waiting(s)  BY <1>2, <1>4, <1>6
<1>13. n > 0 /\ Waiting(s) # {} => G # {}  BY <1>7, <1>9, <1>10
<1>14. Waiting(s) = {} => Cardinality(G) = 0  BY <1>7, <1>8
<1>15. QED  BY <1>1, <1>2, <1>5, <1>7, <1>11, <1>12, <1>13, <1>14

(* What one move of a task does to the waiters and the holders. *)

LEMMA PutType ==
  ASSUME TypeOK, NEW t \in Tasks, NEW x \in States, NEW s \in Sems,
         NEW G, Put(t, x, s, G)
  PROVE  /\ st' \in [Tasks -> States] /\ at' \in [Tasks -> Sems]
         /\ ahead' \in SUBSET (Tasks \X Tasks)
         /\ st'[t] = x /\ at'[t] = s
         /\ \A u \in Tasks \ {t} : /\ st'[u] = IF u \in G THEN "granted" ELSE st[u]
                                   /\ at'[u] = at[u]
<1>1. st' \in [Tasks -> States]  BY DEF Put, TypeOK, States
<1>2. at' \in [Tasks -> Sems]  BY DEF Put, TypeOK
<1>3. Waiting(s) \subseteq Tasks  BY DEF Waiting
<1>4. ahead' \in SUBSET (Tasks \X Tasks)  BY <1>3 DEF Put, TypeOK
<1>5. QED  BY <1>1, <1>2, <1>4 DEF Put, TypeOK

LEMMA PutHolders ==
  ASSUME TypeOK, StageFits, NEW t \in Tasks, NEW x \in States, NEW a \in Sems,
         NEW G \in SUBSET Pending, t \notin G, Put(t, x, a, G), NEW s \in Sems
  PROVE  /\ Holders(s)' = ((Holders(s) \ {t}) \cup (G \cap Waiting(s)))
                          \cup {u \in {t} : Has(u, s)'}
         /\ (G \cap Waiting(s)) \cap Holders(s) = {}
<1>1. /\ st'[t] = x /\ at'[t] = a
      /\ \A u \in Tasks \ {t} : /\ st'[u] = IF u \in G THEN "granted" ELSE st[u]
                                /\ at'[u] = at[u]
  BY PutType
<1>2. ASSUME NEW u \in Tasks, u # t, u \notin G PROVE Has(u, s)' <=> Has(u, s)
  BY <1>1, <1>2 DEF Has
<1>3. ASSUME NEW u \in Tasks, u # t, u \in G
      PROVE  /\ Has(u, s)' <=> Has(u, s) \/ u \in Waiting(s)
             /\ ~(Has(u, s) /\ u \in Waiting(s))
  <2>1. st[u] = "waiting" /\ at[u] \in Sems /\ Tier[u] \in Sems
    BY <1>3, SemFacts DEF Pending, TypeOK
  <2>2. Tier[u] <= at[u]  BY DEF StageFits
  <2>3. st'[u] = "granted" /\ at'[u] = at[u]  BY <1>1, <1>3
  <2>4. QED  BY <2>1, <2>2, <2>3, SemFacts DEF Has, Waiting
<1>4. \A u \in Tasks : u \in Holders(s)' <=> Has(u, s)'  BY DEF Holders
<1>5. \A u \in Tasks : u \in Holders(s) <=> Has(u, s)  BY DEF Holders
<1>6. Holders(s) \subseteq Tasks /\ Holders(s)' \subseteq Tasks  BY DEF Holders
<1>7. G \subseteq Tasks  BY DEF Pending
<1>8. QED  BY <1>2, <1>3, <1>4, <1>5, <1>6, <1>7 DEF Waiting

\* The balance of permits over a move.
LEMMA PutCount ==
  ASSUME TypeOK, StageFits, NEW t \in Tasks, NEW x \in States, NEW a \in Sems,
         NEW G \in SUBSET Pending, t \notin G, Put(t, x, a, G), NEW s \in Sems
  PROVE  /\ Cardinality(Holders(s)) \in Nat
         /\ Cardinality(G \cap Waiting(s)) \in Nat
         /\ Cardinality(Holders(s)') =
              Cardinality(Holders(s)) + Cardinality(G \cap Waiting(s))
              - (IF Has(t, s) THEN 1 ELSE 0) + (IF Has(t, s)' THEN 1 ELSE 0)
<1> DEFINE A == Holders(s) \ {t}
           B == G \cap Waiting(s)
           C == {u \in {t} : Has(u, s)'}
<1>1. Holders(s) \subseteq Tasks /\ B \subseteq Tasks /\ A \subseteq Tasks
  BY DEF Holders, Waiting
<1>2. /\ IsFiniteSet(Holders(s)) /\ Cardinality(Holders(s)) \in Nat
      /\ IsFiniteSet(A) /\ IsFiniteSet(B) /\ Cardinality(B) \in Nat
  BY <1>1, TasksFinite
<1>3. t \in Holders(s) <=> Has(t, s)  BY DEF Holders
<1>4. Cardinality(A) = Cardinality(Holders(s)) - (IF Has(t, s) THEN 1 ELSE 0)
  BY <1>2, <1>3, FS_RemoveElement
<1>5. A \cap B = {}  BY PutHolders
<1>6. IsFiniteSet(A \cup B) /\ Cardinality(A \cup B) = Cardinality(A) + Cardinality(B)
  <2> HIDE DEF A, B
  <2>1. QED  BY <1>2, <1>5, DisjointUnion
<1>7. Holders(s)' = (A \cup B) \cup C  BY PutHolders
<1>8. t \notin A \cup B  OBVIOUS
<1>9. CASE Has(t, s)'
  <2>1. Holders(s)' = (A \cup B) \cup {t}  BY <1>7, <1>9
  <2>2. Cardinality(Holders(s)') = Cardinality(A \cup B) + 1
    BY <1>6, <1>8, <2>1, FS_AddElement
  <2>3. QED  BY <1>2, <1>4, <1>6, <1>9, <2>2
<1>10. CASE ~Has(t, s)'
  <2>1. Holders(s)' = A \cup B  BY <1>7, <1>10
  <2>2. QED  BY <1>2, <1>4, <1>6, <1>10, <2>1
<1>11. QED  BY <1>2, <1>9, <1>10

\* What a move does to the queues.
LEMMA PutQueues ==
  ASSUME TypeOK, NEW t \in Tasks, NEW x \in States \ {"granted"}, NEW a \in Sems,
         NEW G \in SUBSET Pending, t \notin G, Put(t, x, a, G), NEW s \in Sems
  PROVE  /\ Waiting(s)' = (Waiting(s) \ (G \cup {t})) \cup {u \in {t} : x = "waiting" /\ a = s}
         /\ Granted(s)' = (Granted(s) \ {t}) \cup (G \cap Waiting(s))
<1>1. /\ st'[t] = x /\ at'[t] = a
      /\ \A u \in Tasks \ {t} : /\ st'[u] = IF u \in G THEN "granted" ELSE st[u]
                                /\ at'[u] = at[u]
  BY PutType
<1>2. \A u \in G : u \in Tasks /\ st[u] = "waiting"  BY DEF Pending
<1>3. QED  BY <1>1, <1>2 DEF Waiting, Granted

-----------------------------------------------------------------------------
(* The invariant at one semaphore, and the moves that keep it. *)

NoIdleAt(s) ==
  value[s] > 0 => /\ Waiting(s) # {} => s # Total /\ Granted(s) # {}
                  /\ s = Total => ~stale

LEMMA IdleEverywhere == NoIdlePermit <=> \A s \in Sems : NoIdleAt(s)
  BY DEF NoIdlePermit, NoIdleAt

\* If the values follow what the moving task takes and returns and what is
\* handed over, permits are conserved.
LEMMA Balance ==
  ASSUME TypeOK, StageFits, PermitsConserved,
         NEW t \in Tasks, NEW x \in States, NEW a \in Sems,
         NEW G \in SUBSET Pending, t \notin G, Put(t, x, a, G), Tier[t] <= a,
         value' \in [Sems -> Nat],
         \A s \in Sems : value'[s] = value[s] - Cardinality(G \cap Waiting(s))
           + (IF Has(t, s) THEN 1 ELSE 0) - (IF Has(t, s)' THEN 1 ELSE 0)
  PROVE  StageFits' /\ PermitsConserved'
<1>1. StageFits'
  <2>1. at'[t] = a /\ \A u \in Tasks \ {t} : at'[u] = at[u]  BY PutType
  <2>2. QED  BY <2>1 DEF StageFits
<1>2. PermitsConserved'
  <2> SUFFICES ASSUME NEW s \in Sems
               PROVE  value'[s] + Cardinality(Holders(s)') = Capacity[s]
    BY DEF PermitsConserved
  <2>1. value[s] + Cardinality(Holders(s)) = Capacity[s]  BY DEF PermitsConserved
  <2>2. value[s] \in Nat /\ value'[s] \in Nat  BY DEF TypeOK
  <2>3. /\ Cardinality(Holders(s)) \in Nat
        /\ Cardinality(G \cap Waiting(s)) \in Nat
        /\ Cardinality(Holders(s)') =
             Cardinality(Holders(s)) + Cardinality(G \cap Waiting(s))
             - (IF Has(t, s) THEN 1 ELSE 0) + (IF Has(t, s)' THEN 1 ELSE 0)
    BY PutCount
  <2>4. value'[s] = value[s] - Cardinality(G \cap Waiting(s))
           + (IF Has(t, s) THEN 1 ELSE 0) - (IF Has(t, s)' THEN 1 ELSE 0)
    OBVIOUS
  <2>5. QED  BY <2>1, <2>2, <2>3, <2>4
<1>3. QED  BY <1>1, <1>2

\* Enter and Resume, at a semaphore the task neither waited for nor was given.
LEMMA AdvanceSound ==
  ASSUME TypeOK, NEW t \in Tasks, NEW k \in Nat, NEW b \in Sems \cup {Total + 1}, k <= b,
         NEW G \in SUBSET Pending, t \notin G, Advance(t, k, b, G),
         NEW s \in Sems, G \cap Waiting(s) = {}, t \notin Granted(s),
         NoIdleAt(s), stale' = stale, value'[s] = value[s] - Taken(k, b, s)
  PROVE  value'[s] \in Nat /\ NoIdleAt(s)'
<1>1. value[s] \in Nat /\ s \in Nat /\ b \in Nat  BY SemFacts DEF TypeOK
<1>2. PICK x \in {"inside", "waiting"}, a \in Sems :
        /\ Put(t, x, a, G)
        /\ x = "waiting" => a = b /\ ~Open(b)
  BY SemFacts DEF Advance
<1>3. /\ Waiting(s)' = (Waiting(s) \ (G \cup {t})) \cup {u \in {t} : x = "waiting" /\ a = s}
      /\ Granted(s)' = (Granted(s) \ {t}) \cup (G \cap Waiting(s))
  BY <1>2, PutQueues DEF States
<1>4. Granted(s)' = Granted(s)  BY <1>3
<1>5. CASE k <= s /\ s < b
  <2>1. Open(s)  BY <1>5 DEF Advance
  <2>2. value[s] > 0 /\ Waiting(s) = {} /\ (s = Total => ~stale)  BY <2>1 DEF Open
  <2>3. Waiting(s)' = {}  BY <1>1, <1>2, <1>3, <1>5, <2>2
  <2>4. value'[s] = value[s] - 1  BY <1>5 DEF Taken
  <2>5. QED  BY <1>1, <2>2, <2>3, <2>4 DEF NoIdleAt
<1>6. CASE ~(k <= s /\ s < b)
  <2>1. value'[s] = value[s]  BY <1>1, <1>6 DEF Taken
  <2>2. CASE x = "waiting" /\ a = s
    <3>1. ~Open(s)  BY <1>2, <2>2
    <3>2. value[s] > 0 => s # Total /\ Granted(s) # {}
      BY <3>1 DEF Open, NoIdleAt
    <3>3. QED  BY <1>1, <1>4, <2>1, <3>2 DEF NoIdleAt
  <2>3. CASE ~(x = "waiting" /\ a = s)
    <3>1. Waiting(s)' \subseteq Waiting(s)  BY <1>3, <2>3
    <3>2. QED  BY <1>1, <1>4, <2>1, <3>1 DEF NoIdleAt
  <2>4. QED  BY <2>2, <2>3
<1>7. QED  BY <1>5, <1>6

\* The permits of a task that advanced from k to b.
LEMMA AdvanceHas ==
  ASSUME TypeOK, NEW t \in Tasks, NEW k \in Nat, NEW b \in Sems \cup {Total + 1},
         NEW G, Advance(t, k, b, G), NEW s \in Sems
  PROVE  Has(t, s)' <=> Tier[t] <= s /\ s < b
<1>1. s \in Nat /\ s <= Total /\ Total = 3 /\ Tier[t] \in Nat  BY SemFacts
<1>2. CASE b = Total + 1
  <2>1. Put(t, "inside", Total, G)  BY <1>1, <1>2 DEF Advance
  <2>2. st'[t] = "inside" /\ at'[t] = Total  BY <2>1, PutType, SemFacts DEF States
  <2>3. QED  BY <1>1, <1>2, <2>2 DEF Has
<1>3. CASE b \in Sems
  <2>1. ~(b > Total)  BY <1>3, SemFacts
  <2>2. Put(t, "waiting", b, G)  BY <2>1 DEF Advance
  <2>3. st'[t] = "waiting" /\ at'[t] = b  BY <1>3, <2>2, PutType DEF States
  <2>4. QED  BY <2>3 DEF Has
<1>4. QED  BY <1>2, <1>3

\* Where a task that advanced stands: Put with the facts the balance needs.
LEMMA AdvancePut ==
  ASSUME NEW t \in Tasks, NEW k \in Nat, NEW b \in Sems \cup {Total + 1},
         Tier[t] <= b, NEW G, Advance(t, k, b, G)
  PROVE  \E x \in States, a \in Sems : Put(t, x, a, G) /\ Tier[t] <= a
<1>1. Tier[t] \in Sems  BY SemFacts
<1>2. CASE b > Total
  BY <1>1, <1>2, SemFacts DEF Advance, States
<1>3. CASE ~(b > Total)
  <2>1. b \in Sems  BY <1>3, SemFacts
  <2>2. QED  BY <1>3, <2>1 DEF Advance, States
<1>4. QED  BY <1>2, <1>3

-----------------------------------------------------------------------------
(* One step per action. *)

LEMMA TypeStep ==
  ASSUME TypeOK, NEW t \in Tasks, NEW x \in States, NEW a \in Sems, NEW G,
         Put(t, x, a, G), value' \in [Sems -> Nat], stale' \in BOOLEAN
  PROVE  TypeOK'
<1>1. st' \in [Tasks -> States] /\ at' \in [Tasks -> Sems]
      /\ ahead' \in SUBSET (Tasks \X Tasks)
  BY PutType
<1>2. QED  BY <1>1 DEF TypeOK, States

LEMMA EnterSound ==
  ASSUME InductiveInv, NEW t \in Tasks, Enter(t)
  PROVE  InductiveInv'
<1>1. TypeOK /\ StageFits /\ PermitsConserved /\ NoIdlePermit  BY DEF InductiveInv
<1>2. PICK b \in Sems \cup {Total + 1} :
        /\ Tier[t] <= b /\ Advance(t, Tier[t], b, {})
        /\ value' = [s \in Sems |-> value[s] - Taken(Tier[t], b, s)]
  BY DEF Enter
<1>3. st[t] = "outside" /\ stale' = stale  BY DEF Enter
<1>4. {} \in SUBSET Pending /\ Tier[t] \in Nat /\ Tier[t] \in Sems  BY SemFacts
<1>5. ASSUME NEW s \in Sems PROVE value'[s] \in Nat /\ NoIdleAt(s)'
  <2>1. t \notin Granted(s) /\ {} \cap Waiting(s) = {}  BY <1>3 DEF Granted
  <2>2. NoIdleAt(s)  BY <1>1, IdleEverywhere
  <2>3. value'[s] = value[s] - Taken(Tier[t], b, s)  BY <1>2
  <2>4. QED  BY <1>1, <1>2, <1>3, <1>4, <2>1, <2>2, <2>3, AdvanceSound
<1>6. value' \in [Sems -> Nat]  BY <1>2, <1>5
<1>7. NoIdlePermit'  BY <1>5 DEF NoIdlePermit, NoIdleAt
<1>8. PICK x \in States, a \in Sems : Put(t, x, a, {}) /\ Tier[t] <= a
  BY <1>2, <1>4, AdvancePut
<1>9. ASSUME NEW s \in Sems
      PROVE  value'[s] = value[s] - Cardinality({} \cap Waiting(s))
               + (IF Has(t, s) THEN 1 ELSE 0) - (IF Has(t, s)' THEN 1 ELSE 0)
  <2>1. Cardinality({} \cap Waiting(s)) = 0  BY FS_EmptySet
  <2>2. ~Has(t, s)  BY <1>3 DEF Has
  <2>3. Has(t, s)' <=> Tier[t] <= s /\ s < b  BY <1>1, <1>2, <1>4, AdvanceHas
  <2>4. value'[s] = value[s] - Taken(Tier[t], b, s)  BY <1>2
  <2>5. value[s] \in Nat  BY <1>1 DEF TypeOK
  <2>6. QED  BY <2>1, <2>2, <2>3, <2>4, <2>5 DEF Taken
<1>10. TypeOK'  BY <1>1, <1>3, <1>6, <1>8, TypeStep DEF TypeOK
<1>11. StageFits' /\ PermitsConserved'  BY <1>1, <1>4, <1>6, <1>8, <1>9, Balance
<1>12. QED  BY <1>7, <1>10, <1>11 DEF InductiveInv

LEMMA ResumeSound ==
  ASSUME InductiveInv, NEW t \in Tasks, Resume(t)
  PROVE  InductiveInv'
<1>1. TypeOK /\ StageFits /\ PermitsConserved /\ NoIdlePermit  BY DEF InductiveInv
<1>2. PICK b \in Sems \cup {Total + 1}, G \in SUBSET Waiting(at[t]) :
        /\ IF at[t] = Total THEN G = {} ELSE Foremost(at[t], value[at[t]], G)
        /\ at[t] < b /\ Advance(t, at[t] + 1, b, G)
        /\ value' = [s \in Sems |-> IF s = at[t] THEN value[s] - Cardinality(G)
                                    ELSE value[s] - Taken(at[t] + 1, b, s)]
  BY DEF Resume
<1>3. st[t] = "granted" /\ stale' = stale  BY DEF Resume
<1>4. /\ at[t] \in Sems /\ at[t] \in Nat /\ at[t] + 1 \in Nat /\ b \in Nat
      /\ Tier[t] \in Nat /\ Tier[t] <= at[t]
  <2>1. at[t] \in Sems /\ Tier[t] <= at[t]  BY <1>1 DEF TypeOK, StageFits
  <2>2. Total + 1 \in Nat /\ Tier[t] \in Sems /\ Sems \subseteq Nat  BY SemFacts
  <2>3. at[t] \in Nat /\ Tier[t] \in Nat /\ b \in Nat  BY <2>1, <2>2
  <2>4. at[t] + 1 \in Nat  BY <2>3
  <2>5. QED  BY <2>1, <2>3, <2>4
<1>5. at[t] + 1 <= b /\ Tier[t] <= b  BY <1>2, <1>4
<1>6. G \in SUBSET Pending /\ t \notin G  BY <1>3 DEF Waiting, Pending
<1>7. PICK x \in States, a \in Sems : Put(t, x, a, G) /\ Tier[t] <= a
  BY <1>2, <1>4, <1>5, AdvancePut
<1>8. /\ Cardinality(G) \in Nat /\ Cardinality(G) <= value[at[t]]
      /\ value[at[t]] \in Nat
      /\ Cardinality(G) < value[at[t]] => Waiting(at[t]) \subseteq G
  <2>1. value[at[t]] \in Nat  BY <1>1, <1>4 DEF TypeOK
  <2>2. CASE at[t] = Total
    <3>1. G = {} /\ Cardinality(G) = 0  BY <1>2, <2>2, FS_EmptySet
    <3>2. value[at[t]] > 0 => Waiting(at[t]) = {}
      BY <1>1, <1>4, <2>2 DEF NoIdlePermit
    <3>3. QED  BY <2>1, <3>1, <3>2
  <2>3. CASE at[t] # Total
    BY <1>2, <1>4, <2>1, <2>3, ForemostCount
  <2>4. QED  BY <2>2, <2>3
<1>9. ASSUME NEW s \in Sems, s # at[t]
      PROVE  /\ G \cap Waiting(s) = {}
             /\ value'[s] = value[s] - Taken(at[t] + 1, b, s)
             /\ value'[s] \in Nat /\ NoIdleAt(s)'
  <2>1. G \cap Waiting(s) = {} /\ t \notin Granted(s)  BY <1>9 DEF Waiting, Granted
  <2>2. NoIdleAt(s)  BY <1>1, IdleEverywhere
  <2>3. value'[s] = value[s] - Taken(at[t] + 1, b, s)  BY <1>2, <1>9
  <2>4. QED  BY <1>1, <1>2, <1>3, <1>4, <1>5, <1>6, <2>1, <2>2, <2>3, AdvanceSound
<1>10. value'[at[t]] = value[at[t]] - Cardinality(G)  BY <1>2, <1>4
<1>11. ASSUME NEW s \in Sems, s = at[t] PROVE NoIdleAt(s)'
  <2>1. value'[s] > 0 => value[s] > 0 /\ Waiting(s) \subseteq G  BY <1>8, <1>10, <1>11
  <2>2. value'[s] > 0 /\ s = Total => ~stale'
    BY <1>1, <1>3, <2>1 DEF NoIdlePermit
  <2>3. ASSUME Waiting(s) \subseteq G PROVE Waiting(s)' = {}
    <3>1. CASE b > Total
      <4>1. Put(t, "inside", Total, G)  BY <1>2, <3>1 DEF Advance
      <4>2. Waiting(s)' = (Waiting(s) \ (G \cup {t}))
                          \cup {u \in {t} : "inside" = "waiting" /\ Total = s}
        BY <1>1, <1>6, <4>1, SemFacts, PutQueues DEF States
      <4>3. QED  BY <2>3, <4>2
    <3>2. CASE ~(b > Total)
      <4>1. b \in Sems /\ Put(t, "waiting", b, G)  BY <1>2, <3>2, SemFacts DEF Advance
      <4>2. Waiting(s)' = (Waiting(s) \ (G \cup {t}))
                          \cup {u \in {t} : "waiting" = "waiting" /\ b = s}
        BY <1>1, <1>6, <4>1, PutQueues DEF States
      <4>3. b # s  BY <1>2, <1>4, <1>11
      <4>4. QED  BY <2>3, <4>2, <4>3
    <3>3. QED  BY <3>1, <3>2
  <2>4. QED  BY <2>1, <2>2, <2>3 DEF NoIdleAt
<1>12. \A s \in Sems : value'[s] \in Nat /\ NoIdleAt(s)'  BY <1>8, <1>9, <1>10, <1>11
<1>13. value' \in [Sems -> Nat]  BY <1>2, <1>12
<1>14. NoIdlePermit'  BY <1>12 DEF NoIdlePermit, NoIdleAt
<1>15. ASSUME NEW s \in Sems
       PROVE  value'[s] = value[s] - Cardinality(G \cap Waiting(s))
                + (IF Has(t, s) THEN 1 ELSE 0) - (IF Has(t, s)' THEN 1 ELSE 0)
  <2>1. Has(t, s)' <=> Tier[t] <= s /\ s < b  BY <1>1, <1>2, <1>4, AdvanceHas
  <2>2. s \in Nat /\ value[s] \in Nat  BY <1>1, SemFacts DEF TypeOK
  <2>3. Has(t, s) <=> Tier[t] <= s /\ s <= at[t]
    <3>1. s <= at[t] <=> s < at[t] \/ s = at[t]  BY <1>4, <2>2
    <3>2. QED  BY <1>3, <3>1 DEF Has
  <2>4. CASE s = at[t]
    <3>1. G \cap Waiting(s) = G  BY <2>4
    <3>2. Has(t, s) /\ Has(t, s)'  BY <1>2, <1>4, <2>1, <2>2, <2>3, <2>4
    <3>3. QED  BY <1>8, <1>10, <2>2, <2>4, <3>1, <3>2
  <2>5. CASE s # at[t]
    <3>1. Cardinality(G \cap Waiting(s)) = 0  BY <1>9, <2>5, FS_EmptySet
    <3>2. value'[s] = value[s] - Taken(at[t] + 1, b, s)  BY <1>9, <2>5
    <3>3. QED  BY <1>4, <1>5, <2>1, <2>2, <2>3, <2>5, <3>1, <3>2 DEF Taken
  <2>6. QED  BY <2>4, <2>5
<1>16. TypeOK'  BY <1>1, <1>3, <1>7, <1>13, TypeStep DEF TypeOK
<1>17. StageFits' /\ PermitsConserved'  BY <1>1, <1>6, <1>7, <1>13, <1>15, Balance
<1>18. QED  BY <1>14, <1>16, <1>17 DEF InductiveInv

LEMMA CancelSound ==
  ASSUME InductiveInv, NEW t \in Tasks, Cancel(t)
  PROVE  InductiveInv'
<1>1. TypeOK /\ StageFits /\ PermitsConserved /\ NoIdlePermit  BY DEF InductiveInv
<1>2. /\ st[t] = "waiting" /\ Put(t, "cancelled", at[t], {})
      /\ stale' = (stale \/ at[t] = Total) /\ value' = value
  BY DEF Cancel
<1>3. /\ at[t] \in Sems /\ Tier[t] <= at[t] /\ {} \in SUBSET Pending
      /\ value' \in [Sems -> Nat] /\ stale' \in BOOLEAN
  BY <1>1, <1>2 DEF TypeOK, StageFits
<1>4. TypeOK'  BY <1>1, <1>2, <1>3, TypeStep DEF States
<1>5. ASSUME NEW s \in Sems
      PROVE  value'[s] = value[s] - Cardinality({} \cap Waiting(s))
               + (IF Has(t, s) THEN 1 ELSE 0) - (IF Has(t, s)' THEN 1 ELSE 0)
  <2>1. Cardinality({} \cap Waiting(s)) = 0  BY FS_EmptySet
  <2>2. st'[t] = "cancelled" /\ at'[t] = at[t]  BY <1>1, <1>2, <1>3, PutType DEF States
  <2>3. Has(t, s)' <=> Has(t, s)  BY <1>2, <2>2 DEF Has
  <2>4. value[s] \in Nat  BY <1>1 DEF TypeOK
  <2>5. QED  BY <1>2, <2>1, <2>3, <2>4
<1>6. StageFits' /\ PermitsConserved'
  <2>1. \E a \in Sems : a = at[t] /\ Put(t, "cancelled", a, {}) /\ Tier[t] <= a
    BY <1>2, <1>3
  <2>2. QED  BY <1>1, <1>3, <1>5, <2>1, Balance DEF States
<1>7. NoIdlePermit'
  <2> SUFFICES ASSUME NEW s \in Sems, value'[s] > 0 PROVE NoIdleAt(s)'
    BY DEF NoIdlePermit, NoIdleAt
  <2>1. NoIdleAt(s) /\ value[s] > 0  BY <1>1, <1>2, IdleEverywhere
  <2>2. /\ Waiting(s)' = (Waiting(s) \ ({} \cup {t}))
                          \cup {u \in {t} : "cancelled" = "waiting" /\ at[t] = s}
        /\ Granted(s)' = (Granted(s) \ {t}) \cup ({} \cap Waiting(s))
    <3>1. PICK a \in Sems : a = at[t] /\ Put(t, "cancelled", a, {})  BY <1>2, <1>3
    <3>2. QED  BY <1>1, <1>3, <3>1, PutQueues DEF States
  <2>3. t \notin Granted(s)  BY <1>2 DEF Granted
  <2>4. Waiting(s)' \subseteq Waiting(s) /\ Granted(s)' = Granted(s)  BY <2>2, <2>3
  <2>5. s = Total => at[t] # Total
    BY <1>2, <2>1 DEF NoIdleAt, Waiting
  <2>6. s = Total => ~stale'  BY <1>2, <2>1, <2>5 DEF NoIdleAt
  <2>7. QED  BY <2>1, <2>4, <2>6 DEF NoIdleAt
<1>8. QED  BY <1>4, <1>6, <1>7 DEF InductiveInv

\* A task that has left, with the permits it had.
LEMMA LeaveSound ==
  ASSUME InductiveInv, NEW t \in Tasks, st[t] \in {"granted", "cancelled", "inside"},
         NEW back \in [Sems -> {0, 1}], NEW wakes \in [Sems -> Nat],
         \A s \in Sems : back[s] = IF Has(t, s) THEN 1 ELSE 0,
         \A s \in Sems : \/ wakes[s] = back[s]
                         \/ s # Total /\ wakes[s] = value[s] + back[s],
         Leave(t, back, wakes)
  PROVE  InductiveInv'
<1>1. TypeOK /\ StageFits /\ PermitsConserved /\ NoIdlePermit  BY DEF InductiveInv
<1>2. PICK G \in SUBSET {u \in Tasks : st[u] = "waiting"} :
        /\ \A s \in Sems : Foremost(s, wakes[s], G \cap Waiting(s))
        /\ Put(t, "outside", Total, G)
        /\ value' = [s \in Sems |-> value[s] + back[s] - Cardinality(G \cap Waiting(s))]
        /\ \/ back[Total] = 0 /\ stale' = stale
           \/ back[Total] > 0 /\ stale' = FALSE
           \/ back[Total] > 0 /\ G \cap Waiting(Total) # {} /\ stale' = stale
  BY DEF Leave
<1>3. G \in SUBSET Pending /\ t \notin G  BY DEF Pending
<1>4. "outside" \in States \ {"granted"} /\ Total \in Sems /\ Tier[t] <= Total
  BY SemFacts DEF States
<1>5. st'[t] = "outside"  BY <1>1, <1>2, <1>4, PutType
<1>6. ASSUME NEW s \in Sems
      PROVE  /\ value'[s] \in Nat /\ value'[s] = value[s] + back[s] - Cardinality(G \cap Waiting(s))
             /\ NoIdleAt(s)'
  <2>1. value[s] \in Nat /\ back[s] \in {0, 1} /\ wakes[s] \in Nat  BY <1>1 DEF TypeOK
  <2>2. value'[s] = value[s] + back[s] - Cardinality(G \cap Waiting(s))  BY <1>2
  <2> DEFINE H == G \cap Waiting(s)
  <2>3. /\ Cardinality(H) \in Nat /\ Cardinality(H) <= wakes[s]
        /\ Cardinality(H) < wakes[s] => H = Waiting(s)
        /\ wakes[s] = 0 => H = {}
        /\ wakes[s] > 0 /\ Waiting(s) # {} => H # {}
        /\ Waiting(s) = {} => Cardinality(H) = 0
    <3>1. Foremost(s, wakes[s], H)  BY <1>2
    <3> HIDE DEF H
    <3>2. QED  BY <2>1, <3>1, ForemostCount
  <2>4. wakes[s] = back[s] \/ (s # Total /\ wakes[s] = value[s] + back[s])  OBVIOUS
  <2>5. wakes[s] <= value[s] + back[s]  BY <2>1, <2>4
  <2>6. value'[s] \in Nat  BY <2>1, <2>2, <2>3, <2>5
  <2>7. /\ Waiting(s)' = (Waiting(s) \ (G \cup {t})) \cup {u \in {t} : "outside" = "waiting" /\ Total = s}
        /\ Granted(s)' = (Granted(s) \ {t}) \cup H
    BY <1>1, <1>2, <1>3, <1>4, PutQueues
  <2>8. Waiting(s)' \subseteq Waiting(s) \ H /\ H \subseteq Granted(s)'  BY <2>7
  <2>9. NoIdleAt(s)  BY <1>1, IdleEverywhere
  <2>10. CASE s # Total /\ wakes[s] = value[s] + back[s]
    <3>1. value'[s] > 0 => Cardinality(H) < wakes[s]  BY <2>1, <2>2, <2>3, <2>10
    <3>2. value'[s] > 0 => Waiting(s)' = {}  BY <2>3, <2>8, <3>1
    <3>3. QED  BY <2>2, <2>6, <2>10, <3>2 DEF NoIdleAt
  <2>11. CASE wakes[s] = back[s] /\ back[s] = 0
    <3>1. H = {} /\ Cardinality(H) = 0  BY <2>3, <2>11, FS_EmptySet
    <3>2. value'[s] = value[s]  BY <2>1, <2>2, <2>11, <3>1
    <3>3. t \notin Granted(s)
      <4>1. ~Has(t, s)  BY <2>11
      <4>2. st[t] = "granted" /\ at[t] = s => Has(t, s)
        BY <1>1 DEF Has, StageFits
      <4>3. QED  BY <4>1, <4>2 DEF Granted
    <3>4. Granted(s)' = Granted(s)  BY <2>7, <3>1, <3>3
    <3>5. Waiting(s)' \subseteq Waiting(s)  BY <2>8
    <3>6. s = Total => stale' = stale  BY <1>2, <2>11
    <3>7. QED  BY <2>2, <2>6, <2>9, <3>2, <3>4, <3>5, <3>6 DEF NoIdleAt
  <2>12. CASE wakes[s] = back[s] /\ back[s] = 1 /\ Waiting(s) = {}
    <3>1. Waiting(s)' = {}  BY <2>8, <2>12
    <3>2. s = Total => stale' = FALSE
      <4>1. s = Total => back[Total] > 0 /\ back[Total] # 0 /\ G \cap Waiting(Total) = {}
        BY <2>12
      <4>2. s = Total => stale' = FALSE  BY <1>2, <4>1
      <4>3. QED  BY <4>2
    <3>3. QED  BY <2>2, <2>6, <3>1, <3>2 DEF NoIdleAt
  <2>13. CASE wakes[s] = back[s] /\ back[s] = 1 /\ Waiting(s) # {}
    <3>1. H # {}  BY <2>3, <2>13
    <3>2. Cardinality(H) = 1
      <4>1. IsFiniteSet(H)
        <5>1. H \subseteq Tasks  BY DEF Waiting
        <5>2. QED  BY <5>1, TasksFinite
      <4>2. Cardinality(H) # 0  BY <3>1, <4>1, FS_EmptySet
      <4>3. QED  BY <2>3, <2>13, <4>2
    <3>3. value'[s] = value[s]  BY <2>1, <2>2, <2>13, <3>2
    <3>4. value[s] > 0 => s # Total  BY <2>9, <2>13 DEF NoIdleAt
    <3>5. Granted(s)' # {}  BY <2>8, <3>1
    <3>6. QED  BY <2>2, <2>6, <3>3, <3>4, <3>5 DEF NoIdleAt
  <2>14. QED  BY <2>1, <2>4, <2>10, <2>11, <2>12, <2>13
<1>7. value' \in [Sems -> Nat]  BY <1>2, <1>6
<1>8. stale' \in BOOLEAN  BY <1>1, <1>2 DEF TypeOK
<1>9. ASSUME NEW s \in Sems
      PROVE  value'[s] = value[s] - Cardinality(G \cap Waiting(s))
               + (IF Has(t, s) THEN 1 ELSE 0) - (IF Has(t, s)' THEN 1 ELSE 0)
  <2>1. ~Has(t, s)'  BY <1>5 DEF Has
  <2>2. value[s] \in Nat  BY <1>1 DEF TypeOK
  <2>3. Cardinality(G \cap Waiting(s)) \in Nat
    <3>1. G \cap Waiting(s) \subseteq Tasks  BY DEF Waiting
    <3>2. QED  BY <3>1, TasksFinite
  <2>4. QED  BY <1>6, <2>1, <2>2, <2>3
<1>10. TypeOK'  BY <1>1, <1>2, <1>4, <1>7, <1>8, TypeStep
<1>11. StageFits' /\ PermitsConserved'
  BY <1>1, <1>2, <1>3, <1>4, <1>7, <1>9, Balance
<1>12. NoIdlePermit'  BY <1>6 DEF NoIdlePermit, NoIdleAt
<1>13. QED  BY <1>10, <1>11, <1>12 DEF InductiveInv

LEMMA GiveUpSound ==
  ASSUME InductiveInv, NEW t \in Tasks, GiveUp(t)
  PROVE  InductiveInv'
<1> DEFINE back == [s \in Sems |-> IF Has(t, s) THEN 1 ELSE 0]
           wakes == [s \in Sems |-> IF s = at[t] /\ s # Total THEN value[s] + back[s] ELSE back[s]]
<1>1. st[t] \in {"granted", "cancelled", "inside"} /\ Leave(t, back, wakes)  BY DEF GiveUp
<1>2. back \in [Sems -> {0, 1}] /\ wakes \in [Sems -> Nat]
  BY DEF InductiveInv, TypeOK
<1>3. \A s \in Sems : /\ back[s] = IF Has(t, s) THEN 1 ELSE 0
                      /\ \/ wakes[s] = back[s]
                         \/ s # Total /\ wakes[s] = value[s] + back[s]
  OBVIOUS
<1> HIDE DEF back, wakes
<1>4. QED  BY <1>1, <1>2, <1>3, LeaveSound

LEMMA ExitSound ==
  ASSUME InductiveInv, NEW t \in Tasks, Exit(t)
  PROVE  InductiveInv'
<1> DEFINE back == [s \in Sems |-> IF Has(t, s) THEN 1 ELSE 0]
<1>1. st[t] \in {"granted", "cancelled", "inside"} /\ Leave(t, back, back)  BY DEF Exit
<1>2. back \in [Sems -> {0, 1}] /\ back \in [Sems -> Nat]  OBVIOUS
<1>3. \A s \in Sems : back[s] = IF Has(t, s) THEN 1 ELSE 0  OBVIOUS
<1> HIDE DEF back
<1>4. QED  BY <1>1, <1>2, <1>3, LeaveSound

-----------------------------------------------------------------------------
(* The theorems *)

LEMMA InitSound == Init => InductiveInv
<1> SUFFICES ASSUME Init PROVE InductiveInv  OBVIOUS
<1>1. /\ value = Capacity /\ stale = FALSE /\ ahead = {}
      /\ \A t \in Tasks : st[t] = "outside" /\ at[t] = Total
  BY DEF Init
<1>2. TypeOK
  <2>1. Capacity \in [Sems -> Nat]  BY ConstantsAssumption
  <2>2. QED  BY <2>1, SemFacts DEF Init, TypeOK
<1>3. StageFits  BY <1>1, SemFacts DEF StageFits
<1>4. ASSUME NEW s \in Sems PROVE Cardinality(Holders(s)) = 0 /\ Waiting(s) = {}
  <2>1. Holders(s) = {} /\ Waiting(s) = {}  BY <1>1 DEF Holders, Has, Waiting
  <2>2. QED  BY <2>1, FS_EmptySet
<1>5. PermitsConserved  BY <1>1, <1>4, SemFacts DEF PermitsConserved
<1>6. NoIdlePermit  BY <1>1, <1>4 DEF NoIdlePermit
<1>7. QED  BY <1>2, <1>3, <1>5, <1>6 DEF InductiveInv

LEMMA NextSound == InductiveInv /\ [Next]_vars => InductiveInv'
<1> SUFFICES ASSUME InductiveInv, [Next]_vars PROVE InductiveInv'  OBVIOUS
<1>1. ASSUME NEW t \in Tasks, Enter(t) PROVE InductiveInv'  BY <1>1, EnterSound
<1>2. ASSUME NEW t \in Tasks, Resume(t) PROVE InductiveInv'  BY <1>2, ResumeSound
<1>3. ASSUME NEW t \in Tasks, Cancel(t) PROVE InductiveInv'  BY <1>3, CancelSound
<1>4. ASSUME NEW t \in Tasks, GiveUp(t) PROVE InductiveInv'  BY <1>4, GiveUpSound
<1>5. ASSUME NEW t \in Tasks, Exit(t) PROVE InductiveInv'  BY <1>5, ExitSound
<1>6. CASE UNCHANGED vars
  BY <1>6 DEF vars, InductiveInv, TypeOK, StageFits, PermitsConserved, NoIdlePermit,
              Holders, Has, Waiting, Granted
<1>7. QED  BY <1>1, <1>2, <1>3, <1>4, <1>5, <1>6 DEF Next

\* The invariant is inductive for every set of requests and all capacities.
THEOREM Inductive == Spec => []InductiveInv
BY InitSound, NextSound, PTL DEF Spec

\* The values, the queues and the states of the requests keep their types; no
\* semaphore's value ever becomes negative.
THEOREM TypeCorrect == Spec => []TypeOK
<1>1. InductiveInv => TypeOK  BY DEF InductiveInv
<1>2. QED  BY <1>1, Inductive, PTL

\* No permit is lost or doubled, at any capacity and any number of requests.
THEOREM Conserved == Spec => []PermitsConserved
<1>1. InductiveInv => PermitsConserved  BY DEF InductiveInv
<1>2. QED  BY <1>1, Inductive, PTL

\* No permit lies idle while a request waits for it.
THEOREM NoneIdle == Spec => []NoIdlePermit
<1>1. InductiveInv => NoIdlePermit  BY DEF InductiveInv
<1>2. QED  BY <1>1, Inductive, PTL

\* Urgent requests have the difference between the total and the noncritical
\* capacity to themselves: whoever else is inside has a permit of "noncritical".
THEOREM Reserve == Spec => []ReserveForUrgent
<1>1. InductiveInv => ReserveForUrgent
  <2> SUFFICES ASSUME InductiveInv, Waiting(Total) \cap Urgent # {}
               PROVE  Cardinality(Holders(Total) \cap Urgent) + Capacity[Noncritical]
                        >= Capacity[Total]
    BY DEF ReserveForUrgent
  <2>1. TypeOK /\ StageFits /\ PermitsConserved /\ NoIdlePermit  BY DEF InductiveInv
  <2>2. Total \in Sems /\ Noncritical \in Sems  BY DEF Sems
  <2>3. value[Total] = 0  BY <2>1, <2>2 DEF NoIdlePermit, TypeOK
  <2> DEFINE A == Holders(Total)
             B == Holders(Noncritical)
  <2>4. A \subseteq Tasks /\ B \subseteq Tasks  BY DEF Holders
  <2>5. /\ IsFiniteSet(A) /\ Cardinality(A) \in Nat
        /\ IsFiniteSet(B) /\ Cardinality(B) \in Nat
    BY <2>4, TasksFinite
  <2>6. Cardinality(A) = Capacity[Total]
    BY <2>1, <2>2, <2>3, <2>5 DEF PermitsConserved
  <2>7. Cardinality(B) <= Capacity[Noncritical]
    BY <2>1, <2>2, <2>5 DEF PermitsConserved, TypeOK
  <2>8. A \ Urgent \subseteq B
    <3> SUFFICES ASSUME NEW t \in Tasks, Has(t, Total), t \notin Urgent
                 PROVE  Has(t, Noncritical)
      BY DEF Holders
    <3>1. Tier[t] <= Noncritical
      BY ConstantsAssumption DEF Urgent, Sems, Normal, Noncritical, Total
    <3>2. at[t] \in Sems /\ st[t] # "outside" /\ (Total < at[t] \/ Total = at[t])
      BY <2>1 DEF Has, TypeOK
    <3>3. Noncritical < at[t]  BY <3>2 DEF Sems, Normal, Noncritical, Total
    <3>4. QED  BY <3>1, <3>2, <3>3 DEF Has
  <2>9. Cardinality(A \ Urgent) = Cardinality(A) - Cardinality(A \cap Urgent)
    BY <2>5, FS_Difference
  <2>10. Cardinality(A \ Urgent) <= Cardinality(B)  BY <2>5, <2>8, FS_Subset
  <2>11. Cardinality(A \cap Urgent) \in Nat /\ Cardinality(A \ Urgent) \in Nat
    <3>1. A \cap Urgent \subseteq Tasks /\ A \ Urgent \subseteq Tasks  BY <2>4
    <3>2. QED  BY <3>1, TasksFinite
  <2>12. Capacity[Total] \in Nat /\ Capacity[Noncritical] \in Nat  BY <2>2, SemFacts
  <2> HIDE DEF A, B
  <2>13. Cardinality(A \cap Urgent) + Capacity[Noncritical] >= Capacity[Total]
    BY <2>5, <2>6, <2>7, <2>9, <2>10, <2>11, <2>12
  <2>14. QED  BY <2>13 DEF A
<1>2. QED  BY <1>1, Inductive, PTL
=============================================================================
