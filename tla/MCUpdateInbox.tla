--------------------------- MODULE MCUpdateInbox ---------------------------
(* Instances of UpdateInbox for TLC. *)
EXTENDS UpdateInbox, TLC
CONSTANTS u1, u2, ordinary, critical

\* Both updates in the ordinary lane.
OneLane == {ordinary}
AllOrdinary == [u \in Updates |-> ordinary]
\* u1 is operator work, u2 is ordinary traffic.
TwoLanes == {ordinary, critical}
Mixed == [u \in Updates |-> IF u = u1 THEN critical ELSE ordinary]
One(S) == [l \in S |-> 1]
OneSlot == One(Lanes)

JobSymmetry == Permutations(Jobs)

\* Start with the ordinary update persisted and acknowledged by an earlier
\* process, so that its row is there before the operator's update arrives.
LaneInit ==
  /\ row = [u \in Updates |-> [st |-> IF u = u1 THEN "absent" ELSE "pending",
              attempts |-> 0, lease |-> NoJob, live |-> FALSE, delayed |-> FALSE]]
  /\ tg = [u \in Updates |-> IF u = u1 THEN "offered" ELSE "gone"]
  /\ proc = [p \in Procs |-> "running"]
  /\ pub = [p \in Procs |-> [u \in Updates |-> "idle"]]
  /\ rec = [p \in Procs |-> NoUpdate]
  /\ inflight = [p \in Procs |-> [u \in Updates |-> NoJob]]
  /\ job = [j \in Jobs |-> FreeJob]
  /\ exits = MaxExits
  /\ succeeded = {}
  /\ spent = [u \in Updates |-> 0]

\* Only the critical lane is scheduled fairly: ordinary handlers, claims and
\* finalizers may hang for ever.
LaneSpec == LaneInit /\ [][Next]_vars
CriticalFairSpec == LaneInit /\ [][Next]_vars /\ FairProcs /\ FairFor({u1})

\* Reserved capacity: an operator update is settled even if the ordinary lane
\* never makes progress (_BoundedPriorityUpdateQueue, one worker set per lane).
CriticalSettled == row[u1].st = "pending" ~> (Settled(u1) \/ Stranded(u1))
=============================================================================
