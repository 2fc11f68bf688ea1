------------------------ MODULE MCJoinVerification ------------------------
EXTENDS JoinVerification

\* One task of each kind; every run picks the tasks that take part.
RoleName == [joiner |-> "join", sender |-> "message", solver |-> "pass",
             sweeper |-> "sweep", admin |-> "admin"]
MCRole == [w \in Workers |-> RoleName[w]]

\* A member who joined earlier: his challenge is presented, he is muted, and
\* the task that issued it is over.
Joined ==
  /\ row = As(Challenge("join", FALSE), "pending") /\ policy = FALSE /\ tg = "muted"
  /\ present = TRUE /\ arrived = FALSE /\ departed = FALSE
  /\ authorized = TRUE /\ marker = FALSE
  /\ worker = [w \in Workers |-> Idle]
  /\ faults = 0 /\ crashes = 0
  /\ passed = FALSE /\ lifted = FALSE

JoinedSpec == (Init \/ Joined) /\ [][Next]_vars
=============================================================================
