------------------------- MODULE ChallengeContract -------------------------
(***************************************************************************)
(* What the verification of one member promises, whatever the number of    *)
(* workers, crashes and lost answers: a challenge is prepared, presented,  *)
(* then either answered, withdrawn or expired.  Only an expired challenge  *)
(* is enforced, an answered one never; an administrator may take over at   *)
(* any moment, and a member is recorded as banned only at the end of an    *)
(* enforcement or of an administrator's take-over, or by a rejoin after    *)
(* the deadline.                                                           *)
(***************************************************************************)
VARIABLES stage, solved, banned

vars == <<stage, solved, banned>>

Init == stage = "none" /\ solved = FALSE /\ banned = FALSE

Propose == stage = "none" /\ stage' = "preparing" /\ solved' = FALSE /\ UNCHANGED banned

Present == stage = "preparing" /\ stage' = "pending" /\ UNCHANGED <<solved, banned>>

Answer  == stage = "pending" /\ stage' = "releasing" /\ solved' = TRUE /\ UNCHANGED banned

Expire  == /\ stage = "pending" /\ ~solved
           /\ stage' = "enforcing" /\ UNCHANGED <<solved, banned>>

\* A challenge that could not be presented, whose member left, or whose group
\* lost its authorization.
Withdraw ==
  /\ stage \in {"preparing", "pending"} /\ stage' \in {"releasing", "none"}
  /\ UNCHANGED <<solved, banned>>

Release == stage = "releasing" /\ stage' = "none" /\ UNCHANGED <<solved, banned>>

\* A kick leaves no ban behind; a ban is recorded with the end of the row.
Enforce == /\ stage = "enforcing" /\ ~solved
           /\ stage' = "none" /\ banned' \in {banned, TRUE} /\ UNCHANGED solved

TakeOver == /\ stage' = "unbanning" /\ solved' = (solved /\ stage # "none")
            /\ UNCHANGED banned

Settle   == /\ stage = "unbanning" /\ stage' = "none" /\ banned' \in {banned, TRUE}
            /\ UNCHANGED solved

Condemn == banned' = TRUE /\ UNCHANGED <<stage, solved>>
Pardon  == banned' = FALSE /\ UNCHANGED <<stage, solved>>

Next == \/ Propose \/ Present \/ Answer \/ Expire \/ Withdraw \/ Release \/ Enforce
        \/ TakeOver \/ Settle \/ Condemn \/ Pardon

Spec == Init /\ [][Next]_vars
=============================================================================
