---------------------------- MODULE SpeechStyle ----------------------------
(***************************************************************************)
(* Learning how a member talks: SpeechStyleService (services/              *)
(* speech_style.py) and the /mimic command (handlers/admin.py).  Messages  *)
(* of the target are collected and counted in Group.settings; every        *)
(* DistillEvery of them a worker asks the model for a profile, without a   *)
(* transaction, and publishes it if the target is still the same.  All     *)
(* writers take the write lock before they read the document.              *)
(***************************************************************************)
EXTENDS Naturals

CONSTANTS
  Members, Nobody,
  Workers,        \* message handlers
  DistillEvery,   \* distill_every
  SampleCap,      \* total_cap
  KeepSamples,    \* max_samples
  MaxTargets      \* bound: changes of the target

StyleAssumption ==
  /\ Nobody \notin Members /\ DistillEvery \in Nat \ {0} /\ SampleCap \in Nat \ {0}
  /\ KeepSamples \in Nat \ {0} /\ MaxTargets \in Nat

VARIABLES
  style,      \* the document: [target, count, distilled, profile], profile names its member
  samples,    \* rows of speech_style_samples
  learner,    \* what each worker is doing: [at, target, count]
  collected,  \* history: messages collected since the target was set
  targets     \* changes so far, of MaxTargets

styleVars == <<style, samples, learner, collected, targets>>

Free == [at |-> "idle", target |-> Nobody, count |-> 0]

Blank(m) == [target |-> m, count |-> 0, distilled |-> 0, profile |-> Nobody]

StyleTypeOK ==
  /\ style \in [target : Members \cup {Nobody}, count : 0..SampleCap, distilled : 0..SampleCap,
                profile : Members \cup {Nobody}]
  /\ samples \in 0..KeepSamples
  /\ learner \in [Workers -> [at : {"idle", "load", "ask"}, target : Members \cup {Nobody},
                              count : 0..SampleCap]]
  /\ collected \in 0..SampleCap /\ targets \in 0..MaxTargets

StyleInit ==
  /\ style = Blank(Nobody)
  /\ samples = 0 /\ learner = [w \in Workers |-> Free] /\ collected = 0 /\ targets = 0

\* set_style_target
Retarget(m) == style' = Blank(m) /\ samples' = 0 /\ collected' = 0

\* /mimic: a new target, or none, starts from nothing.
Target ==
  /\ targets < MaxTargets /\ targets' = targets + 1
  /\ \E m \in Members \cup {Nobody} : Retarget(m)
  /\ UNCHANGED learner

\* _trim_samples
Trimmed(n) == IF n > KeepSamples THEN KeepSamples ELSE n

\* A message of the target, until SampleCap of them have been seen.  The one
\* that makes DistillEvery goes on to distill.
Collect(w) ==
  /\ learner[w].at = "idle" /\ style.target # Nobody /\ style.count < SampleCap
  /\ style' = [style EXCEPT !.count = @ + 1]
  /\ samples' = Trimmed(samples + 1)
  /\ collected' = collected + 1
  /\ IF style'.count - style.distilled >= DistillEvery
     THEN learner' = [learner EXCEPT ![w] = [Free EXCEPT !.at = "load", !.count = style'.count]]
     ELSE UNCHANGED learner
  /\ UNCHANGED targets

\* _distill: one at a time in a group; a second one gives way.
Load(w) ==
  /\ learner[w].at = "load"
  /\ learner' = [learner EXCEPT ![w] =
       IF samples = 0 \/ \E v \in Workers : learner[v].at = "ask" THEN Free
       ELSE [@ EXCEPT !.at = "ask", !.target = style.target]]
  /\ UNCHANGED <<style, samples, collected, targets>>

Later(a, b) == IF a > b THEN a ELSE b

\* Mutant: what was asked for is published whoever is the target now.
PublishAnyway(w) ==
  /\ learner[w].at = "ask" /\ learner' = [learner EXCEPT ![w] = Free]
  /\ style' = [style EXCEPT !.profile = learner[w].target, !.distilled = learner[w].count,
                            !.count = Later(@, learner[w].count)]
  /\ UNCHANGED <<samples, collected, targets>>

\* The model's profile, or none; the counts are merged with the ones of now.
Publish(w) ==
  /\ learner[w].at = "ask" /\ learner' = [learner EXCEPT ![w] = Free]
  /\ IF style.target # learner[w].target THEN UNCHANGED style
     ELSE \E p \in {style.profile, learner[w].target} :
            style' = [style EXCEPT !.profile = p, !.distilled = learner[w].count,
                                   !.count = Later(@, learner[w].count)]
  /\ UNCHANGED <<samples, collected, targets>>

StyleNext == Target \/ \E w \in Workers : Collect(w) \/ Load(w) \/ Publish(w)

StyleSpec == StyleInit /\ [][StyleNext]_styleVars

-----------------------------------------------------------------------------
(* Properties *)

\* The profile that answers are written in is one of the target of now, and no
\* collected message has fallen out of the count, although a worker asks the model
\* without a transaction (services/speech_style.py:143-177, 218-272).
StyleCurrent ==
  /\ style.profile \in {Nobody, style.target}
  /\ style.count >= collected

\* What set_style_target promises: "Retargeting resets the profile and
\* counters" (services/speech_style.py:62).  A worker that was asking for the same
\* member before the reset brings the old count back.
ResetMeansReset == style.count = collected
=============================================================================
