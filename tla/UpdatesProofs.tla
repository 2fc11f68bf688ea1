--------------------------- MODULE UpdatesProofs ---------------------------
(***************************************************************************)
(* Theorems about what becomes of updates (how they reach the process, the *)
(* privileged operations they ask for, the leases a shutdown gives back),  *)
(* about what the process holds (the permits of the models, the lock on    *)
(* writing, the HTTP connector) and about the answers to group messages.   *)
(* They hold for any number of updates, workers, requests, sessions,       *)
(* senders, failures and limits.                                           *)
(***************************************************************************)
EXTENDS Services, Sequences, FiniteSetTheorems, WellFoundedInduction, TLAPS

-----------------------------------------------------------------------------
(* The delivery of updates: UpdateDelivery *)

Known == 1..deliverySent

\* Telegram keeps only what it created.
Created == backlog \subseteq Known /\ (stage = "persist" => deliveryBatch \subseteq Known)

\* The offset confirms nothing that is not in the inbox.
Confirmed == offset <= deliverySent + 1 /\ \A i \in Known : i < offset => i \in inboxed

\* A batch has no gap: an update below one of its own is in it or in the inbox.
NoGap ==
  stage = "persist" =>
    /\ landed \subseteq inboxed
    /\ \A i \in Known, b \in deliveryBatch : i <= b => i \in deliveryBatch \/ i \in inboxed

\* What the inductive invariant adds to the types.
Kept == Created /\ Confirmed /\ NoGap /\ D!NothingForgotten
DeliveryInv == D!TypeOK /\ Kept

-----------------------------------------------------------------------------
\* A bounded set of numbers that is not empty has a largest one.
LEMMA Largest ==
  ASSUME NEW n \in Nat, NEW Numbers, Numbers \subseteq 0..n, Numbers # {}
  PROVE  \E m \in Numbers : \A k \in Numbers : k <= m
<1> DEFINE Less == OpToRel(<, Nat)
           Mirror == {x \in Nat : n - x \in Numbers}
<1>1. Mirror \subseteq Nat /\ Mirror # {}
  <2>1. PICK s \in Numbers : TRUE  OBVIOUS
  <2>2. n - s \in Nat /\ n - (n - s) = s  BY <2>1
  <2>3. n - s \in Mirror  BY <2>1, <2>2
  <2>4. QED  BY <2>3
<1>2. PICK x \in Mirror : \A y \in Mirror : ~(<<y, x>> \in Less)
  <2> HIDE DEF Less, Mirror
  <2>1. IsWellFoundedOn(Less, Nat)  BY NatLessThanWellFounded DEF Less
  <2>2. QED  BY <1>1, <2>1, WFMin
<1>3. \A y \in Mirror : ~(y < x)  BY <1>2 DEF OpToRel
<1>4. n - x \in Numbers  OBVIOUS
<1>5. ASSUME NEW k \in Numbers  PROVE k <= n - x
  <2>1. k \in Nat /\ k <= n  OBVIOUS
  <2>2. n - k \in Nat /\ n - (n - k) = k  BY <2>1
  <2>3. n - k \in Mirror  BY <2>2
  <2>4. x \in Nat /\ ~(n - k < x)  BY <1>3, <2>3
  <2>5. QED  BY <2>1, <2>2, <2>4
<1>6. QED  BY <1>4, <1>5

\* The next offset stays where it is or goes behind the last of the persisted prefix.
LEMMA Acknowledge ==
  ASSUME D!DeliveryAssumption, D!TypeOK, NEW done, done \subseteq deliveryBatch
  PROVE  \/ D!Acknowledged(done) = offset
         \/ \E m \in deliveryBatch : /\ D!Acknowledged(done) = 1 + m
                                     /\ \A j \in deliveryBatch : j <= m => j \in done
<1>1. CASE D!Prefix(done) = {}  BY <1>1 DEF D!Acknowledged
<1>2. CASE D!Prefix(done) # {}
  <2> DEFINE Front == D!Prefix(done)
             m == CHOOSE i \in Front : \A j \in Front : j <= i
  <2>1. MaxIds \in Nat /\ Front \subseteq 0..MaxIds /\ Front \subseteq deliveryBatch
    <3>1. MaxIds \in Nat  BY DEF D!DeliveryAssumption
    <3>2. Front \subseteq deliveryBatch  BY DEF D!Prefix
    <3>3. deliveryBatch \subseteq 1..MaxIds  BY DEF D!TypeOK, D!Ids
    <3> HIDE DEF Front
    <3>4. Front \subseteq 1..MaxIds  BY <3>2, <3>3
    <3>5. 1..MaxIds \subseteq 0..MaxIds  BY <3>1
    <3>6. QED  BY <3>1, <3>2, <3>4, <3>5
  <2>2. \E i \in Front : \A j \in Front : j <= i
    <3> HIDE DEF Front
    <3>1. Front # {}  BY <1>2 DEF Front
    <3>2. QED  BY <2>1, <3>1, Largest
  <2>3. m \in Front  BY <2>2
  <2>4. \A j \in deliveryBatch : j <= m => j \in done  BY <2>3 DEF D!Prefix
  <2>5. D!Acknowledged(done) = 1 + m  BY <1>2 DEF D!Acknowledged
  <2>6. QED  BY <2>1, <2>3, <2>4, <2>5
<1>3. QED  BY <1>1, <1>2

-----------------------------------------------------------------------------
(* Typing *)

\* The initial state is well typed.
LEMMA TypeInit == ASSUME D!DeliveryAssumption, D!Init PROVE D!TypeOK
<1>1. MaxIds \in Nat /\ CheckLimit \in Nat /\ UnhookLimit \in Nat /\ MaxDeliveryFaults \in Nat
  BY DEF D!DeliveryAssumption
<1>2. QED  BY <1>1 DEF D!Init, D!TypeOK, D!Ids

\* Every step keeps the type invariant.
LEMMA TypeNext == ASSUME D!DeliveryAssumption, D!TypeOK, [D!Next]_deliveryVars PROVE D!TypeOK'
<1>0. MaxIds \in Nat /\ CheckLimit \in Nat \ {0} /\ UnhookLimit \in Nat \ {0}
      /\ MaxDeliveryFaults \in Nat
  BY DEF D!DeliveryAssumption
<1>f. /\ D!Fine => deliveryFaults' = deliveryFaults
      /\ D!Fault => deliveryFaults' \in 0..MaxDeliveryFaults
  BY <1>0 DEF D!Fine, D!Fault, D!TypeOK
<1>g. ASSUME NEW s, D!Goto(s)
      PROVE  /\ stage' = s /\ misses' \in 0..(CheckLimit + UnhookLimit)
             /\ offset' = offset /\ deliveryBatch' = deliveryBatch /\ landed' = landed
  BY <1>0, <1>g DEF D!Goto
<1>1. CASE D!Create  BY <1>0, <1>1 DEF D!Create, D!local, D!TypeOK, D!Ids
<1>2. ASSUME NEW i \in D!Ids, D!Deliver(i)  PROVE D!TypeOK'
  BY <1>2, <1>f DEF D!Deliver, D!local, D!TypeOK
<1>3. ASSUME NEW i \in D!Ids, D!DeliveryFails(i)  PROVE D!TypeOK'
  BY <1>3 DEF D!DeliveryFails, D!local, D!TypeOK
<1>4. CASE D!Outage  BY <1>4, <1>f DEF D!Outage, D!local, D!TypeOK
<1>5. CASE D!Repaired  BY <1>5 DEF D!Repaired, D!local, D!TypeOK
<1>6. CASE D!Unregistered  BY <1>6, <1>f DEF D!Unregistered, D!local, D!TypeOK
<1>7. CASE D!Start  BY <1>0, <1>7 DEF D!Start, D!Launch, D!remote, D!TypeOK, D!Ids
<1>8. CASE D!Probe  BY <1>8, <1>f, <1>g DEF D!Probe, D!remote, D!TypeOK
<1>9. CASE D!Clear  BY <1>9, <1>f, <1>g DEF D!Clear, D!TypeOK
<1>10. CASE D!Register  BY <1>10, <1>f, <1>g DEF D!Register, D!TypeOK
<1>11. CASE D!Confirm  BY <1>11, <1>f, <1>g DEF D!Confirm, D!TypeOK
<1>12. CASE D!Unroute  BY <1>12, <1>g DEF D!Unroute, D!remote, D!TypeOK
<1>13. CASE D!Unhook
  <2>1. CASE D!Fine /\ hook' = FALSE /\ D!Goto("poll")
    BY <1>13, <2>1, <1>f, <1>g DEF D!Unhook, D!TypeOK
  <2>2. CASE /\ D!Fault /\ hook' \in {hook, FALSE}
             /\ IF misses + 1 < UnhookLimit
                THEN misses' = misses + 1 /\ UNCHANGED <<stage, offset, deliveryBatch, landed>>
                ELSE D!Goto("down")
    <3>1. CASE misses + 1 < UnhookLimit
      <4>1. misses' \in 0..(CheckLimit + UnhookLimit)  BY <1>0, <2>2, <3>1 DEF D!TypeOK
      <4>2. QED  BY <1>13, <2>2, <3>1, <4>1, <1>f DEF D!Unhook, D!TypeOK
    <3>2. CASE ~(misses + 1 < UnhookLimit)
      BY <1>13, <2>2, <3>2, <1>f, <1>g DEF D!Unhook, D!TypeOK
    <3>3. QED  BY <3>1, <3>2
  <2>3. QED  BY <1>13, <2>1, <2>2 DEF D!Unhook
<1>14. CASE D!Check
  <2>1. D!Missed => /\ misses' \in 0..(CheckLimit + UnhookLimit)
                        /\ stage' \in {stage, "unroute"}
                    /\ UNCHANGED <<offset, deliveryBatch, landed>>
    BY <1>0, <1>g DEF D!Missed, D!TypeOK
  <2>2. /\ misses' \in 0..(CheckLimit + UnhookLimit) /\ stage' \in {stage, "unroute"}
        /\ UNCHANGED <<offset, deliveryBatch, landed>>
    BY <1>0, <1>14, <2>1, <1>g DEF D!Check
  <2>3. deliveryFaults' \in 0..MaxDeliveryFaults  BY <1>14, <1>f DEF D!Check, D!TypeOK
  <2>4. hookError' \in {hookError, "seen"}  BY <1>14 DEF D!Check
  <2>5. QED  BY <1>14, <2>2, <2>3, <2>4 DEF D!Check, D!TypeOK
<1>15. CASE D!GetUpdates
  <2> DEFINE rest == {i \in backlog : i >= offset}
  <2>1. CASE /\ D!Fine /\ rest # {} /\ backlog' = rest /\ landed' = {} /\ stage' = "persist"
             /\ \E n \in rest : deliveryBatch' = {i \in rest : i <= n}
             /\ UNCHANGED <<misses, offset>>
    <3>1. deliveryBatch' \subseteq D!Ids /\ backlog' \subseteq D!Ids  BY <2>1 DEF D!TypeOK
    <3>2. QED  BY <1>15, <2>1, <3>1, <1>f DEF D!GetUpdates, D!TypeOK
  <2>2. CASE D!Fault /\ backlog' \in {backlog, rest} /\ (D!Goto("poll") \/ D!Goto("down"))
    <3>1. backlog' \subseteq D!Ids  BY <2>2 DEF D!TypeOK
    <3>2. QED  BY <1>15, <2>2, <3>1, <1>f, <1>g DEF D!GetUpdates, D!TypeOK
  <2>3. QED  BY <1>15, <2>1, <2>2 DEF D!GetUpdates
<1>16. ASSUME NEW i \in D!Ids, D!Persist(i)  PROVE D!TypeOK'
  <2>1. CASE /\ D!Fine /\ inboxed' = inboxed \cup {i} /\ landed' = landed \cup {i}
             /\ offset' = D!Acknowledged(landed \cup {i})
             /\ stage' = IF landed \cup {i} = deliveryBatch THEN "poll" ELSE "persist"
    <3>1. landed \cup {i} \subseteq deliveryBatch  BY <1>16 DEF D!Persist, D!TypeOK
    <3>2. offset' \in 0..(MaxIds + 1)
      <4>1. offset \in 0..(MaxIds + 1)  BY DEF D!TypeOK
      <4>2. \A m \in deliveryBatch : 1 + m \in 0..(MaxIds + 1)  BY <1>0 DEF D!TypeOK, D!Ids
      <4>3. QED  BY <2>1, <3>1, <4>1, <4>2, Acknowledge
    <3>3. stage' \in {"poll", "persist"}  BY <2>1
    <3>4. QED  BY <1>16, <2>1, <3>1, <3>2, <3>3, <1>f DEF D!Persist, D!remote, D!TypeOK
  <2>2. CASE /\ D!Fault /\ inboxed' \in {inboxed, inboxed \cup {i}} /\ stage' = "poll"
             /\ UNCHANGED <<landed, offset>>
    BY <1>16, <2>2, <1>f DEF D!Persist, D!remote, D!TypeOK
  <2>3. QED  BY <1>16, <2>1, <2>2 DEF D!Persist
<1>17. CASE D!Stop  BY <1>17, <1>f, <1>g DEF D!Stop, D!remote, D!TypeOK
<1>18. CASE UNCHANGED deliveryVars  BY <1>18 DEF deliveryVars, D!TypeOK
<1>19. QED
  BY <1>1, <1>2, <1>3, <1>4, <1>5, <1>6, <1>7, <1>8, <1>9, <1>10, <1>11, <1>12, <1>13, <1>14,
     <1>15, <1>16, <1>17, <1>18 DEF D!Next, D!Serve

-----------------------------------------------------------------------------
(* Nothing forgotten *)

\* Steps that forget only what is in the inbox and leave a batch alone, or its end.
LEMMA QuietKeeps ==
  ASSUME D!TypeOK, Kept, deliverySent' = deliverySent, inboxed \subseteq inboxed',
         backlog' \subseteq backlog,
         backlog \subseteq backlog' \cup inboxed', offset' \in {offset, 0},
         stage' = "persist" => stage = "persist" /\ deliveryBatch' = deliveryBatch
             /\ landed' = landed
  PROVE  Kept'
<1>1. deliverySent \in Nat /\ offset \in Nat  BY DEF D!TypeOK
<1>2. Created'  BY DEF Kept, Created, Known
<1>3. Confirmed'
  <2>1. \A i \in Known : i < 0 => i \in inboxed  BY <1>1 DEF Known
  <2>2. QED  BY <1>1, <2>1 DEF Kept, Confirmed, Known
<1>4. NoGap'  BY DEF Kept, NoGap, Known
<1>5. D!NothingForgotten'  BY DEF Kept, D!NothingForgotten
<1>6. QED  BY <1>2, <1>3, <1>4, <1>5 DEF Kept

\* A new update is one that Telegram keeps and nobody has forgotten.
LEMMA CreateKeeps == ASSUME D!TypeOK, Kept, D!Create PROVE Kept'
<1>1. deliverySent \in Nat /\ offset \in Nat /\ offset <= deliverySent + 1
  BY DEF D!TypeOK, Kept, Confirmed
<1>2. /\ deliverySent' = deliverySent + 1 /\ backlog' = backlog \cup {deliverySent + 1}
          /\ inboxed' = inboxed
      /\ stage' = stage /\ offset' = offset /\ deliveryBatch' = deliveryBatch
          /\ landed' = landed
  BY DEF D!Create, D!local
<1>3. Known' = Known \cup {deliverySent + 1} /\ Known \subseteq Known'  BY <1>1, <1>2 DEF Known
<1>4. Created'  BY <1>2, <1>3 DEF Kept, Created
<1>5. Confirmed'  BY <1>1, <1>2, <1>3 DEF Kept, Confirmed
<1>6. NoGap'
  <2>1. ASSUME stage = "persist", NEW b \in deliveryBatch  PROVE ~(deliverySent + 1 <= b)
    <3>1. b \in 1..deliverySent  BY <2>1 DEF Kept, Created, Known
    <3>2. QED  BY <1>1, <3>1
  <2>2. QED  BY <1>2, <1>3, <2>1 DEF Kept, NoGap
<1>7. D!NothingForgotten'
  <2>1. \A i \in Known : i \in backlog \cup inboxed  BY DEF Kept, D!NothingForgotten, Known
  <2>2. \A i \in Known' : i \in backlog' \cup inboxed'  BY <1>2, <1>3, <2>1
  <2>3. QED  BY <2>2 DEF D!NothingForgotten, Known
<1>8. QED  BY <1>4, <1>5, <1>6, <1>7 DEF Kept

\* A poll forgets what its offset confirms, and every such update is in the inbox.
LEMMA GetUpdatesKeeps == ASSUME D!TypeOK, Kept, D!GetUpdates PROVE Kept'
<1> DEFINE rest == {i \in backlog : i >= offset}
<1>1. /\ deliverySent \in Nat /\ offset \in Nat /\ deliverySent' = deliverySent
          /\ inboxed' = inboxed
      /\ Known' = Known /\ backlog \subseteq Known /\ Known \subseteq Nat
  BY DEF D!TypeOK, Kept, Created, Known, D!GetUpdates
<1>2. \A i \in backlog : i \in rest \/ i \in inboxed
  BY <1>1 DEF Kept, Confirmed
<1>3. CASE /\ backlog' = rest /\ landed' = {} /\ stage' = "persist"
           /\ \E n \in rest : deliveryBatch' = {i \in rest : i <= n}
           /\ UNCHANGED <<misses, offset>>
  <2>1. PICK n \in rest : deliveryBatch' = {i \in rest : i <= n}  BY <1>3
  <2>2. Created'  BY <1>1, <1>3, <2>1 DEF Created
  <2>3. Confirmed'  BY <1>1, <1>3 DEF Kept, Confirmed
  <2>4. NoGap'
    <3>1. ASSUME NEW i \in Known, NEW b \in deliveryBatch', i <= b
          PROVE  i \in deliveryBatch' \/ i \in inboxed
      <4>1. n \in Nat /\ b \in Nat /\ b <= n /\ i \in Nat  BY <1>1, <2>1
      <4>2. i <= n  BY <3>1, <4>1
      <4>3. i \in backlog \cup inboxed  BY DEF Kept, D!NothingForgotten, Known
      <4>4. QED  BY <1>2, <2>1, <4>2, <4>3
    <3>2. QED  BY <1>1, <1>3, <3>1 DEF NoGap
  <2>5. D!NothingForgotten'
    BY <1>1, <1>2, <1>3 DEF Kept, D!NothingForgotten
  <2>6. QED  BY <2>2, <2>3, <2>4, <2>5 DEF Kept
<1>4. CASE backlog' \in {backlog, rest} /\ (D!Goto("poll") \/ D!Goto("down"))
  <2>1. stage' # "persist" /\ offset' = offset  BY <1>4 DEF D!Goto
  <2>2. QED  BY <1>1, <1>2, <1>4, <2>1, QuietKeeps
<1>5. QED  BY <1>3, <1>4 DEF D!GetUpdates

\* Persisting one update of a batch may leave a gap before it; the offset waits for the gap.
LEMMA PersistKeeps ==
  ASSUME D!DeliveryAssumption, D!TypeOK, Kept, NEW i \in D!Ids, D!Persist(i)
  PROVE  Kept'
<1>0. deliverySent' = deliverySent /\ backlog' = backlog /\ deliveryBatch' = deliveryBatch
          /\ stage = "persist" /\ i \in deliveryBatch
  BY DEF D!Persist, D!remote
<1>1. CASE /\ inboxed' = inboxed \cup {i} /\ landed' = landed \cup {i}
           /\ offset' = D!Acknowledged(landed \cup {i})
  <2> DEFINE done == landed \cup {i}
  <2>1. done \subseteq deliveryBatch /\ done \subseteq inboxed'
    BY <1>0, <1>1 DEF D!TypeOK, Kept, NoGap
  <2>2. Created'  BY <1>0 DEF Kept, Created, Known
  <2>3. NoGap'  BY <1>0, <1>1, <2>1 DEF Kept, NoGap, Known
  <2>4. D!NothingForgotten'  BY <1>0, <1>1 DEF Kept, D!NothingForgotten
  <2>5. Confirmed'
    <3>1. CASE offset' = offset  BY <1>0, <1>1, <3>1 DEF Kept, Confirmed, Known
    <3>2. CASE \E m \in deliveryBatch : offset' = 1 + m /\ \A j \in deliveryBatch : j <= m
                   => j \in done
      <4>1. PICK m \in deliveryBatch : offset' = 1 + m /\ \A j \in deliveryBatch : j <= m
                => j \in done
        BY <3>2
      <4>2. deliverySent \in Nat /\ m \in 1..deliverySent
        BY <1>0 DEF D!TypeOK, Kept, Created, Known
      <4>3. offset' <= deliverySent' + 1  BY <1>0, <4>1, <4>2
      <4>4. ASSUME NEW k \in Known', k < offset'  PROVE k \in inboxed'
        <5>1. k \in Known /\ k <= m  BY <1>0, <4>1, <4>2, <4>4 DEF Known
        <5>2. k \in deliveryBatch \/ k \in inboxed  BY <1>0, <5>1 DEF Kept, NoGap
        <5>3. QED  BY <1>1, <2>1, <4>1, <5>1, <5>2
      <4>5. QED  BY <4>3, <4>4 DEF Confirmed
    <3>3. QED  BY <1>1, <2>1, <3>1, <3>2, Acknowledge
  <2>6. QED  BY <2>2, <2>3, <2>4, <2>5 DEF Kept
<1>2. CASE inboxed' \in {inboxed, inboxed \cup {i}} /\ stage' = "poll"
               /\ UNCHANGED <<landed, offset>>
  BY <1>0, <1>2, QuietKeeps
<1>3. QED  BY <1>1, <1>2 DEF D!Persist

\* Whatever delivers, fails over, restarts or breaks keeps every update somewhere.
LEMMA KeptNext ==
  ASSUME D!DeliveryAssumption, D!TypeOK, Kept, [D!Next]_deliveryVars
  PROVE  Kept'
<1>g. \A s : D!Goto(s) => stage' = s /\ offset' = offset /\ deliveryBatch' = deliveryBatch
          /\ landed' = landed
  BY DEF D!Goto
<1>m. D!Missed => /\ stage' \in {stage, "unroute"} /\ offset' = offset
                      /\ deliveryBatch' = deliveryBatch
                  /\ landed' = landed
  BY <1>g DEF D!Missed
<1>1. CASE D!Create  BY <1>1, CreateKeeps
<1>2. ASSUME NEW i \in D!Ids, D!Deliver(i)  PROVE Kept'
  <2>1. /\ deliverySent' = deliverySent /\ stage' = stage /\ UNCHANGED D!local
        /\ inboxed \subseteq inboxed' /\ backlog' \subseteq backlog
        /\ backlog \subseteq backlog' \cup inboxed'
    BY <1>2 DEF D!Deliver
  <2>2. QED  BY <2>1, QuietKeeps DEF D!local
<1>3. ASSUME NEW i \in D!Ids, D!DeliveryFails(i)  PROVE Kept'
  BY <1>3, QuietKeeps DEF D!DeliveryFails, D!local
<1>4. CASE D!Outage \/ D!Repaired \/ D!Unregistered
  BY <1>4, QuietKeeps DEF D!Outage, D!Repaired, D!Unregistered, D!local
<1>5. CASE D!Start  BY <1>5, QuietKeeps DEF D!Start, D!Launch, D!remote
<1>6. CASE D!Serve
  <2>1. /\ deliverySent' = deliverySent /\ inboxed' = inboxed /\ backlog' = backlog
        /\ offset' = offset /\ stage' # "persist"
    <3>1. CASE D!Probe  BY <3>1 DEF D!Probe, D!remote, D!Goto
    <3>2. CASE D!Clear  BY <3>2 DEF D!Clear, D!Goto
    <3>3. CASE D!Register  BY <3>3 DEF D!Register, D!Goto
    <3>4. CASE D!Confirm  BY <3>4 DEF D!Confirm, D!Goto
    <3>5. CASE D!Unroute  BY <3>5 DEF D!Unroute, D!remote, D!Goto
    <3>6. CASE D!Unhook  BY <3>6 DEF D!Unhook, D!Goto
    <3>7. QED  BY <1>6, <3>1, <3>2, <3>3, <3>4, <3>5, <3>6 DEF D!Serve
  <2>2. QED  BY <2>1, QuietKeeps
<1>7. CASE D!Check
  <2>1. /\ deliverySent' = deliverySent /\ inboxed' = inboxed /\ backlog' = backlog
        /\ offset' = offset /\ stage' # "persist"
    BY <1>7, <1>g, <1>m DEF D!Check
  <2>2. QED  BY <2>1, QuietKeeps
<1>8. CASE D!GetUpdates  BY <1>8, GetUpdatesKeeps
<1>9. ASSUME NEW i \in D!Ids, D!Persist(i)  PROVE Kept'  BY <1>9, PersistKeeps
<1>10. CASE D!Stop
  <2>1. stage' = "down" /\ offset' = offset  BY <1>10, <1>g DEF D!Stop
  <2>2. QED  BY <1>10, <2>1, QuietKeeps DEF D!Stop, D!remote
<1>11. CASE UNCHANGED deliveryVars  BY <1>11, QuietKeeps DEF deliveryVars
<1>12. QED
  BY <1>1, <1>2, <1>3, <1>4, <1>5, <1>6, <1>7, <1>8, <1>9, <1>10, <1>11 DEF D!Next

-----------------------------------------------------------------------------
(* The theorems *)

\* The inductive invariant of the delivery: a batch has no gap, and the offset confirms
\* only what is in the inbox (_run_durable_polling).
THEOREM DeliveryInvariant ==
  ASSUME D!DeliveryAssumption
  PROVE  D!Init /\ [][D!Next]_deliveryVars => []DeliveryInv
<1>1. D!Init => DeliveryInv
  <2>1. ASSUME D!Init  PROVE Kept
    BY <2>1 DEF D!Init, Kept, Created, Confirmed, NoGap, D!NothingForgotten, Known
  <2>2. QED  BY <2>1, TypeInit DEF DeliveryInv
<1>2. DeliveryInv /\ [D!Next]_deliveryVars => DeliveryInv'
  BY TypeNext, KeptNext DEF DeliveryInv
<1>3. QED  BY <1>1, <1>2, PTL

\* Telegram is never told to forget an update that is not in the inbox, in whatever
\* order a batch is persisted and wherever the process stops.
THEOREM NeverForgotten ==
  ASSUME D!DeliveryAssumption
  PROVE  D!Spec => []D!NothingForgotten
<1>1. DeliveryInv => D!NothingForgotten  BY DEF DeliveryInv, Kept
<1>2. QED  BY <1>1, DeliveryInvariant, PTL DEF D!Spec, D!deliveryVars, deliveryVars

-----------------------------------------------------------------------------
(* One privileged lane: PrivilegedTasks *)

Finitely == IsFiniteSet(LaneUpdates) /\ IsFiniteSet(Keys)

\* The module counts as the library does.
LEMMA SameCardinality == \A N : P!Cardinality(N) = Cardinality(N)
  BY DEF P!Cardinality, Cardinality

\* The composed module speaks of the same finiteness.
LEMMA SameFiniteness == \A N : P!IsFiniteSet(N) <=> IsFiniteSet(N)
  BY DEF P!IsFiniteSet, IsFiniteSet

\* The state of a queued operation.
JobRecord == [st : {"none", "queued", "run", "grace", "orphan", "ended"},
              overdue : BOOLEAN, outcome : {"none", "ok", "failed"},
              receipts : SUBSET LaneUpdates]
ReceiptRecord == [pending : Nat, sealed : BOOLEAN, succeeded : BOOLEAN, settled : BOOLEAN]

\* The invariant speaks of values, so that one step's two halves (the discarding
\* of overdue jobs and the submission) are two uses of it.  Here ts, ks, rs, at
\* and tr stand for tasks, byKey, receipt, attached and tried.
Waits(ts, j)   == ts[j].st \in {"queued", "run", "grace", "orphan"}
Owed(ts, u)    == {j \in P!Jobs : u \in ts[j].receipts}

\* The types, of the variables that hold them.
Typed(ts, ks, rs, at, tr) ==
  /\ ts \in [P!Jobs -> JobRecord] /\ ks \in [Keys -> P!Jobs \cup {P!Untracked}]
  /\ rs \in [LaneUpdates -> ReceiptRecord]
  /\ at \in [LaneUpdates -> SUBSET P!Jobs] /\ tr \in [LaneUpdates -> SUBSET Keys]

\* A job that may still act, or will, is the tracked one of its key.
Tracked(ts, ks) ==
  /\ \A j \in P!Jobs : Waits(ts, j) => ks[j[2]] = j
  /\ \A k \in Keys : ks[k] \in P!Jobs => ks[k][2] = k

\* An update submits a key once.
Once(ts, tr) ==
  \A j \in P!Jobs : /\ ts[j].st # "none" => j[2] \in tr[j[1]]
                    /\ \A u \in ts[j].receipts : j[2] \in tr[u]

\* A receipt counts the jobs that will finish it.
Counted(ts, rs) ==
  \A u \in LaneUpdates : /\ rs[u].pending = Cardinality(Owed(ts, u))
                         /\ rs[u].settled => rs[u].sealed /\ rs[u].pending = 0

\* A job has finished the receipts it was given, or still holds them.
Awaited(ts, rs, at) ==
  \A u \in LaneUpdates : \A j \in at[u] :
    \/ u \in ts[j].receipts
    \/ ts[j].st = "ended" /\ (rs[u].succeeded => ts[j].outcome = "ok")

\* The invariant, of the variables it speaks of.
Good(ts, ks, rs, at, tr) ==
  /\ Typed(ts, ks, rs, at, tr) /\ Tracked(ts, ks) /\ Once(ts, tr) /\ Counted(ts, rs)
  /\ Awaited(ts, rs, at)

\* The inductive invariant of a lane.
LaneInv == Good(tasks, byKey, receipt, attached, tried)

-----------------------------------------------------------------------------
\* A set of jobs is finite.
LEMMA JobsFinite ==
  ASSUME Finitely, NEW Js, Js \subseteq P!Jobs
  PROVE  IsFiniteSet(Js) /\ Cardinality(Js) \in Nat
<1>1. IsFiniteSet(P!Jobs)  BY FS_Product DEF Finitely, P!Jobs
<1>2. QED  BY <1>1, FS_Subset, FS_CardinalityType

\* A job is the pair of its update and its key, never the mark of an untracked key.
LEMMA JobParts ==
  ASSUME NEW j \in P!Jobs
  PROVE  j[1] \in LaneUpdates /\ j[2] \in Keys /\ j = <<j[1], j[2]>> /\ j # P!Untracked
  BY DEF P!Jobs, P!Untracked

\* finish() for a set of jobs that wait: what they release, and what is left.
LEMMA FinishKeeps ==
  ASSUME Finitely, LaneInv, NEW ok \in BOOLEAN, NEW js, js \subseteq P!Jobs,
         \A j \in js : Waits(tasks, j)
  PROVE  Good(P!Over(js, ok), P!Released(js), P!Finished(js, ok), attached, tried)
<1> DEFINE ts == P!Over(js, ok)
           ks == P!Released(js)
           rs == P!Finished(js, ok)
<1>t. Typed(tasks, byKey, receipt, attached, tried)  BY DEF LaneInv, Good
<1>o. ASSUME NEW j \in P!Jobs
      PROVE  /\ j \in js => /\ ts[j].st = "ended" /\ ts[j].receipts = {}
                            /\ ts[j].outcome = IF ok THEN "ok" ELSE "failed"
             /\ j \notin js => ts[j] = tasks[j]
             /\ ts[j] \in JobRecord
  BY <1>t, <1>o DEF P!Over, Typed, JobRecord
<1>w. ASSUME NEW u \in LaneUpdates
      PROVE  /\ Owed(ts, u) = Owed(tasks, u) \ js
             /\ IsFiniteSet(Owed(tasks, u)) /\ IsFiniteSet(Owed(tasks, u) \cap js)
             /\ P!Owes(js, u) = Cardinality(Owed(tasks, u) \cap js)
             /\ P!Owes(js, u) \in Nat
             /\ Cardinality(Owed(ts, u)) \in Nat
             /\ Cardinality(Owed(ts, u)) = receipt[u].pending - P!Owes(js, u)
             /\ P!Owes(js, u) = 0 => \A j \in js : u \notin tasks[j].receipts
             /\ P!Owes(js, u) = 0 => Cardinality(Owed(ts, u)) = receipt[u].pending
             /\ receipt[u].settled => P!Owes(js, u) = 0
  <2>1. Owed(ts, u) = Owed(tasks, u) \ js  BY <1>o DEF Owed
  <2>2. {j \in js : u \in tasks[j].receipts} = Owed(tasks, u) \cap js  BY DEF Owed
  <2>3. /\ IsFiniteSet(Owed(tasks, u)) /\ IsFiniteSet(Owed(tasks, u) \cap js)
        /\ Cardinality(Owed(tasks, u) \cap js) \in Nat
        /\ Cardinality(Owed(tasks, u) \ js) \in Nat /\ Cardinality(Owed(tasks, u)) \in Nat
    <3>1. Owed(tasks, u) \subseteq P!Jobs  BY DEF Owed
    <3>2. QED  BY <3>1, JobsFinite
  <2>4. Cardinality(Owed(tasks, u) \ js)
          = Cardinality(Owed(tasks, u)) - Cardinality(Owed(tasks, u) \cap js)
    BY <2>3, FS_Difference
  <2>5. receipt[u].pending = Cardinality(Owed(tasks, u))  BY DEF LaneInv, Good, Counted
  <2>6. Cardinality(Owed(tasks, u) \cap js) = 0 => Owed(tasks, u) \cap js = {}
    BY <2>3, FS_EmptySet
  <2>7. Owed(tasks, u) \cap js = {} => \A j \in js : u \notin tasks[j].receipts  BY DEF Owed
  <2>8. P!Owes(js, u) = Cardinality(Owed(tasks, u) \cap js)
    BY <2>2, SameCardinality DEF P!Owes
  <2>9. receipt[u].settled => P!Owes(js, u) = 0
    <3>1. receipt[u].settled => Cardinality(Owed(tasks, u)) = 0
      BY <2>5 DEF LaneInv, Good, Counted
    <3>2. receipt[u].settled => Owed(tasks, u) = {}  BY <3>1, <2>3, FS_EmptySet
    <3>3. receipt[u].settled => Owed(tasks, u) \cap js = {}  BY <3>2
    <3>4. QED  BY <3>3, <2>3, <2>8, FS_EmptySet
  <2>10. P!Owes(js, u) = 0 => Cardinality(Owed(ts, u)) = receipt[u].pending
    <3>1. Cardinality(Owed(ts, u)) = receipt[u].pending - P!Owes(js, u)
      BY <2>1, <2>4, <2>5, <2>8
    <3>2. receipt[u].pending \in Nat  BY <2>3, <2>5
    <3>3. QED  BY <3>1, <3>2
  <2>11. QED  BY <2>1, <2>3, <2>4, <2>5, <2>6, <2>7, <2>8, <2>9, <2>10
<1>r. ASSUME NEW u \in LaneUpdates
      PROVE  /\ P!Owes(js, u) = 0 \/ receipt[u].settled => rs[u] = receipt[u]
             /\ ~(P!Owes(js, u) = 0 \/ receipt[u].settled) =>
                  /\ rs[u].pending = receipt[u].pending - P!Owes(js, u)
                  /\ rs[u].sealed = receipt[u].sealed
                  /\ rs[u].succeeded = (receipt[u].succeeded /\ ok)
                  /\ rs[u].settled = (receipt[u].pending - P!Owes(js, u) = 0
                      /\ receipt[u].sealed)
             /\ rs[u] \in ReceiptRecord
  <2>1. receipt[u] \in ReceiptRecord  BY <1>t DEF Typed
  <2>2. /\ receipt[u].pending - P!Owes(js, u) \in Nat /\ receipt[u].pending \in Nat
        /\ P!Owes(js, u) \in Nat
    BY <2>1, <1>w DEF ReceiptRecord
  <2>3. rs[u] = IF P!Owes(js, u) = 0 \/ receipt[u].settled THEN receipt[u]
                ELSE [receipt[u] EXCEPT !.pending = receipt[u].pending - P!Owes(js, u),
                        !.succeeded = receipt[u].succeeded /\ ok,
                        !.settled = receipt[u].pending - P!Owes(js, u) = 0
                            /\ receipt[u].sealed]
    BY DEF P!Finished
  <2>4. QED  BY <2>1, <2>2, <2>3 DEF ReceiptRecord
<1>1. Typed(ts, ks, rs, attached, tried)
  <2>1. ts \in [P!Jobs -> JobRecord]  BY <1>o DEF P!Over
  <2>2. ks \in [Keys -> P!Jobs \cup {P!Untracked}]  BY <1>t DEF P!Released, Typed
  <2>3. rs \in [LaneUpdates -> ReceiptRecord]  BY <1>r DEF P!Finished
  <2>4. QED  BY <1>t, <2>1, <2>2, <2>3 DEF Typed
<1>2. Tracked(ts, ks)
  <2>1. ASSUME NEW j \in P!Jobs, Waits(ts, j)  PROVE ks[j[2]] = j
    <3>1. j \notin js /\ Waits(tasks, j)  BY <2>1, <1>o DEF Waits
    <3>2. byKey[j[2]] = j  BY <3>1 DEF LaneInv, Good, Tracked
    <3>3. QED  BY <3>1, <3>2, JobParts DEF P!Released
  <2>2. ASSUME NEW k \in Keys, ks[k] \in P!Jobs  PROVE ks[k][2] = k
    <3>1. ks[k] # P!Untracked  BY <2>2, JobParts
    <3>2. ks[k] = byKey[k]  BY <3>1 DEF P!Released
    <3>3. QED  BY <2>2, <3>2 DEF LaneInv, Good, Tracked
  <2>3. QED  BY <2>1, <2>2 DEF Tracked
<1>3. Once(ts, tried)
  <2>1. ASSUME NEW j \in P!Jobs
        PROVE  /\ ts[j].st # "none" => tasks[j].st # "none"
               /\ ts[j].receipts \subseteq tasks[j].receipts
    BY <2>1, <1>o DEF Waits
  <2>2. QED  BY <2>1 DEF LaneInv, Good, Once
<1>4. Counted(ts, rs)
  <2>1. ASSUME NEW u \in LaneUpdates
        PROVE  /\ rs[u].pending = Cardinality(Owed(ts, u))
               /\ rs[u].settled => rs[u].sealed /\ rs[u].pending = 0
    <3>1. /\ receipt[u].settled => receipt[u].sealed /\ receipt[u].pending = 0
          /\ receipt[u].pending \in Nat
      BY <1>t DEF LaneInv, Good, Counted, Typed, ReceiptRecord
    <3>2. CASE P!Owes(js, u) = 0
      <4>1. rs[u] = receipt[u]  BY <3>2, <1>r
      <4>2. Cardinality(Owed(ts, u)) = receipt[u].pending  BY <3>2, <1>w
      <4>3. QED  BY <3>1, <4>1, <4>2
    <3>3. CASE P!Owes(js, u) # 0
      <4>1. ~receipt[u].settled  BY <3>3, <1>w
      <4>2. /\ rs[u].pending = receipt[u].pending - P!Owes(js, u)
            /\ rs[u].settled => rs[u].sealed /\ receipt[u].pending - P!Owes(js, u) = 0
        BY <3>3, <4>1, <1>r
      <4>3. QED  BY <4>2, <1>w
    <3>4. QED  BY <3>2, <3>3
  <2>2. QED  BY <2>1 DEF Counted
<1>5. Awaited(ts, rs, attached)
  <2>1. ASSUME NEW u \in LaneUpdates, NEW j \in attached[u]
        PROVE  \/ u \in ts[j].receipts
               \/ ts[j].st = "ended" /\ (rs[u].succeeded => ts[j].outcome = "ok")
    <3>0. j \in P!Jobs  BY <1>t DEF Typed
    <3>1. \/ u \in tasks[j].receipts
          \/ tasks[j].st = "ended" /\ (receipt[u].succeeded => tasks[j].outcome = "ok")
      BY DEF LaneInv, Good, Awaited
    <3>2. rs[u].succeeded => receipt[u].succeeded  BY <1>r
    <3>3. CASE j \notin js  BY <3>0, <3>1, <3>2, <3>3, <1>o
    <3>4. CASE j \in js
      <4>1. u \in tasks[j].receipts  BY <3>1, <3>4 DEF Waits
      <4>2. P!Owes(js, u) # 0  BY <4>1, <3>4, <1>w
      <4>3. ~receipt[u].settled  BY <4>2, <1>w
      <4>4. rs[u].succeeded => ok  BY <4>2, <4>3, <1>r
      <4>5. QED  BY <3>0, <3>4, <4>4, <1>o
    <3>5. QED  BY <3>3, <3>4
  <2>2. QED  BY <2>1 DEF Awaited
<1>6. QED  BY <1>1, <1>2, <1>3, <1>4, <1>5 DEF Good

-----------------------------------------------------------------------------
\* A job that only moves on keeps its receipts and its key.
LEMMA MoveKeeps ==
  ASSUME LaneInv, NEW ts, ts \in [P!Jobs -> JobRecord],
         \A j \in P!Jobs : /\ ts[j].receipts = tasks[j].receipts
                           /\ ts[j].outcome = tasks[j].outcome
                           /\ Waits(ts, j) = Waits(tasks, j)
                           /\ (ts[j].st = "none") = (tasks[j].st = "none")
                           /\ (ts[j].st = "ended") = (tasks[j].st = "ended")
  PROVE  Good(ts, byKey, receipt, attached, tried)
<1>1. Typed(ts, byKey, receipt, attached, tried)  BY DEF LaneInv, Good, Typed
<1>2. Tracked(ts, byKey)  BY DEF LaneInv, Good, Tracked
<1>3. Once(ts, tried)  BY DEF LaneInv, Good, Once
<1>4. \A u \in LaneUpdates : Owed(ts, u) = Owed(tasks, u)  BY DEF Owed
<1>5. Counted(ts, receipt)  BY <1>4 DEF LaneInv, Good, Counted
<1>6. Awaited(ts, receipt, attached)  BY DEF LaneInv, Good, Awaited, Typed
<1>7. QED  BY <1>1, <1>2, <1>3, <1>5, <1>6 DEF Good

\* What a caller does to the job it joins.
Joined(ts, j, u, s) == [ts EXCEPT ![j].st = s, ![j].receipts = @ \cup {u}]
OneMore(rs, u) == [rs EXCEPT ![u].pending = @ + 1]
With(f, u, x) == [f EXCEPT ![u] = @ \cup {x}]
Tracking(ks, k, j) == [ks EXCEPT ![k] = j]

\* The job it joined changes in its step and its receipts only.
LEMMA AttachJob ==
  ASSUME NEW ts \in [P!Jobs -> JobRecord], NEW j \in P!Jobs, NEW u \in LaneUpdates,
         NEW s \in {"none", "queued", "run", "grace", "orphan", "ended"}
  PROVE  /\ Joined(ts, j, u, s)[j].st = s
         /\ Joined(ts, j, u, s)[j].receipts = ts[j].receipts \cup {u}
         /\ Joined(ts, j, u, s)[j].outcome = ts[j].outcome
         /\ Joined(ts, j, u, s)[j] \in JobRecord
         /\ \A i \in P!Jobs \ {j} : Joined(ts, j, u, s)[i] = ts[i]
         /\ Joined(ts, j, u, s) \in [P!Jobs -> JobRecord]
<1> DEFINE new == Joined(ts, j, u, s)
           r == ts[j]
           q == ts[j].receipts \cup {u}
<1>1. new[j] = [r EXCEPT !.st = s, !.receipts = q]  BY DEF Joined
<1>2. \A i \in P!Jobs \ {j} : new[i] = ts[i]  BY DEF Joined
<1>0. DOMAIN new = P!Jobs /\ new = [i \in P!Jobs |-> new[i]]  BY DEF Joined
<1>3. r \in JobRecord  OBVIOUS
<1>4. q \in SUBSET LaneUpdates  BY <1>3 DEF JobRecord
<1> HIDE DEF new
<1>5. new[j].st = s  BY <1>1, <1>3, <1>4 DEF JobRecord
<1>6. new[j].receipts = q  BY <1>1, <1>3, <1>4 DEF JobRecord
<1>7. new[j].outcome = r.outcome  BY <1>1, <1>3, <1>4 DEF JobRecord
<1>8. new[j] \in JobRecord  BY <1>1, <1>3, <1>4 DEF JobRecord
<1>9. new \in [P!Jobs -> JobRecord]  BY <1>0, <1>2, <1>8
<1>10. QED  BY <1>2, <1>5, <1>6, <1>7, <1>8, <1>9 DEF new

\* A caller's receipt joins a tracked job, or a new job that its key gets.
LEMMA AttachKeeps ==
  ASSUME Finitely, NEW ts, NEW ks, NEW rs, NEW at, NEW tr, Good(ts, ks, rs, at, tr),
         NEW u \in LaneUpdates, NEW k \in Keys, ~rs[u].sealed, k \notin tr[u],
         NEW j \in P!Jobs, j[2] = k, NEW s, NEW ks2,
         \/ ks[k] = j /\ s = ts[j].st /\ ks2 = ks
         \/ ks[k] = P!Untracked /\ j = <<u, k>> /\ s = "queued" /\ ks2 = Tracking(ks, k, j)
  PROVE  Good(Joined(ts, j, u, s), ks2, OneMore(rs, u), With(at, u, j), With(tr, u, k))
<1> DEFINE ts2 == Joined(ts, j, u, s)
           rs2 == OneMore(rs, u)
           at2 == With(at, u, j)
           tr2 == With(tr, u, k)
<1>t. Typed(ts, ks, rs, at, tr)  BY DEF Good
<1>s. s \in {"none", "queued", "run", "grace", "orphan", "ended"}
  BY <1>t DEF Typed, JobRecord
<1>j. /\ ts2[j].st = s /\ ts2[j].receipts = ts[j].receipts \cup {u}
      /\ ts2[j].outcome = ts[j].outcome /\ ts2[j] \in JobRecord
      /\ \A i \in P!Jobs \ {j} : ts2[i] = ts[i]
      /\ ts2 \in [P!Jobs -> JobRecord]
  BY <1>s, <1>t, AttachJob DEF Typed
<1>r. /\ rs2[u].pending = rs[u].pending + 1 /\ rs2[u].sealed = rs[u].sealed
      /\ rs2[u].settled = rs[u].settled /\ rs2[u].succeeded = rs[u].succeeded
      /\ rs2[u] \in ReceiptRecord
      /\ \A v \in LaneUpdates \ {u} : rs2[v] = rs[v]
  BY <1>t DEF Typed, ReceiptRecord, OneMore
<1>n. /\ u \notin ts[j].receipts
      /\ ks[k] = P!Untracked => ts[j].st = "none"
  <2>1. j = <<u, k>> => j[1] = u  OBVIOUS
  <2>2. u \in ts[j].receipts => k \in tr[u]  BY DEF Good, Once
  <2>3. j = <<u, k>> => ts[j].st = "none"  BY <2>1 DEF Good, Once
  <2>4. j # P!Untracked  BY JobParts
  <2>5. QED  BY <2>2, <2>3, <2>4
<1>1. Typed(ts2, ks2, rs2, at2, tr2)
  <2>1. ts2 \in [P!Jobs -> JobRecord]  BY <1>t, <1>j DEF Typed
  <2>2. ks2 \in [Keys -> P!Jobs \cup {P!Untracked}]  BY <1>t DEF Typed, Tracking
  <2>3. rs2 \in [LaneUpdates -> ReceiptRecord]  BY <1>t, <1>r DEF Typed, OneMore
  <2>4. at2 \in [LaneUpdates -> SUBSET P!Jobs] /\ tr2 \in [LaneUpdates -> SUBSET Keys]
    BY <1>t DEF Typed, With
  <2>5. QED  BY <2>1, <2>2, <2>3, <2>4 DEF Typed
<1>2. Tracked(ts2, ks2)
  <2>1. ASSUME NEW i \in P!Jobs, Waits(ts2, i)  PROVE ks2[i[2]] = i
    <3>1. CASE ks[k] = j /\ s = ts[j].st /\ ks2 = ks
      <4>1. Waits(ts, i)  BY <2>1, <3>1, <1>j DEF Waits
      <4>2. QED  BY <3>1, <4>1 DEF Good, Tracked
    <3>2. CASE ks[k] = P!Untracked /\ ks2 = Tracking(ks, k, j)
      <4>1. CASE i = j  BY <3>2, <4>1, <1>t DEF Typed, Tracking
      <4>2. CASE i # j
        <5>1. Waits(ts, i)  BY <2>1, <4>2, <1>j DEF Waits
        <5>2. ks[i[2]] = i  BY <5>1 DEF Good, Tracked
        <5>3. i[2] # k /\ i[2] \in Keys  BY <5>2, <3>2, JobParts
        <5>4. QED  BY <5>2, <5>3, <3>2, <1>t DEF Typed, Tracking
      <4>3. QED  BY <4>1, <4>2
    <3>3. QED  BY <3>1, <3>2
  <2>2. ASSUME NEW l \in Keys, ks2[l] \in P!Jobs  PROVE ks2[l][2] = l
    BY <2>2, <1>t DEF Good, Tracked, Typed, Tracking
  <2>3. QED  BY <2>1, <2>2 DEF Tracked
<1>3. Once(ts2, tr2)
  <2>1. k \in tr2[u] /\ \A v \in LaneUpdates : tr[v] \subseteq tr2[v]  BY <1>t DEF Typed, With
  <2>2. ASSUME NEW i \in P!Jobs
        PROVE  /\ ts2[i].st # "none" => i[2] \in tr2[i[1]]
               /\ \A v \in ts2[i].receipts : i[2] \in tr2[v]
    <3>0. i[1] \in LaneUpdates /\ ts[i].receipts \subseteq LaneUpdates
      BY <1>t, JobParts DEF Typed, JobRecord
    <3>1. CASE i # j  BY <3>0, <3>1, <2>1, <1>j DEF Good, Once
    <3>2. CASE i = j
      <4>1. \A v \in ts2[i].receipts : i[2] \in tr2[v]
        BY <3>0, <3>2, <2>1, <1>j DEF Good, Once
      <4>2. ts[j].st # "none" => i[2] \in tr2[i[1]]  BY <3>0, <3>2, <2>1 DEF Good, Once
      <4>3. j = <<u, k>> => i[2] \in tr2[i[1]]  BY <3>2, <2>1
      <4>4. s # "none" => ts[j].st # "none" \/ j = <<u, k>>  OBVIOUS
      <4>5. QED  BY <4>1, <4>2, <4>3, <4>4, <3>2, <1>j
    <3>3. QED  BY <3>1, <3>2
  <2>3. QED  BY <2>2 DEF Once
<1>4. Counted(ts2, rs2)
  <2>1. ASSUME NEW v \in LaneUpdates
        PROVE  /\ rs2[v].pending = Cardinality(Owed(ts2, v))
               /\ rs2[v].settled => rs2[v].sealed /\ rs2[v].pending = 0
    <3>1. CASE v # u
      <4>1. Owed(ts2, v) = Owed(ts, v)  BY <3>1, <1>j DEF Owed
      <4>2. QED  BY <3>1, <4>1, <1>r DEF Good, Counted
    <3>2. CASE v = u
      <4>1. Owed(ts2, u) = Owed(ts, u) \cup {j} /\ j \notin Owed(ts, u)
        BY <1>j, <1>n DEF Owed
      <4>2. Owed(ts, u) \subseteq P!Jobs  BY DEF Owed
      <4>3. Cardinality(Owed(ts2, u)) = Cardinality(Owed(ts, u)) + 1
        BY <4>1, <4>2, JobsFinite, FS_AddElement
      <4>4. rs[u].pending = Cardinality(Owed(ts, u)) /\ ~rs[u].settled  BY DEF Good, Counted
      <4>5. QED  BY <3>2, <4>3, <4>4, <1>r
    <3>3. QED  BY <3>1, <3>2
  <2>2. QED  BY <2>1 DEF Counted
<1>5. Awaited(ts2, rs2, at2)
  <2>1. ASSUME NEW v \in LaneUpdates, NEW i \in at2[v]
        PROVE  \/ v \in ts2[i].receipts
               \/ ts2[i].st = "ended" /\ (rs2[v].succeeded => ts2[i].outcome = "ok")
    <3>1. rs2[v].succeeded = rs[v].succeeded  BY <1>r
    <3>2. i \in at[v] \/ (v = u /\ i = j)  BY <1>t DEF Typed, With
    <3>3. CASE v = u /\ i = j  BY <3>3, <1>j
    <3>4. CASE i \in at[v]
      <4>1. i \in P!Jobs  BY <3>4, <1>t DEF Typed
      <4>2. v \in ts[i].receipts \/ (ts[i].st = "ended" /\ (rs[v].succeeded
                => ts[i].outcome = "ok"))
        BY <3>4 DEF Good, Awaited
      <4>3. CASE i # j  BY <3>1, <4>1, <4>2, <4>3, <1>j
      <4>4. CASE i = j /\ s = ts[j].st  BY <3>1, <4>2, <4>4, <1>j
      <4>5. CASE i = j /\ ks[k] = P!Untracked  BY <3>1, <4>2, <4>5, <1>j, <1>n
      <4>6. QED  BY <4>3, <4>4, <4>5
    <3>5. QED  BY <3>2, <3>3, <3>4
  <2>2. QED  BY <2>1 DEF Awaited
<1>6. QED  BY <1>1, <1>2, <1>3, <1>4, <1>5 DEF Good

\* A submission that is refused only remembers the key.
LEMMA RefusalKeeps ==
  ASSUME NEW ts, NEW ks, NEW rs, NEW at, NEW tr, Good(ts, ks, rs, at, tr),
         NEW u \in LaneUpdates, NEW k \in Keys
  PROVE  Good(ts, ks, rs, at, With(tr, u, k))
<1> DEFINE tr2 == With(tr, u, k)
<1>t. Typed(ts, ks, rs, at, tr)  BY DEF Good
<1>1. tr2 \in [LaneUpdates -> SUBSET Keys] /\ \A v \in LaneUpdates : tr[v] \subseteq tr2[v]
  BY <1>t DEF Typed, With
<1>2. Typed(ts, ks, rs, at, tr2)  BY <1>t, <1>1 DEF Typed
<1>3. Once(ts, tr2)
  <2>1. \A i \in P!Jobs : i[1] \in LaneUpdates /\ ts[i].receipts \subseteq LaneUpdates
    BY <1>t, JobParts DEF Typed, JobRecord
  <2>2. QED  BY <1>1, <2>1 DEF Good, Once
<1>4. QED  BY <1>2, <1>3 DEF Good

\* finish() leaves the seal of a receipt alone.
LEMMA SealKept ==
  ASSUME LaneInv, NEW js, NEW ok \in BOOLEAN, NEW u \in LaneUpdates
  PROVE  P!Finished(js, ok)[u].sealed = receipt[u].sealed
<1>1. receipt[u] \in ReceiptRecord  BY DEF LaneInv, Good, Typed
<1>2. QED  BY <1>1 DEF P!Finished, ReceiptRecord

-----------------------------------------------------------------------------
(* The invariant, action by action *)

\* wait() keeps the invariant.
LEMMA SealKeeps ==
  ASSUME LaneInv, NEW u \in LaneUpdates, P!Seal(u)
  PROVE  LaneInv'
<1>t. Typed(tasks, byKey, receipt, attached, tried)  BY DEF LaneInv, Good
<1>1. /\ receipt' \in [LaneUpdates -> ReceiptRecord]
      /\ \A v \in LaneUpdates : /\ receipt'[v].pending = receipt[v].pending
                                /\ receipt'[v].succeeded = receipt[v].succeeded
      /\ \A v \in LaneUpdates \ {u} : receipt'[v] = receipt[v]
      /\ receipt'[u].sealed
      /\ receipt'[u].settled => receipt[u].settled \/ receipt[u].pending = 0
  BY <1>t DEF P!Seal, Typed, ReceiptRecord
<1>u. UNCHANGED <<tasks, byKey, attached, tried>>  BY DEF P!Seal
<1>2. Typed(tasks, byKey, receipt', attached, tried)  BY <1>t, <1>1 DEF Typed
<1>3. Counted(tasks, receipt')  BY <1>1 DEF LaneInv, Good, Counted
<1>4. Awaited(tasks, receipt', attached)  BY <1>1 DEF LaneInv, Good, Awaited
<1>5. Good(tasks, byKey, receipt', attached, tried)  BY <1>2, <1>3, <1>4 DEF LaneInv, Good
<1>6. QED  BY <1>5, <1>u DEF LaneInv

\* submit_privileged_task keeps the invariant: the discarding, then the joining.
LEMMA SubmitKeeps ==
  ASSUME Finitely, LaneInv, NEW u \in LaneUpdates, NEW k \in Keys, P!Submit(u, k)
  PROVE  LaneInv'
<1> DEFINE ts == P!Over(P!Expired, FALSE)
           ks == P!Released(P!Expired)
           rs == P!Finished(P!Expired, FALSE)
<1>1. Good(ts, ks, rs, attached, tried)
  <2>1. P!Expired \subseteq P!Jobs /\ \A j \in P!Expired : Waits(tasks, j)
    BY DEF P!Expired, P!Queued, P!At, Waits
  <2>2. QED  BY <2>1, FinishKeeps
<1>2. ~rs[u].sealed  BY SealKept DEF P!Submit
<1>3. k \notin tried[u] /\ tried' = With(tried, u, k)  BY DEF P!Submit, With
<1>4. \A j, s : P!Attach(ts, rs, u, j, s) =>
        /\ tasks' = Joined(ts, j, u, s) /\ receipt' = OneMore(rs, u)
        /\ attached' = With(attached, u, j)
  BY DEF P!Attach, Joined, OneMore, With
<1>t. Typed(ts, ks, rs, attached, tried)  BY <1>1 DEF Good
<1> HIDE DEF ts, ks, rs
<1>5. CASE ks[k] # P!Untracked /\ byKey' = ks /\ P!Attach(ts, rs, u, ks[k], ts[ks[k]].st)
  <2>1. ks[k] \in P!Jobs /\ ks[k][2] = k  BY <1>1, <1>5, <1>t DEF Typed, Good, Tracked
  <2> DEFINE j == ks[k]
             s == ts[j].st
  <2>2. /\ tasks' = Joined(ts, j, u, s) /\ receipt' = OneMore(rs, u)
        /\ attached' = With(attached, u, j)
    BY <1>4, <1>5
  <2>3. \/ ks[k] = j /\ s = ts[j].st /\ byKey' = ks
        \/ ks[k] = P!Untracked /\ j = <<u, k>> /\ s = "queued" /\ byKey' = Tracking(ks, k, j)
    BY <1>5
  <2>4. j \in P!Jobs /\ j[2] = k  BY <2>1
  <2> HIDE DEF j, s
  <2>5. Good(Joined(ts, j, u, s), byKey', OneMore(rs, u), With(attached, u, j),
             With(tried, u, k))
    BY <1>1, <1>2, <1>3, <2>3, <2>4, AttachKeeps
  <2>6. QED  BY <1>3, <2>2, <2>5 DEF LaneInv
<1>6. CASE /\ ks[k] = P!Untracked /\ byKey' = Tracking(ks, k, <<u, k>>)
           /\ P!Attach(ts, rs, u, <<u, k>>, "queued")
  <2>1. <<u, k>> \in P!Jobs /\ <<u, k>>[2] = k  BY DEF P!Jobs
  <2> DEFINE j == <<u, k>>
             s == "queued"
  <2>2. /\ tasks' = Joined(ts, j, u, s) /\ receipt' = OneMore(rs, u)
        /\ attached' = With(attached, u, j)
    BY <1>4, <1>6
  <2>3. \/ ks[k] = j /\ s = ts[j].st /\ byKey' = ks
        \/ ks[k] = P!Untracked /\ j = <<u, k>> /\ s = "queued" /\ byKey' = Tracking(ks, k, j)
    BY <1>6
  <2>4. j \in P!Jobs /\ j[2] = k  BY <2>1
  <2> HIDE DEF j, s
  <2>5. Good(Joined(ts, j, u, s), byKey', OneMore(rs, u), With(attached, u, j),
             With(tried, u, k))
    BY <1>1, <1>2, <1>3, <2>3, <2>4, AttachKeeps
  <2>6. QED  BY <1>3, <2>2, <2>5 DEF LaneInv
<1>7. CASE tasks' = ts /\ byKey' = ks /\ receipt' = rs /\ UNCHANGED attached
  BY <1>1, <1>3, <1>7, RefusalKeeps DEF LaneInv
<1>8. QED  BY <1>5, <1>6, <1>7 DEF P!Submit, ts, ks, rs, Tracking

\* A step that ends jobs keeps the invariant.
LEMMA OverKeeps ==
  ASSUME Finitely, LaneInv, NEW js, js \subseteq P!Jobs, \A j \in js : Waits(tasks, j),
         NEW ok \in BOOLEAN, P!Finish(js, ok), UNCHANGED <<attached, tried>>
  PROVE  LaneInv'
  BY FinishKeeps DEF P!Finish, LaneInv

\* A step that moves one job on keeps the invariant.
LEMMA MovingKeeps ==
  ASSUME LaneInv, NEW j \in P!Jobs, NEW s \in {"run", "grace", "orphan"}, Waits(tasks, j),
         tasks' = [tasks EXCEPT ![j].st = s], UNCHANGED <<byKey, receipt, attached, tried>>
  PROVE  LaneInv'
<1>1. tasks \in [P!Jobs -> JobRecord]  BY DEF LaneInv, Good, Typed
<1>2. tasks' \in [P!Jobs -> JobRecord]  BY <1>1 DEF JobRecord
<1>3. ASSUME NEW i \in P!Jobs
      PROVE  /\ tasks'[i].receipts = tasks[i].receipts
             /\ tasks'[i].outcome = tasks[i].outcome
             /\ Waits(tasks', i) = Waits(tasks, i)
             /\ (tasks'[i].st = "none") = (tasks[i].st = "none")
             /\ (tasks'[i].st = "ended") = (tasks[i].st = "ended")
  <2>1. CASE i = j
    <3>1. tasks'[i].st = s /\ tasks'[i].receipts = tasks[i].receipts
          /\ tasks'[i].outcome = tasks[i].outcome
      BY <1>1, <2>1 DEF JobRecord
    <3>2. QED  BY <2>1, <3>1 DEF Waits
  <2>2. CASE i # j
    <3>1. tasks'[i] = tasks[i]  BY <1>1, <2>2
    <3>2. QED  BY <3>1 DEF Waits
  <2>3. QED  BY <2>1, <2>2
<1>4. Good(tasks', byKey, receipt, attached, tried)  BY <1>2, <1>3, MoveKeeps
<1>5. QED  BY <1>4 DEF LaneInv

\* A deadline that passes keeps the invariant.
LEMMA DeadlineKeeps ==
  ASSUME LaneInv, NEW j \in P!Jobs, P!DeadlinePasses(j)
  PROVE  LaneInv'
<1>1. tasks \in [P!Jobs -> JobRecord]  BY DEF LaneInv, Good, Typed
<1>2. tasks' = [tasks EXCEPT ![j].overdue = TRUE]  BY DEF P!DeadlinePasses
<1>3. tasks' \in [P!Jobs -> JobRecord]  BY <1>1, <1>2 DEF JobRecord
<1>4. \A i \in P!Jobs : /\ tasks'[i].receipts = tasks[i].receipts
                        /\ tasks'[i].outcome = tasks[i].outcome
                        /\ tasks'[i].st = tasks[i].st
  BY <1>1, <1>2 DEF JobRecord
<1>5. \A i \in P!Jobs : Waits(tasks', i) = Waits(tasks, i)  BY <1>4 DEF Waits
<1>6. Good(tasks', byKey, receipt, attached, tried)  BY <1>3, <1>4, <1>5, MoveKeeps
<1>7. QED  BY <1>6 DEF LaneInv, P!DeadlinePasses

\* A job that is cancelled while it runs gets its grace.
Graced(r) == [r EXCEPT !.st = "grace"]

\* Grace changes nothing else of a job.
LEMMA GracedForm ==
  \A r \in JobRecord : /\ Graced(r) \in JobRecord /\ Graced(r).st = "grace"
                     /\ Graced(r).receipts = r.receipts /\ Graced(r).outcome = r.outcome
  BY DEF JobRecord, Graced

\* The cancelling of the workers keeps the invariant.
LEMMA CancelKeeps ==
  ASSUME LaneInv, P!CancelAll
  PROVE  LaneInv'
<1>1. tasks \in [P!Jobs -> JobRecord]  BY DEF LaneInv, Good, Typed
<1>a. tasks' = [j \in P!Jobs |-> IF tasks[j].st = "run" THEN Graced(tasks[j]) ELSE tasks[j]]
  BY DEF P!CancelAll, P!At, Graced
<1>2. \A i \in P!Jobs :
        tasks'[i] = IF tasks[i].st = "run" THEN Graced(tasks[i]) ELSE tasks[i]
  BY ONLY <1>a
<1>3. ASSUME NEW i \in P!Jobs
      PROVE  /\ tasks'[i].receipts = tasks[i].receipts
             /\ tasks'[i].outcome = tasks[i].outcome
             /\ tasks'[i] \in JobRecord
             /\ Waits(tasks', i) = Waits(tasks, i)
             /\ (tasks'[i].st = "none") = (tasks[i].st = "none")
             /\ (tasks'[i].st = "ended") = (tasks[i].st = "ended")
  <2>1. CASE tasks[i].st = "run"
    <3>1. tasks[i] \in JobRecord /\ tasks[i].st = "run"  BY <1>1, <2>1
    <3>2. /\ tasks'[i].st = "grace" /\ tasks'[i].receipts = tasks[i].receipts
          /\ tasks'[i].outcome = tasks[i].outcome /\ tasks'[i] \in JobRecord
      BY <1>2, <2>1, <3>1, GracedForm
    <3>3. QED  BY <3>1, <3>2 DEF Waits
  <2>2. CASE tasks[i].st # "run"
    <3>1. tasks'[i] = tasks[i] /\ tasks[i] \in JobRecord  BY <1>1, <1>2, <2>2
    <3>2. QED  BY <3>1 DEF Waits
  <2>3. QED  BY <2>1, <2>2
<1>4. tasks' \in [P!Jobs -> JobRecord]  BY <1>3 DEF P!CancelAll
<1>5. Good(tasks', byKey, receipt, attached, tried)  BY <1>3, <1>4, MoveKeeps
<1>6. QED  BY <1>5 DEF LaneInv, P!CancelAll

\* The invariant holds of an empty lane.
LEMMA InitGood == ASSUME Finitely, P!Init PROVE LaneInv
<1>1. Typed(tasks, byKey, receipt, attached, tried)
  BY DEF P!Init, Typed, JobRecord, ReceiptRecord, P!Unqueued
<1>2. Tracked(tasks, byKey)
  <2>1. \A j \in P!Jobs : ~Waits(tasks, j)  BY DEF P!Init, P!Unqueued, Waits
  <2>2. \A k \in Keys : byKey[k] \notin P!Jobs  BY JobParts DEF P!Init
  <2>3. QED  BY <2>1, <2>2 DEF Tracked
<1>3. Once(tasks, tried)  BY DEF P!Init, P!Unqueued, Once
<1>4. Counted(tasks, receipt)
  <2>1. \A u \in LaneUpdates : Owed(tasks, u) = {}  BY DEF P!Init, P!Unqueued, Owed
  <2>2. QED  BY <2>1, FS_EmptySet DEF P!Init, Counted
<1>5. Awaited(tasks, receipt, attached)  BY DEF P!Init, Awaited
<1>6. QED  BY <1>1, <1>2, <1>3, <1>4, <1>5 DEF LaneInv, Good

\* Every step of the lane keeps the invariant.
LEMMA NextGood == ASSUME Finitely, LaneInv, [P!Next]_laneVars PROVE LaneInv'
<1>1. ASSUME NEW u \in LaneUpdates, P!Seal(u)  PROVE LaneInv'  BY <1>1, SealKeeps
<1>2. ASSUME NEW u \in LaneUpdates, NEW k \in Keys, P!Submit(u, k)  PROVE LaneInv'
  BY <1>2, SubmitKeeps
<1>3. ASSUME NEW j \in P!Jobs, P!DeadlinePasses(j)  PROVE LaneInv'  BY <1>3, DeadlineKeeps
<1>4. ASSUME NEW j \in P!Jobs, P!Start(j)  PROVE LaneInv'
  <2>1. Waits(tasks, j)  BY <1>4 DEF P!Start, P!At, Waits
  <2>2. CASE tasks[j].overdue
    <3>1. {j} \subseteq P!Jobs /\ \A i \in {j} : Waits(tasks, i)  BY <2>1
    <3>2. P!Finish({j}, FALSE) /\ UNCHANGED <<attached, tried>>  BY <1>4, <2>2 DEF P!Start
    <3>3. QED  BY <3>1, <3>2, OverKeeps
  <2>3. CASE ~tasks[j].overdue  BY <1>4, <2>1, <2>3, MovingKeeps DEF P!Start
  <2>4. QED  BY <2>2, <2>3
<1>5. ASSUME NEW j \in P!Jobs, P!Overrun(j)  PROVE LaneInv'
  <2>1. Waits(tasks, j)  BY <1>5 DEF P!Overrun, P!At, Waits
  <2>2. QED  BY <1>5, <2>1, MovingKeeps DEF P!Overrun
<1>6. ASSUME NEW j \in P!Jobs, NEW ok \in BOOLEAN, P!OperationEnds(j, ok)  PROVE LaneInv'
  <2>1. {j} \subseteq P!Jobs /\ \A i \in {j} : Waits(tasks, i)
    BY <1>6 DEF P!OperationEnds, P!Live, Waits
  <2>2. /\ (ok /\ ~P!At(j, "grace")) \in BOOLEAN /\ P!Finish({j}, ok /\ ~P!At(j, "grace"))
        /\ UNCHANGED <<attached, tried>>
    BY <1>6 DEF P!OperationEnds
  <2>3. QED  BY <2>1, <2>2, OverKeeps
<1>7. CASE P!Reap
  <2>1. P!Expired \subseteq P!Jobs /\ \A j \in P!Expired : Waits(tasks, j)
    BY DEF P!Expired, P!Queued, P!At, Waits
  <2>2. QED  BY <1>7, <2>1, OverKeeps DEF P!Reap
<1>8. CASE P!Discard
  <2>1. P!Queued \subseteq P!Jobs /\ \A j \in P!Queued : Waits(tasks, j)
    BY DEF P!Queued, P!At, Waits
  <2>2. QED  BY <1>8, <2>1, OverKeeps DEF P!Discard
<1>9. CASE P!BeginFlush  BY <1>9 DEF P!BeginFlush, LaneInv
<1>10. CASE P!CancelAll  BY <1>10, CancelKeeps
<1>11. CASE UNCHANGED laneVars  BY <1>11 DEF laneVars, LaneInv
<1>12. QED
  BY <1>1, <1>2, <1>3, <1>4, <1>5, <1>6, <1>7, <1>8, <1>9, <1>10, <1>11 DEF P!Next

-----------------------------------------------------------------------------
(* The theorems *)

\* Two operations of one key never run together.
LEMMA LaneExclusive == ASSUME LaneInv PROVE P!OneOperationPerKey
<1>1. \A j \in P!Jobs : P!Live(j) => Waits(tasks, j)  BY DEF P!Live, Waits
<1>2. QED  BY <1>1 DEF LaneInv, Good, Tracked, P!OneOperationPerKey

\* What is settled has nobody left to wait for.
LEMMA LaneHonest == ASSUME Finitely, LaneInv PROVE P!ReceiptsHonest
<1>1. ASSUME NEW u \in LaneUpdates, receipt[u].settled, NEW j \in attached[u]
      PROVE  ~P!Live(j) /\ (receipt[u].succeeded => tasks[j].outcome = "ok")
  <2>1. j \in P!Jobs  BY <1>1 DEF LaneInv, Good, Typed
  <2>2. Cardinality(Owed(tasks, u)) = 0  BY <1>1 DEF LaneInv, Good, Counted
  <2>3. Owed(tasks, u) \subseteq P!Jobs  BY DEF Owed
  <2>4. Owed(tasks, u) = {}  BY <2>2, <2>3, JobsFinite, FS_EmptySet
  <2>5. u \notin tasks[j].receipts  BY <2>1, <2>4 DEF Owed
  <2>6. QED  BY <1>1, <2>5 DEF LaneInv, Good, Awaited, P!Live
<1>2. QED  BY <1>1 DEF P!ReceiptsHonest

\* The invariant of a lane: the tracked job of a key is the only one of it that may
\* act, and a receipt counts exactly the jobs that still hold it.
THEOREM LaneInvariant ==
  ASSUME Finitely
  PROVE  P!Init /\ [][P!Next]_laneVars => []LaneInv
<1>1. P!Init => LaneInv  BY InitGood
<1>2. LaneInv /\ [P!Next]_laneVars => LaneInv'  BY NextGood
<1>3. QED  BY <1>1, <1>2, PTL

\* Two operations of one key never run together, past the deadline and through the
\* shutdown (_track_orphaned_execution, flush_privileged_tasks).
THEOREM KeyExclusive ==
  ASSUME Finitely
  PROVE  P!Spec => []P!OneOperationPerKey
  BY LaneExclusive, LaneInvariant, PTL DEF P!Spec, P!laneVars, laneVars

\* An update is reported only when every operation its handlers wait for is over,
\* and as done only when each of them succeeded (update_completion.py, finish).
THEOREM HonestReceipts ==
  ASSUME Finitely
  PROVE  P!Spec => []P!ReceiptsHonest
  BY LaneHonest, LaneInvariant, PTL DEF P!Spec, P!laneVars, laneVars

-----------------------------------------------------------------------------
(* The life of the process: ProcessLife *)

\* The steps that are left are the end of the list of n steps that main goes through.
Rest == Len(todo)
RestOf(list, n) == Rest <= n /\ \A i \in 1..Rest : todo[i] = list[n - Rest + i]

\* What the order of start and shutdown comes to.
InOrder ==
  /\ todo \in Seq(X!Steps)
  /\ phase = "start" => todo # <<>> /\ RestOf(X!Start, 7)
  /\ phase = "shutdown" => RestOf(X!Shutdown, 19)
  /\ phase \in {"close", "gone"} => todo = <<>>

\* No update is taken before the process serves, and none after a failed start.
NothingTaken == phase \in {"start", "abort"} \/ aborted # "no" => \A u \in Leased :
    lifeHeld[u] = "away"

\* What a step of the shutdown was to take away is gone, unless the step, or one before it
\* that feeds it, overran; Rest tells which steps are over.
Emptied ==
  phase = "shutdown" => \A u \in Leased :
    /\ lifeHeld[u] = "worker" /\ Rest <= 16 => "quiesce" \in overran
    /\ lifeHeld[u] = "worker" /\ Rest <= 5 => "finalizers" \in overran
    /\ lifeHeld[u] = "privileged" /\ Rest <= 15 => {"quiesce", "privileged"} \cap overran # {}
    /\ lifeHeld[u] = "batch" /\ Rest <= 12 => {"quiesce", "batches"} \cap overran # {}
    /\ lifeHeld[u] = "memory" /\ Rest <= 11 => X!Behind("memory") \cap overran # {}
    /\ lifeHeld[u] = "done" /\ Rest <= 5 => X!Behind("done") \cap overran # {}

\* What is open is still to be closed, or its step overran.
ToClose ==
  /\ phase = "start" =>
       /\ "engine" \in lifeOpen => Rest < 7
       /\ "session" \in lifeOpen => Rest < 4
       /\ "cleanup" \in lifeOpen => Rest < 3
  /\ phase \in {"abort", "shutdown"} /\ aborted # "operators" =>
       \A s \in lifeOpen : X!Left(s) \/ s \in overran

\* What main leaves behind when the loop closes.
GivenBack ==
  phase = "close" =>
    \A u \in Leased : lifeHeld[u] \in X!Over \/ X!Behind(lifeHeld[u]) \cap overran # {}

\* A service that has failed as often as it may has ended.
Ended == ~ended => failedPasses < MaxFailedPasses

\* The inductive invariant of a process.
LifeInv ==
  /\ X!TypeOK /\ InOrder /\ NothingTaken /\ Emptied /\ ToClose /\ GivenBack /\ X!ClosedBehind
  /\ Ended

-----------------------------------------------------------------------------
\* The two lists.
LEMMA Lists ==
  /\ X!Start \in Seq(X!Steps) /\ Len(X!Start) = 7 /\ X!Shutdown \in Seq(X!Steps)
      /\ Len(X!Shutdown) = 19
  /\ {"engine", "session", "cleanup"} \subseteq X!Steps
<1>1. Len(X!Start) = 7 /\ DOMAIN X!Start = 1..7  BY DEF X!Start
<1>2. Len(X!Shutdown) = 19 /\ DOMAIN X!Shutdown = 1..19  BY DEF X!Shutdown
<1>3. \A i \in 1..7 : X!Start[i] \in X!Steps  BY <1>1 DEF X!Steps
<1>4. \A i \in 1..19 : X!Shutdown[i] \in X!Steps  BY <1>2 DEF X!Steps
<1>5. {"engine", "services", "operators", "session", "identity", "construct", "recovery"}
        \subseteq X!Steps
  BY <1>3 DEF X!Start
<1>6. X!Start \in Seq(X!Steps)  BY <1>5 DEF X!Start
<1>7. {"runners", "control", "quiesce", "privileged", "raid", "patrol", "batches", "memory",
       "skills", "requests", "clients", "votes", "kicks", "finalizers", "web", "cleanup",
       "sends", "session", "engine"} \subseteq X!Steps
  BY <1>4 DEF X!Shutdown
<1>8. X!Shutdown \in Seq(X!Steps)  BY <1>7 DEF X!Shutdown
<1>9. QED  BY <1>1, <1>2, <1>5, <1>6, <1>7, <1>8

\* The engine, the connector and the cleanup are closed by steps of the shutdown.
LEMMA AllInShutdown ==
  \A s \in {"engine", "session", "cleanup"} : \E i \in DOMAIN X!Shutdown : X!Shutdown[i] = s
<1>1. X!Shutdown[19] = "engine" /\ X!Shutdown[18] = "session" /\ X!Shutdown[16] = "cleanup"
  BY DEF X!Shutdown
<1>2. DOMAIN X!Shutdown = 1..19  BY DEF X!Shutdown
<1>3. QED  BY <1>1, <1>2

\* The initial state satisfies the invariant.
LEMMA InitLife == ASSUME X!LifeAssumption, X!Init PROVE LifeInv
<1>1. X!TypeOK
  <2>0. todo \in Seq(X!Steps)  BY Lists DEF X!Init
  <2>1. \A i \in DOMAIN todo : todo[i] \in X!Steps  BY <2>0
  <2>2. lifeHeld \in [Leased -> X!Owners \cup {"done"} \cup X!Over]  BY DEF X!Init, X!Over
  <2>3. MaxFailedPasses \in Nat /\ MaxFreezes \in Nat  BY DEF X!LifeAssumption
  <2>4. /\ phase = "start" /\ lifeOpen = {} /\ failedPasses = 0 /\ ended = FALSE
            /\ frozen = FALSE
        /\ stuck = FALSE /\ killed = FALSE /\ overran = {} /\ aborted = "no" /\ freezes = 0
    BY DEF X!Init
  <2>5. failedPasses \in 0..MaxFailedPasses /\ freezes \in 0..MaxFreezes  BY <2>3, <2>4
  <2>6. /\ lifeOpen \subseteq {"engine", "session", "cleanup"} /\ overran \subseteq X!Steps
        /\ aborted \in X!Steps \cup {"no"}
    BY <2>4
  <2>7. ended \in BOOLEAN /\ frozen \in BOOLEAN /\ stuck \in BOOLEAN /\ killed \in BOOLEAN
    BY <2>4
  <2>8. QED  BY <2>1, <2>2, <2>4, <2>5, <2>6, <2>7 DEF X!TypeOK
<1>2. InOrder
  <2>1. todo = X!Start /\ phase = "start"  BY DEF X!Init
  <2>2. Rest = 7 /\ todo # <<>> /\ todo \in Seq(X!Steps)  BY <2>1, Lists DEF Rest
  <2>3. RestOf(X!Start, 7)  BY <2>1, <2>2 DEF RestOf
  <2>4. QED  BY <2>1, <2>2, <2>3 DEF InOrder
<1>3. NothingTaken /\ Emptied /\ ToClose /\ GivenBack /\ X!ClosedBehind /\ Ended
  BY DEF X!Init, NothingTaken, Emptied, ToClose, GivenBack, X!ClosedBehind, Ended,
     X!LifeAssumption
<1>4. QED  BY <1>1, <1>2, <1>3 DEF LifeInv

-----------------------------------------------------------------------------
\* The step that is next is the first of the rest, and the others are the rest behind it.
LEMMA NextOf ==
  ASSUME todo \in Seq(X!Steps), todo # <<>>, NEW list, NEW n \in Nat, RestOf(list, n),
         todo' = Tail(todo)
  PROVE  /\ Rest \in Nat /\ Rest >= 1 /\ Rest <= n /\ Rest' = Rest - 1
         /\ Head(todo) = list[n + 1 - Rest] /\ todo' \in Seq(X!Steps) /\ RestOf(list, n)'
         /\ Rest' = 0 => todo' = <<>>
<1>1. /\ Rest \in Nat /\ Rest >= 1 /\ Head(todo) = todo[1] /\ Rest' = Rest - 1
      /\ todo' \in Seq(X!Steps) /\ \A i \in 1..Rest' : todo'[i] = todo[i + 1]
      /\ Rest' = 0 => todo' = <<>>
  BY DEF Rest
<1>2. ASSUME NEW i \in 1..Rest' PROVE todo'[i] = list[n - Rest' + i]
  <2>1. i + 1 \in 1..Rest  BY <1>1
  <2>2. todo[i + 1] = list[n - Rest + (i + 1)]  BY <2>1 DEF RestOf
  <2>3. n - Rest + (i + 1) = n - Rest' + i  BY <1>1
  <2>4. QED  BY <1>1, <2>2, <2>3
<1>3. Rest <= n /\ Head(todo) = list[n + 1 - Rest]
  <2>1. Rest <= n /\ 1 \in 1..Rest /\ n - Rest + 1 = n + 1 - Rest  BY <1>1 DEF RestOf
  <2>2. QED  BY <1>1, <2>1 DEF RestOf
<1>4. Rest' <= n  BY <1>1, <1>3
<1>5. RestOf(list, n)'  BY <1>2, <1>4 DEF RestOf
<1>6. QED  BY <1>1, <1>3, <1>5

\* What is left behind a step: itself or one of the rest.
LEMMA LeftBehind ==
  ASSUME todo \in Seq(X!Steps), todo # <<>>, todo' = Tail(todo), NEW s, X!Left(s)
  PROVE  s = Head(todo) \/ X!Left(s)'
<1>1. PICK i \in 1..Len(todo) : todo[i] = s  BY DEF X!Left
<1>2. CASE i = 1  BY <1>1, <1>2
<1>3. CASE i # 1
  <2>1. i - 1 \in 1..Len(todo') /\ todo'[i - 1] = todo[i]  BY <1>3
  <2>2. i - 1 \in DOMAIN todo'  BY <2>1
  <2>3. QED  BY <1>1, <2>1, <2>2 DEF X!Left
<1>4. QED  BY <1>2, <1>3

\* The finalizers are left as long as at least six steps are.
LEMMA FinalizersLeft ==
  ASSUME todo \in Seq(X!Steps), RestOf(X!Shutdown, 19)
  PROVE  /\ Rest \in Nat
         /\ X!Left("finalizers") <=> Rest >= 6
         /\ X!Left("quiesce") => Rest >= 17
<1>n. Rest \in Nat /\ DOMAIN todo = 1..Rest  BY DEF Rest
<1>2. Rest <= 19 /\ \A i \in 1..Rest : todo[i] = X!Shutdown[19 - Rest + i]  BY <1>n DEF RestOf
<1>f. X!Shutdown[14] = "finalizers"  BY DEF X!Shutdown
<1>g. \A j \in Nat : 1 <= j /\ j <= 19 /\ X!Shutdown[j] = "finalizers" => j = 14
  BY SMTT(60) DEF X!Shutdown
<1>q. \A j \in Nat : 1 <= j /\ j <= 19 /\ X!Shutdown[j] = "quiesce" => j = 3
  BY SMTT(60) DEF X!Shutdown
<1>3. /\ \A j \in Nat : 1 <= j /\ j <= 19 /\ X!Shutdown[j] = "finalizers" => j = 14
      /\ \A j \in Nat : 1 <= j /\ j <= 19 /\ X!Shutdown[j] = "quiesce" => j = 3
      /\ X!Shutdown[14] = "finalizers"
  BY <1>f, <1>g, <1>q
<1>4. ASSUME Rest >= 6 PROVE X!Left("finalizers")
  <2>1. Rest - 5 \in 1..Rest /\ 19 - Rest + (Rest - 5) = 14  BY <1>n, <1>4
  <2>2. todo[Rest - 5] = X!Shutdown[14]  BY <1>2, <2>1
  <2>3. QED  BY <1>n, <1>3, <2>1, <2>2 DEF X!Left
<1>5. ASSUME NEW i \in 1..Rest
      PROVE  /\ 19 - Rest + i \in Nat /\ 1 <= 19 - Rest + i /\ 19 - Rest + i <= 19
             /\ todo[i] = X!Shutdown[19 - Rest + i]
  BY <1>n, <1>2
<1>6. ASSUME NEW i \in 1..Rest, todo[i] = "finalizers" PROVE Rest >= 6
  <2>1. 19 - Rest + i = 14  BY <1>3, <1>5, <1>6
  <2>2. QED  BY <1>n, <2>1
<1>7. ASSUME NEW i \in 1..Rest, todo[i] = "quiesce" PROVE Rest >= 17
  <2>1. 19 - Rest + i = 3  BY <1>3, <1>5, <1>7
  <2>2. QED  BY <1>n, <2>1
<1>8. QED  BY <1>n, <1>4, <1>6, <1>7 DEF X!Left

-----------------------------------------------------------------------------
\* The start: what is open is to be closed by the rest of it, or by what main closes when
\* the step fails.
LEMMA StartKeeps == ASSUME X!LifeAssumption, LifeInv, X!StartStep PROVE LifeInv'
<1>t. X!TypeOK /\ InOrder /\ RestOf(X!Start, 7) /\ todo \in Seq(X!Steps) /\ todo # <<>>
  BY DEF LifeInv, InOrder, X!StartStep
<1>s. /\ phase = "start" /\ todo' = Tail(todo) /\ lifeOpen' = lifeOpen \cup X!Opens(Head(todo))
      /\ phase' = IF Len(todo) = 1 THEN "serve" ELSE "start"
      /\ UNCHANGED <<lifeHeld, failedPasses, ended, frozen, stuck, overran, aborted, killed,
                     freezes>>
  BY DEF X!StartStep, X!Goes
<1>n. /\ Rest \in Nat /\ Rest >= 1 /\ Rest <= 7 /\ Rest' = Rest - 1
      /\ Head(todo) = X!Start[8 - Rest] /\ todo' \in Seq(X!Steps) /\ RestOf(X!Start, 7)'
      /\ Rest' = 0 => todo' = <<>>
  BY <1>t, <1>s, NextOf
<1>1. X!TypeOK'
  <2>1. \A i \in DOMAIN todo' : todo'[i] \in X!Steps  BY <1>n
  <2>2. lifeOpen' \subseteq {"engine", "session", "cleanup"}
    BY <1>t, <1>s DEF X!TypeOK, X!Opens
  <2>3. phase' \in {"start", "serve"}  BY <1>s
  <2>4. QED  BY <1>t, <1>s, <2>1, <2>2, <2>3 DEF X!TypeOK
<1>2. InOrder'
  <2>1. phase' = "start" => todo' # <<>>
    <3>1. todo' = <<>> => Rest' = 0  BY DEF Rest
    <3>2. Rest = 1 => phase' = "serve"  BY <1>s DEF Rest
    <3>3. QED  BY <1>n, <3>1, <3>2
  <2>2. QED  BY <1>s, <1>n, <2>1 DEF InOrder
<1>3. NothingTaken' /\ Emptied' /\ GivenBack' /\ X!ClosedBehind' /\ Ended'
  BY <1>s DEF LifeInv, NothingTaken, Emptied, GivenBack, X!ClosedBehind, Ended
<1>4. ToClose'
  <2>1. /\ \A j \in Nat : 1 <= j /\ j <= 7 /\ X!Start[j] = "engine" => j = 1
        /\ \A j \in Nat : 1 <= j /\ j <= 7 /\ X!Start[j] = "session" => j = 4
        /\ \A j \in Nat : 1 <= j /\ j <= 7 /\ X!Start[j] = "identity" => j = 5
    BY DEF X!Start
  <2>2. 8 - Rest \in Nat /\ 1 <= 8 - Rest /\ 8 - Rest <= 7  BY <1>n
  <2>h. /\ Head(todo) = "engine" => Rest = 7
        /\ Head(todo) = "session" => Rest = 4
        /\ Head(todo) = "identity" => Rest = 3
    <3>1. /\ X!Start[8 - Rest] = "engine" => 8 - Rest = 1
          /\ X!Start[8 - Rest] = "session" => 8 - Rest = 4
          /\ X!Start[8 - Rest] = "identity" => 8 - Rest = 5
      BY <2>1, <2>2
    <3>2. /\ 8 - Rest = 1 => Rest = 7
          /\ 8 - Rest = 4 => Rest = 4
          /\ 8 - Rest = 5 => Rest = 3
      BY <1>n
    <3>3. QED  BY <1>n, <3>1, <3>2
  <2>3. /\ "engine" \in lifeOpen' => "engine" \in lifeOpen \/ Rest = 7
        /\ "session" \in lifeOpen' => "session" \in lifeOpen \/ Rest = 4
        /\ "cleanup" \in lifeOpen' => "cleanup" \in lifeOpen \/ Rest = 3
    BY <1>s, <2>h DEF X!Opens
  <2>4. /\ "engine" \in lifeOpen => Rest < 7
        /\ "session" \in lifeOpen => Rest < 4
        /\ "cleanup" \in lifeOpen => Rest < 3
    BY <1>s DEF LifeInv, ToClose
  <2>5. QED  BY <1>s, <1>n, <2>3, <2>4 DEF ToClose
<1>5. QED  BY <1>1, <1>2, <1>3, <1>4 DEF LifeInv

\* A start that fails keeps the invariant.
LEMMA StartFailsKeeps == ASSUME X!LifeAssumption, LifeInv, X!StartFails PROVE LifeInv'
<1>t. X!TypeOK /\ RestOf(X!Start, 7) /\ todo \in Seq(X!Steps) /\ todo # <<>>
  BY DEF LifeInv, InOrder, X!StartFails
<1>s. /\ phase = "start" /\ aborted' = Head(todo) /\ todo' = X!Closing(Head(todo))
      /\ phase' = IF Head(todo) = "recovery" THEN "shutdown" ELSE "abort"
      /\ UNCHANGED <<lifeHeld, failedPasses, ended, frozen, stuck, overran, killed, freezes>>
  BY DEF X!StartFails, X!Goes
<1>o. lifeOpen' \subseteq lifeOpen \cup (X!Opens(Head(todo)) \cap {"cleanup"})
  BY DEF X!StartFails
<1>n. Rest \in Nat /\ Rest >= 1 /\ Rest <= 7 /\ Head(todo) = X!Start[8 - Rest]
  <2>1. Rest \in Nat /\ Rest >= 1 /\ Head(todo) = todo[1]  BY <1>t DEF Rest
  <2>2. Rest <= 7 /\ 1 \in 1..Rest /\ 7 - Rest + 1 = 8 - Rest  BY <1>t, <2>1 DEF RestOf
  <2>3. QED  BY <1>t, <2>1, <2>2 DEF RestOf
<1>h. /\ Rest = 7 => Head(todo) = "engine"
      /\ Rest = 6 => Head(todo) = "services"
      /\ Rest = 5 => Head(todo) = "operators"
      /\ Rest = 4 => Head(todo) = "session"
      /\ Rest = 3 => Head(todo) = "identity"
      /\ Rest = 2 => Head(todo) = "construct"
      /\ Rest = 1 => Head(todo) = "recovery"
  BY <1>n DEF X!Start
<1>r. \/ Rest = 7 \/ Rest = 6 \/ Rest = 5 \/ Rest = 4 \/ Rest = 3 \/ Rest = 2 \/ Rest = 1
  BY <1>n
<1>c. /\ X!Closing("engine") = <<>> /\ X!Closing("services") = <<"engine">>
      /\ X!Closing("operators") = <<>> /\ X!Closing("session") = <<"engine">>
      /\ X!Closing("identity") = <<"cleanup", "session", "engine">>
      /\ X!Closing("construct") = <<"cleanup", "session", "engine">>
      /\ X!Closing("recovery") = X!Shutdown
  BY DEF X!Closing
<1>q. todo' \in Seq(X!Steps)
  <2>1. {"engine", "session", "cleanup"} \subseteq X!Steps  BY Lists
  <2>2. <<>> \in Seq(X!Steps) /\ <<"engine">> \in Seq(X!Steps)
        /\ <<"cleanup", "session", "engine">> \in Seq(X!Steps)
    BY <2>1
  <2>3. todo' \in {<<>>, <<"engine">>, <<"cleanup", "session", "engine">>, X!Shutdown}
    BY <1>s, <1>h, <1>r, <1>c
  <2>4. QED  BY <2>2, <2>3, Lists
<1>1. X!TypeOK'
  <2>1. \A i \in DOMAIN todo' : todo'[i] \in X!Steps  BY <1>q
  <2>2. lifeOpen' \subseteq {"engine", "session", "cleanup"}  BY <1>t, <1>o DEF X!TypeOK
  <2>3. phase' \in {"shutdown", "abort"} /\ aborted' \in X!Steps  BY <1>s, <1>t
  <2>4. QED  BY <1>t, <1>s, <2>1, <2>2, <2>3 DEF X!TypeOK
<1>2. InOrder'
  <2>1. CASE Head(todo) = "recovery"
    <3>1. todo' = X!Shutdown  BY <1>s, <1>c, <2>1
    <3>2. Rest' = 19  BY <3>1, Lists DEF Rest
    <3>3. RestOf(X!Shutdown, 19)'  BY <3>1, <3>2 DEF RestOf
    <3>4. QED  BY <1>q, <1>s, <2>1, <3>3 DEF InOrder
  <2>2. QED  BY <1>q, <1>s, <2>1 DEF InOrder
<1>3. NothingTaken' /\ GivenBack' /\ X!ClosedBehind' /\ Ended'
  BY <1>s DEF LifeInv, NothingTaken, GivenBack, X!ClosedBehind, Ended
<1>4. Emptied'
  <2>1. \A u \in Leased : lifeHeld'[u] = "away"  BY <1>s DEF LifeInv, NothingTaken
  <2>2. QED  BY <2>1 DEF Emptied
<1>5. ToClose'
  <2>1. /\ "engine" \in lifeOpen => Rest < 7
        /\ "session" \in lifeOpen => Rest < 4
        /\ "cleanup" \in lifeOpen => Rest < 3
    BY <1>s DEF LifeInv, ToClose
  <2>2. lifeOpen \subseteq {"engine", "session", "cleanup"}  BY <1>t DEF X!TypeOK
  <2>3. CASE Rest = 7
    <3>0. Head(todo) = "engine" /\ lifeOpen = {}  BY <1>h, <1>n, <2>1, <2>2, <2>3
    <3>1. lifeOpen' = {}  BY <1>o, <3>0 DEF X!Opens
    <3>2. QED  BY <1>s, <3>1 DEF ToClose
  <2>4. CASE Rest = 6 \/ Rest = 4
    <3>0. Head(todo) \in {"services", "session"} /\ lifeOpen \subseteq {"engine"}
      BY <1>h, <1>n, <2>1, <2>2, <2>4
    <3>1. lifeOpen' \subseteq {"engine"}  BY <1>o, <3>0 DEF X!Opens
    <3>2. todo' = <<"engine">>  BY <1>s, <1>c, <3>0
    <3>3. X!Left("engine")'  BY <3>2 DEF X!Left
    <3>4. QED  BY <1>s, <3>1, <3>3 DEF ToClose
  <2>5. CASE Rest = 5
    <3>1. aborted' = "operators" /\ phase' = "abort"  BY <1>s, <1>h, <2>5
    <3>2. QED  BY <3>1 DEF ToClose
  <2>6. CASE Rest = 3 \/ Rest = 2
    <3>1. lifeOpen' \subseteq {"engine", "session", "cleanup"}
      BY <1>o, <2>2
    <3>2. todo' = <<"cleanup", "session", "engine">>  BY <1>s, <1>c, <1>h, <2>6
    <3>3. todo'[1] = "cleanup" /\ todo'[2] = "session" /\ todo'[3] = "engine"
          /\ DOMAIN todo' = 1..3
      BY <3>2
    <3>4. X!Left("engine")' /\ X!Left("session")' /\ X!Left("cleanup")'  BY <3>3 DEF X!Left
    <3>5. QED  BY <1>s, <3>1, <3>4 DEF ToClose
  <2>7. CASE Rest = 1
    <3>1. lifeOpen' \subseteq {"engine", "session", "cleanup"}
      BY <1>o, <2>2
    <3>2. todo' = X!Shutdown  BY <1>s, <1>c, <1>h, <2>7
    <3>3. X!Left("engine")' /\ X!Left("session")' /\ X!Left("cleanup")'
      BY <3>2, AllInShutdown DEF X!Left
    <3>4. QED  BY <1>s, <3>1, <3>3 DEF ToClose
  <2>8. QED  BY <1>r, <2>3, <2>4, <2>5, <2>6, <2>7
<1>6. QED  BY <1>1, <1>2, <1>3, <1>4, <1>5 DEF LifeInv

-----------------------------------------------------------------------------
\* Steps that move neither main nor an update, and close nothing.
LEMMA LoopKeeps ==
  ASSUME X!LifeAssumption, LifeInv,
         X!Freeze \/ X!Thaw \/ X!Ends \/ (\E ok \in BOOLEAN : X!ServicePass(ok))
  PROVE  LifeInv'
<1>t. X!TypeOK  BY DEF LifeInv
<1>s. UNCHANGED <<phase, todo, lifeOpen, lifeHeld, stuck, overran, aborted, killed>>
  BY DEF X!Freeze, X!Thaw, X!Ends, X!ServicePass
<1>1. X!TypeOK'
  <2>1. /\ failedPasses' \in 0..MaxFailedPasses /\ freezes' \in 0..MaxFreezes
        /\ ended' \in BOOLEAN /\ frozen' \in BOOLEAN
    <3>1. MaxFailedPasses \in Nat /\ MaxFreezes \in Nat  BY DEF X!LifeAssumption
    <3>2. CASE X!Freeze  BY <1>t, <3>1, <3>2 DEF X!TypeOK, X!Freeze
    <3>3. CASE X!Thaw  BY <1>t, <3>3 DEF X!TypeOK, X!Thaw
    <3>4. CASE X!Ends  BY <1>t, <3>4 DEF X!TypeOK, X!Ends
    <3>5. ASSUME NEW ok \in BOOLEAN, X!ServicePass(ok)
          PROVE  /\ failedPasses' \in 0..MaxFailedPasses /\ freezes' \in 0..MaxFreezes
                 /\ ended' \in BOOLEAN /\ frozen' \in BOOLEAN
      <4>1. UNCHANGED <<freezes, frozen>> /\ ended' \in BOOLEAN  BY <3>5 DEF X!ServicePass
      <4>2. failedPasses' = (IF ok THEN 0 ELSE failedPasses + 1)  BY <3>5 DEF X!ServicePass
      <4>3. failedPasses < MaxFailedPasses  BY <3>5 DEF LifeInv, Ended, X!ServicePass
      <4>4. failedPasses' \in 0..MaxFailedPasses  BY <1>t, <3>1, <4>2, <4>3 DEF X!TypeOK
      <4>5. QED  BY <1>t, <4>1, <4>4 DEF X!TypeOK
    <3>6. QED  BY <3>2, <3>3, <3>4, <3>5
  <2>2. QED  BY <1>t, <1>s, <2>1 DEF X!TypeOK
<1>2. InOrder'  BY <1>s DEF LifeInv, InOrder, RestOf, Rest
<1>3. NothingTaken' /\ Emptied' /\ ToClose' /\ GivenBack' /\ X!ClosedBehind'
  BY <1>s DEF LifeInv, NothingTaken, Emptied, ToClose, GivenBack, X!ClosedBehind, Rest, X!Left
<1>4. Ended'
  <2>1. CASE X!Freeze \/ X!Thaw \/ X!Ends  BY <2>1 DEF LifeInv, Ended, X!Freeze, X!Thaw, X!Ends
  <2>2. ASSUME NEW ok \in BOOLEAN, X!ServicePass(ok) PROVE Ended'
    <3>1. failedPasses' \in 0..MaxFailedPasses /\ MaxFailedPasses \in Nat
      BY <1>1 DEF X!TypeOK, X!LifeAssumption
    <3>2. ended' = (failedPasses' = MaxFailedPasses)  BY <2>2 DEF X!ServicePass
    <3>3. ~ended' => failedPasses' # MaxFailedPasses  BY ONLY <3>2
    <3>4. failedPasses' # MaxFailedPasses => failedPasses' < MaxFailedPasses  BY <3>1
    <3>5. QED  BY <3>3, <3>4 DEF Ended
  <2>3. QED  BY <2>1, <2>2
<1>5. QED  BY <1>1, <1>2, <1>3, <1>4 DEF LifeInv

\* The shutdown begins with everything in its list.
LEMMA SuperviseKeeps == ASSUME X!LifeAssumption, LifeInv, X!Supervise PROVE LifeInv'
<1>t. X!TypeOK  BY DEF LifeInv
<1>s. /\ phase = "serve" /\ phase' = "shutdown" /\ todo' = X!Shutdown
      /\ UNCHANGED <<lifeOpen, lifeHeld, failedPasses, ended, frozen, stuck, overran, aborted,
                     killed,
                     freezes>>
  BY DEF X!Supervise, X!Goes
<1>r. todo' \in Seq(X!Steps) /\ Rest' = 19 /\ RestOf(X!Shutdown, 19)'
  <2>1. todo' \in Seq(X!Steps) /\ Rest' = 19  BY <1>s, Lists DEF Rest
  <2>2. QED  BY <1>s, <2>1 DEF RestOf
<1>1. X!TypeOK'
  <2>1. \A i \in DOMAIN todo' : todo'[i] \in X!Steps  BY <1>r
  <2>2. QED  BY <1>t, <1>s, <2>1 DEF X!TypeOK
<1>2. InOrder'  BY <1>s, <1>r DEF InOrder
<1>3. NothingTaken' /\ Emptied' /\ GivenBack' /\ X!ClosedBehind' /\ Ended'
  BY <1>s, <1>r DEF LifeInv, NothingTaken, Emptied, GivenBack, X!ClosedBehind, Ended
<1>4. ToClose'
  <2>1. lifeOpen' \subseteq {"engine", "session", "cleanup"}  BY <1>s, <1>t DEF X!TypeOK
  <2>2. X!Left("engine")' /\ X!Left("session")' /\ X!Left("cleanup")'
    BY <1>s, AllInShutdown DEF X!Left
  <2>3. QED  BY <1>s, <2>1, <2>2 DEF ToClose
<1>5. QED  BY <1>1, <1>2, <1>3, <1>4 DEF LifeInv

\* An update is taken, handed on or settled.
LEMMA UpdateKeeps ==
  ASSUME X!LifeAssumption, LifeInv, NEW u \in Leased, X!Take(u) \/ X!HandOn(u) \/ X!Finalize(u)
  PROVE  LifeInv'
<1>t. X!TypeOK /\ InOrder /\ Emptied  BY DEF LifeInv
<1>s. UNCHANGED <<phase, todo, lifeOpen, failedPasses, ended, frozen, stuck, overran, aborted,
                  killed, freezes>>
  BY DEF X!Take, X!HandOn, X!Finalize
<1>p. phase \in {"serve", "shutdown"}  BY DEF X!Take, X!HandOn, X!Finalize
<1>h. PICK k \in X!Owners \cup {"done", "settled"} :
        /\ lifeHeld' = [lifeHeld EXCEPT ![u] = k]
        /\ \/ k = "worker" /\ aborted = "no" /\ (phase = "serve" \/ X!Left("quiesce"))
           \/ lifeHeld[u] = "worker" /\ k \in {"privileged", "batch", "done"}
           \/ lifeHeld[u] = "batch" /\ k \in {"memory", "done"}
           \/ lifeHeld[u] \in {"privileged", "memory"} /\ k = "done"
           \/ k = "settled"
        /\ lifeHeld[u] = "away" => aborted = "no"
  <2>1. CASE X!Take(u)  BY <2>1 DEF X!Take, X!Owners
  <2>2. CASE X!HandOn(u)  BY <2>2 DEF X!HandOn, X!Owners
  <2>3. CASE X!Finalize(u)  BY <2>3 DEF X!Finalize, X!Owners
  <2>4. QED  BY <2>1, <2>2, <2>3
<1>e. lifeHeld' \in [Leased -> X!Owners \cup {"done"} \cup X!Over] /\ lifeHeld'[u] = k
      /\ \A v \in Leased \ {u} : lifeHeld'[v] = lifeHeld[v]
  BY <1>t, <1>h DEF X!TypeOK, X!Over
<1>1. X!TypeOK'  BY <1>t, <1>s, <1>e DEF X!TypeOK
<1>2. InOrder'  BY <1>s DEF LifeInv, InOrder, RestOf, Rest
<1>3. NothingTaken'
  <2>1. aborted = "no"
    <3>1. CASE lifeHeld[u] = "away"  BY <1>h, <3>1
    <3>2. CASE lifeHeld[u] # "away"  BY <1>p, <3>2 DEF LifeInv, NothingTaken
    <3>3. QED  BY <3>1, <3>2
  <2>2. QED  BY <1>s, <1>p, <2>1 DEF NothingTaken
<1>4. Emptied'
  <2> SUFFICES ASSUME phase = "shutdown", NEW v \in Leased
               PROVE  /\ lifeHeld'[v] = "worker" /\ Rest <= 16 => "quiesce" \in overran
                      /\ lifeHeld'[v] = "worker" /\ Rest <= 5 => "finalizers" \in overran
                      /\ lifeHeld'[v] = "privileged" /\ Rest <= 15
                          => {"quiesce", "privileged"} \cap overran # {}
                      /\ lifeHeld'[v] = "batch" /\ Rest <= 12
                          => {"quiesce", "batches"} \cap overran # {}
                      /\ lifeHeld'[v] = "memory" /\ Rest <= 11
                          => X!Behind("memory") \cap overran # {}
                      /\ lifeHeld'[v] = "done" /\ Rest <= 5
                          => X!Behind("done") \cap overran # {}
    BY <1>s DEF Emptied, Rest
  <2>0. /\ lifeHeld[v] = "worker" /\ Rest <= 16 => "quiesce" \in overran
        /\ lifeHeld[v] = "worker" /\ Rest <= 5 => "finalizers" \in overran
        /\ lifeHeld[v] = "privileged" /\ Rest <= 15
            => {"quiesce", "privileged"} \cap overran # {}
        /\ lifeHeld[v] = "batch" /\ Rest <= 12 => {"quiesce", "batches"} \cap overran # {}
        /\ lifeHeld[v] = "memory" /\ Rest <= 11 => X!Behind("memory") \cap overran # {}
        /\ lifeHeld[v] = "done" /\ Rest <= 5 => X!Behind("done") \cap overran # {}
    BY <1>t DEF Emptied
  <2>1. CASE v # u  BY <2>0, <2>1, <1>e
  <2>2. CASE v = u
    <3>0. RestOf(X!Shutdown, 19) /\ todo \in Seq(X!Steps)  BY <1>t DEF InOrder
    <3>1. Rest \in Nat /\ (X!Left("quiesce") => Rest >= 17)  BY <3>0, FinalizersLeft
    <3>2. CASE k = "worker" /\ X!Left("quiesce")  BY <2>2, <3>1, <3>2, <1>e
    <3>3. CASE lifeHeld[u] = "worker" /\ k \in {"privileged", "batch", "done"}
      <4>1. Rest <= 15 => Rest <= 16  BY <3>1
      <4>2. Rest <= 12 => Rest <= 16  BY <3>1
      <4>3. QED  BY <2>0, <2>2, <3>3, <4>1, <4>2, <1>e DEF X!Behind
    <3>4. CASE lifeHeld[u] = "batch" /\ k \in {"memory", "done"}
      <4>1. Rest <= 11 => Rest <= 12  BY <3>1
      <4>2. Rest <= 5 => Rest <= 12  BY <3>1
      <4>3. QED  BY <2>0, <2>2, <3>4, <4>1, <4>2, <1>e DEF X!Behind
    <3>5. CASE lifeHeld[u] \in {"privileged", "memory"} /\ k = "done"
      <4>1. Rest <= 5 => Rest <= 15 /\ Rest <= 11  BY <3>1
      <4>2. QED  BY <2>0, <2>2, <3>5, <4>1, <1>e DEF X!Behind
    <3>6. CASE k = "settled"  BY <2>2, <3>6, <1>e
    <3>7. QED  BY <1>h, <3>2, <3>3, <3>4, <3>5, <3>6
  <2>3. QED  BY <2>1, <2>2
<1>5. ToClose' /\ GivenBack' /\ X!ClosedBehind' /\ Ended'
  BY <1>s, <1>p DEF LifeInv, ToClose, GivenBack, X!ClosedBehind, Ended, X!Left
<1>6. QED  BY <1>1, <1>2, <1>3, <1>4, <1>5 DEF LifeInv

\* A step of the shutdown that ends in time takes away what it is for; one that overruns is
\* remembered.
LEMMA ShutdownKeeps == ASSUME X!LifeAssumption, LifeInv, X!ShutdownStep PROVE LifeInv'
<1>t. X!TypeOK /\ InOrder /\ Emptied /\ todo \in Seq(X!Steps) /\ todo # <<>>
  BY DEF LifeInv, InOrder, X!ShutdownStep
<1> DEFINE s == Head(todo)
<1>s. /\ phase \in {"shutdown", "abort"} /\ phase' = phase /\ todo' = Tail(todo)
      /\ UNCHANGED <<failedPasses, ended, frozen, stuck, aborted, killed, freezes>>
  BY DEF X!ShutdownStep, X!Goes
<1>c. \/ /\ s = "quiesce" => \A u \in Leased : lifeHeld[u] # "worker"
         /\ lifeHeld' = X!Flushed(s) /\ lifeOpen' = lifeOpen \ {s} /\ UNCHANGED overran
      \/ overran' = overran \cup {s} /\ UNCHANGED <<lifeHeld, lifeOpen>>
  BY DEF X!ShutdownStep
<1>q. todo' \in Seq(X!Steps) /\ s \in X!Steps  BY <1>t, <1>s
<1>h. lifeHeld' \in [Leased -> X!Owners \cup {"done"} \cup X!Over]
  BY <1>t, <1>c DEF X!TypeOK, X!Flushed, X!Owners, X!Over
<1> HIDE DEF s
<1>1. X!TypeOK'
  <2>1. \A i \in DOMAIN todo' : todo'[i] \in X!Steps  BY <1>q
  <2>2. lifeOpen' \subseteq {"engine", "session", "cleanup"} /\ overran' \subseteq X!Steps
    BY <1>t, <1>c, <1>q DEF X!TypeOK
  <2>3. QED  BY <1>t, <1>s, <1>h, <2>1, <2>2 DEF X!TypeOK
<1>2. InOrder'
  <2>1. ASSUME phase = "shutdown" PROVE RestOf(X!Shutdown, 19)'
    BY <2>1, <1>t, <1>s, NextOf DEF InOrder
  <2>2. QED  BY <1>s, <1>q, <2>1 DEF InOrder
<1>3. NothingTaken'
  <2>1. ASSUME \A u \in Leased : lifeHeld[u] = "away"
    PROVE \A u \in Leased : lifeHeld'[u] = "away"
    BY <2>1, <1>c DEF X!Flushed
  <2>2. QED  BY <2>1, <1>s DEF LifeInv, NothingTaken
<1>4. Emptied'
  <2> SUFFICES ASSUME phase = "shutdown", NEW u \in Leased
               PROVE  /\ lifeHeld'[u] = "worker" /\ Rest' <= 16 => "quiesce" \in overran'
                      /\ lifeHeld'[u] = "worker" /\ Rest' <= 5 => "finalizers" \in overran'
                      /\ lifeHeld'[u] = "privileged" /\ Rest' <= 15
                          => {"quiesce", "privileged"} \cap overran' # {}
                      /\ lifeHeld'[u] = "batch" /\ Rest' <= 12
                          => {"quiesce", "batches"} \cap overran' # {}
                      /\ lifeHeld'[u] = "memory" /\ Rest' <= 11
                          => X!Behind("memory")' \cap overran' # {}
                      /\ lifeHeld'[u] = "done" /\ Rest' <= 5
                          => X!Behind("done")' \cap overran' # {}
    BY <1>s DEF Emptied
  <2>0. /\ lifeHeld[u] = "worker" /\ Rest <= 16 => "quiesce" \in overran
        /\ lifeHeld[u] = "worker" /\ Rest <= 5 => "finalizers" \in overran
        /\ lifeHeld[u] = "privileged" /\ Rest <= 15
            => {"quiesce", "privileged"} \cap overran # {}
        /\ lifeHeld[u] = "batch" /\ Rest <= 12 => {"quiesce", "batches"} \cap overran # {}
        /\ lifeHeld[u] = "memory" /\ Rest <= 11 => X!Behind("memory") \cap overran # {}
        /\ lifeHeld[u] = "done" /\ Rest <= 5 => X!Behind("done") \cap overran # {}
    BY <1>t DEF Emptied
  <2>r. RestOf(X!Shutdown, 19)  BY <1>t DEF InOrder
  <2>n. Rest \in Nat /\ Rest >= 1 /\ Rest' = Rest - 1 /\ s = X!Shutdown[20 - Rest]
    BY <2>r, <1>t, <1>s, NextOf DEF s
  <2>s. /\ Rest = 17 => s = "quiesce"
        /\ Rest = 16 => s = "privileged"
        /\ Rest = 13 => s = "batches"
        /\ Rest = 12 => s = "memory"
        /\ Rest = 6 => s = "finalizers"
    BY <2>n DEF X!Shutdown
  <2>a. /\ Rest' <= 16 => Rest <= 16 \/ Rest = 17
        /\ Rest' <= 15 => Rest <= 15 \/ Rest = 16
        /\ Rest' <= 12 => Rest <= 12 \/ Rest = 13
        /\ Rest' <= 11 => Rest <= 11 \/ Rest = 12
        /\ Rest' <= 5 => Rest <= 5 \/ Rest = 6
    BY <2>n
  <2>1. CASE overran' = overran \cup {s} /\ UNCHANGED <<lifeHeld, lifeOpen>>
    BY <2>1, <2>0, <2>s, <2>a DEF X!Behind
  <2>2. CASE /\ s = "quiesce" => \A v \in Leased : lifeHeld[v] # "worker"
             /\ lifeHeld' = X!Flushed(s) /\ lifeOpen' = lifeOpen \ {s} /\ UNCHANGED overran
    <3>1. /\ lifeHeld'[u] \in {"worker", "privileged", "batch", "memory"}
              => lifeHeld'[u] = lifeHeld[u]
          /\ lifeHeld'[u] = "done" =>
               \/ lifeHeld[u] = "done" /\ s # "finalizers"
               \/ lifeHeld[u] = "privileged" /\ s = "privileged"
               \/ lifeHeld[u] = "batch" /\ s = "batches"
               \/ lifeHeld[u] = "memory" /\ s = "memory"
          /\ lifeHeld'[u] = "worker" => s # "finalizers"
          /\ lifeHeld'[u] = "privileged" => s # "privileged"
          /\ lifeHeld'[u] = "batch" => s # "batches"
          /\ lifeHeld'[u] = "memory" => s # "memory"
      BY <2>2 DEF X!Flushed
    <3>2. s \in {"privileged", "batches", "memory"} => ~(Rest' <= 5)
      <4>1. /\ Rest = 6 => s = "finalizers"
            /\ Rest = 5 => s = "web"
            /\ Rest = 4 => s = "cleanup"
            /\ Rest = 3 => s = "sends"
            /\ Rest = 2 => s = "session"
            /\ Rest = 1 => s = "engine"
        BY <2>n DEF X!Shutdown
      <4>2. Rest' <= 5 => Rest = 6 \/ Rest = 5 \/ Rest = 4 \/ Rest = 3 \/ Rest = 2 \/ Rest = 1
        BY <2>n
      <4>3. QED  BY <4>1, <4>2
    <3>3. QED  BY <2>0, <2>2, <2>s, <2>a, <3>1, <3>2 DEF X!Behind
  <2>3. QED  BY <1>c, <2>1, <2>2
<1>5. ToClose'
  <2> SUFFICES ASSUME aborted # "operators", NEW x \in lifeOpen'
               PROVE  X!Left(x)' \/ x \in overran'
    BY <1>s DEF ToClose
  <2>1. x \in lifeOpen /\ (x = s => x \in overran')  BY <1>c
  <2>2. X!Left(x) \/ x \in overran  BY <1>s, <2>1 DEF LifeInv, ToClose
  <2>3. X!Left(x) => x = s \/ X!Left(x)'  BY <1>t, <1>s, LeftBehind DEF s
  <2>4. overran \subseteq overran'  BY <1>c
  <2>5. QED  BY <2>1, <2>2, <2>3, <2>4
<1>6. GivenBack' /\ X!ClosedBehind' /\ Ended'
  BY <1>s DEF LifeInv, GivenBack, X!ClosedBehind, Ended
<1>7. QED  BY <1>1, <1>2, <1>3, <1>4, <1>5, <1>6 DEF LifeInv

\* The loop closes, the process exits or a watchdog ends it.
LEMMA EndKeeps ==
  ASSUME X!LifeAssumption, LifeInv, X!Drain \/ X!Exit \/ X!Stalled \/ X!HardLimit
  PROVE  LifeInv'
<1>t. X!TypeOK /\ InOrder /\ Emptied /\ NothingTaken  BY DEF LifeInv
<1>s. /\ todo' = <<>> /\ phase' \in {"close", "gone"}
      /\ UNCHANGED <<lifeOpen, lifeHeld, failedPasses, ended, frozen, overran, aborted,
                     freezes>>
      /\ stuck' \in BOOLEAN /\ killed' \in BOOLEAN
  BY <1>t DEF X!Drain, X!Exit, X!Stalled, X!HardLimit, X!Kill, X!Goes, X!TypeOK
<1>1. X!TypeOK'
  <2>1. \A i \in DOMAIN todo' : todo'[i] \in X!Steps  BY <1>s
  <2>2. QED  BY <1>t, <1>s, <2>1 DEF X!TypeOK
<1>2. InOrder'
  <2>1. todo' \in Seq(X!Steps)  BY <1>s
  <2>2. QED  BY <1>s, <2>1 DEF InOrder
<1>3. NothingTaken' /\ Emptied' /\ ToClose' /\ Ended'
  BY <1>s DEF LifeInv, NothingTaken, Emptied, ToClose, Ended
<1>4. GivenBack'
  <2>1. CASE X!Drain /\ phase = "shutdown"
    <3>1. todo = <<>> /\ Rest = 0  BY <2>1 DEF X!Drain, Rest
    <3>2. ASSUME NEW u \in Leased
      PROVE lifeHeld[u] \in X!Over \/ X!Behind(lifeHeld[u]) \cap overran # {}
      <4>1. lifeHeld[u] \in X!Owners \cup {"done"} \cup X!Over  BY <1>t DEF X!TypeOK
      <4>2. QED  BY <2>1, <3>1, <4>1, <1>t DEF Emptied, X!Behind, X!Owners
    <3>3. QED  BY <1>s, <3>2 DEF GivenBack, X!Behind
  <2>2. CASE X!Drain /\ phase = "abort"
    BY <1>s, <1>t, <2>2 DEF NothingTaken, GivenBack, X!Over
  <2>3. CASE X!Exit \/ X!Stalled \/ X!HardLimit
    <3>1. phase' = "gone"  BY <2>3 DEF X!Exit, X!Stalled, X!HardLimit, X!Kill, X!Goes
    <3>2. QED  BY <3>1 DEF GivenBack
  <2>4. QED  BY <2>1, <2>2, <2>3 DEF X!Drain
<1>5. X!ClosedBehind'
  <2>1. CASE X!Drain
    <3>1. phase \in {"shutdown", "abort"} /\ todo = <<>>  BY <2>1 DEF X!Drain
    <3>2. \A s \in lifeOpen : ~X!Left(s)  BY <3>1 DEF X!Left
    <3>3. QED  BY <1>s, <3>1, <3>2 DEF LifeInv, ToClose, X!ClosedBehind
  <2>2. CASE X!Exit  BY <1>s, <2>2 DEF LifeInv, X!ClosedBehind, X!Exit
  <2>3. CASE X!Stalled \/ X!HardLimit
    <3>1. killed'  BY <2>3 DEF X!Stalled, X!HardLimit, X!Kill
    <3>2. QED  BY <3>1 DEF X!ClosedBehind
  <2>4. QED  BY <2>1, <2>2, <2>3
<1>6. QED  BY <1>1, <1>2, <1>3, <1>4, <1>5 DEF LifeInv

\* Every step, and a stutter, keeps the invariant.
LEMMA StepLife == ASSUME X!LifeAssumption, LifeInv, [X!Next]_lifeVars PROVE LifeInv'
<1>1. CASE UNCHANGED lifeVars
  BY <1>1 DEF lifeVars, LifeInv, X!TypeOK, InOrder, RestOf, Rest, NothingTaken, Emptied,
     ToClose,
     GivenBack, X!ClosedBehind, Ended, X!Left
<1>2. CASE X!Next
  BY <1>2, StartKeeps, StartFailsKeeps, LoopKeeps, SuperviseKeeps, UpdateKeeps, ShutdownKeeps,
     EndKeeps DEF X!Next
<1>3. QED  BY <1>1, <1>2

\* What the invariant says of the leases while the shutdown is behind the finalizers.
LEMMA LeasesBack == ASSUME LifeInv PROVE X!LeasesGivenBack
<1> SUFFICES ASSUME phase \in {"shutdown", "close"}, ~X!Left("finalizers"), NEW u \in Leased
             PROVE  lifeHeld[u] \in X!Over \/ X!Behind(lifeHeld[u]) \cap overran # {}
  BY DEF X!LeasesGivenBack
<1>1. lifeHeld[u] \in X!Owners \cup {"done"} \cup X!Over  BY DEF LifeInv, X!TypeOK
<1>2. CASE phase = "close"  BY <1>2 DEF LifeInv, GivenBack
<1>3. CASE phase = "shutdown"
  <2>1. todo \in Seq(X!Steps) /\ RestOf(X!Shutdown, 19)  BY <1>3 DEF LifeInv, InOrder
  <2>2. Rest \in Nat /\ ~(Rest >= 6)  BY <2>1, FinalizersLeft
  <2>3. Rest <= 5 /\ Rest <= 15 /\ Rest <= 12 /\ Rest <= 11  BY <2>2
  <2>4. QED  BY <1>1, <1>3, <2>3 DEF LifeInv, Emptied, X!Behind, X!Owners
<1>4. QED  BY <1>2, <1>3

\* The inductive invariant of the process, and that an exit in order leaves no update
\* leased and closes what was opened (__main__.py, _run and _shutdown).
THEOREM LifeInvariant ==
  ASSUME X!LifeAssumption
  PROVE  X!Init /\ [][X!Next]_lifeVars => [](LifeInv /\ X!LeasesGivenBack)
<1>1. X!Init => LifeInv  BY InitLife
<1>2. LifeInv /\ [X!Next]_lifeVars => LifeInv'  BY StepLife
<1>3. LifeInv => X!LeasesGivenBack  BY LeasesBack
<1>4. QED  BY <1>1, <1>2, <1>3, PTL

-----------------------------------------------------------------------------
(* Requests to the language models: ModelCalls *)

\* The requests whose attempt has a permit.
Live == {q \in Requests : task[q] = "live"}

\* A request has a task only while it waits for it,
Waited == \A q \in Requests : task[q] # "none" => M!St(q) = "wait"

\* every permit is free, an orphan's or a live task's,
Spent == permits + orphans + Cardinality(Live) = Capacity

\* and a circuit has counted as many failures as it has seen last.
CountedLast(c) ==
  /\ seen[c] \in Seq(M!Ends) /\ Len(seen[c]) <= Threshold /\ fails[c] <= Len(seen[c])
  /\ \A i \in 1..Len(seen[c]) : i > Len(seen[c]) - fails[c] => seen[c][i] = "bad"
  /\ circuit[c] # "closed" => fails[c] = Threshold
Honest ==
  /\ seen \in [M!Circuits -> Seq(M!Ends)] /\ fails \in [M!Circuits -> M!Failures]
  /\ circuit \in [M!Circuits -> {"closed", "open", "cooled"}]
  /\ \A c \in M!Circuits : CountedLast(c)

\* The types of requests, tasks and permits.
RequestsFit ==
  req \in [Requests -> [st : M!Active \cup {"idle"}, model : M!Models, attempt : 1..Attempts,
                        dropped : BOOLEAN]]
TasksFit ==
  /\ task \in [Requests -> {"none", "queued", "live"}]
  /\ permits \in 0..Capacity /\ orphans \in Nat /\ old \in BOOLEAN
CountsFit ==
  /\ threads \in 0..Threads /\ stale \in BOOLEAN
  /\ modelPasses \in 0..FatalPasses /\ asked \in 0..MaxModelRequests

\* The inductive invariant.
ModelInv == RequestsFit /\ TasksFit /\ CountsFit /\ Waited /\ Spent /\ Honest

\* The types of the module are in it.
LEMMA InvTyped == ASSUME ModelInv PROVE M!TypeOK
<1>1. \A c \in M!Circuits : /\ Len(seen[c]) <= Threshold
                            /\ \A i \in 1..Len(seen[c]) : seen[c][i] \in M!Ends
  BY DEF ModelInv, Honest, CountedLast
<1> QED  BY <1>1 DEF ModelInv, RequestsFit, TasksFit, CountsFit, Honest, M!TypeOK

\* The composed module counts as the library does,
LEMMA ModelCardinality == \A N : M!Cardinality(N) = Cardinality(N)
BY DEF M!Cardinality, Cardinality

\* and speaks of the same finiteness.
LEMMA ModelFiniteness == \A N : M!IsFiniteSet(N) <=> IsFiniteSet(N)
BY DEF M!IsFiniteSet, IsFiniteSet

\* The constants, one by one.
LEMMA ModelNumbers ==
  ASSUME M!ModelAssumption
  PROVE  /\ ModelCandidates \in Nat \ {0} /\ Attempts \in Nat \ {0} /\ Threshold \in Nat \ {0}
         /\ Capacity \in Nat \ {0} /\ Threads \in Nat \ {0} /\ FatalPasses \in Nat \ {0}
         /\ MaxModelRequests \in Nat /\ IsFiniteSet(Requests)
BY ModelFiniteness DEF M!ModelAssumption

\* The circuit of a request's model is one of the circuits.
LEMMA KeyCircuit == ASSUME RequestsFit, NEW q \in Requests PROVE M!Key(q) \in M!Circuits
<1>1. req[q].model \in M!Models  BY DEF RequestsFit
<1> QED  BY <1>1 DEF M!Key, M!Circuits, M!Model

-----------------------------------------------------------------------------
(* The circuits *)

\* A success starts the count again.
LEMMA AnswerNoted ==
  ASSUME M!ModelAssumption, Honest, NEW c \in M!Circuits, M!RecordSuccess(c)  PROVE Honest'
<1> DEFINE s == Append(seen[c], "good")
           r == IF Len(s) > Threshold THEN Tail(s) ELSE s
<1>n. Threshold \in Nat \ {0}  BY ModelNumbers
<1>0. seen[c] \in Seq(M!Ends) /\ Len(seen[c]) <= Threshold  BY DEF Honest, CountedLast
<1>1. s \in Seq(M!Ends) /\ Len(s) = Len(seen[c]) + 1  BY <1>0 DEF M!Ends
<1>2. r \in Seq(M!Ends) /\ Len(r) <= Threshold /\ Len(r) \in Nat
  <2> HIDE DEF s
  <2>1. s # <<>>  BY <1>0, <1>1
  <2>2. Tail(s) \in Seq(M!Ends) /\ Len(Tail(s)) = Len(s) - 1  BY <1>1, <2>1
  <2> QED  BY <1>n, <1>0, <1>1, <2>2
<1>3. seen' = [seen EXCEPT ![c] = r]  BY DEF M!RecordSuccess, M!Note
<1> HIDE DEF r, s
<1>4. seen' \in [M!Circuits -> Seq(M!Ends)] /\ fails' \in [M!Circuits -> M!Failures]
      /\ circuit' \in [M!Circuits -> {"closed", "open", "cooled"}]
  BY <1>2, <1>3, <1>n DEF M!RecordSuccess, Honest, M!Failures
<1>5. fails'[c] = 0 /\ circuit'[c] = "closed" /\ seen'[c] = r
  BY <1>3 DEF M!RecordSuccess, Honest
<1>6. CountedLast(c)'  BY <1>2, <1>5 DEF CountedLast
<1>7. \A d \in M!Circuits : d # c => CountedLast(d)'
  BY <1>3 DEF M!RecordSuccess, Honest, CountedLast
<1> QED  BY <1>4, <1>6, <1>7 DEF Honest

\* A failure is the last the circuit has seen, and counts one more.
LEMMA FailureNoted ==
  ASSUME M!ModelAssumption, Honest, NEW c \in M!Circuits, M!RecordFailure(c)  PROVE Honest'
<1> DEFINE s == Append(seen[c], "bad")
           r == IF Len(s) > Threshold THEN Tail(s) ELSE s
           n == IF fails[c] = Threshold THEN Threshold ELSE fails[c] + 1
           w == IF n >= Threshold THEN "open" ELSE "closed"
<1>n. Threshold \in Nat \ {0} /\ fails[c] \in 0..Threshold
  BY ModelNumbers DEF Honest, M!Failures
<1>0. /\ seen[c] \in Seq(M!Ends) /\ Len(seen[c]) <= Threshold /\ fails[c] <= Len(seen[c])
      /\ \A i \in 1..Len(seen[c]) : i > Len(seen[c]) - fails[c] => seen[c][i] = "bad"
  BY DEF Honest, CountedLast
<1>1. /\ s \in Seq(M!Ends) /\ Len(s) = Len(seen[c]) + 1 /\ s[Len(s)] = "bad"
      /\ Len(seen[c]) \in Nat
      /\ \A i \in 1..Len(seen[c]) : s[i] = seen[c][i]
  BY <1>0 DEF M!Ends
<1>2. \A i \in 1..Len(s) : i > Len(s) - (fails[c] + 1) => s[i] = "bad"
  <2> HIDE DEF s
  <2>1. SUFFICES ASSUME NEW i \in 1..Len(s), i > Len(s) - (fails[c] + 1)  PROVE s[i] = "bad"
    OBVIOUS
  <2>2. CASE i = Len(s)  BY <1>1, <2>2
  <2>3. CASE i # Len(s)
    <3>1. i \in 1..Len(seen[c]) /\ i > Len(seen[c]) - fails[c]  BY <1>n, <1>1, <2>1, <2>3
    <3> QED  BY <1>0, <1>1, <3>1
  <2> QED  BY <2>2, <2>3
<1>3. n \in 0..Threshold /\ n <= fails[c] + 1 /\ (n >= Threshold <=> n = Threshold)
  BY <1>n
<1>4. /\ r \in Seq(M!Ends) /\ Len(r) <= Threshold /\ n <= Len(r)
      /\ \A i \in 1..Len(r) : i > Len(r) - n => r[i] = "bad"
  <2> HIDE DEF s
  <2>1. CASE Len(s) > Threshold
    <3>1. s # <<>> /\ r = Tail(s) /\ Len(s) = Threshold + 1  BY <1>n, <1>0, <1>1, <2>1
    <3>2. /\ Tail(s) \in Seq(M!Ends) /\ Len(Tail(s)) = Len(s) - 1
          /\ \A i \in 1..Len(Tail(s)) : Tail(s)[i] = s[i + 1]
      BY <1>1, <3>1
    <3> HIDE DEF r, n
    <3>3. r \in Seq(M!Ends) /\ Len(r) = Threshold /\ n <= Threshold  BY <1>n, <1>3, <3>1, <3>2
    <3>4. ASSUME NEW i \in 1..Len(r), i > Len(r) - n  PROVE r[i] = "bad"
      <4>1. i + 1 \in 1..Len(s) /\ i + 1 > Len(s) - (fails[c] + 1)
        BY <1>n, <1>3, <3>1, <3>3, <3>4
      <4> QED  BY <1>2, <3>1, <3>2, <4>1
    <3> QED  BY <1>n, <3>3, <3>4
  <2>2. CASE ~(Len(s) > Threshold)
    <3>1. r = s  BY <2>2
    <3> HIDE DEF r, n
    <3>2. \A i \in 1..Len(s) : i > Len(s) - n => i > Len(s) - (fails[c] + 1)
      BY <1>n, <1>1, <1>3
    <3> QED  BY <1>n, <1>0, <1>1, <1>2, <1>3, <2>2, <3>1, <3>2
  <2> QED  BY <2>1, <2>2
<1>5. /\ seen' = [seen EXCEPT ![c] = r] /\ fails' = [fails EXCEPT ![c] = n]
      /\ circuit' = [circuit EXCEPT ![c] = w]
  BY DEF M!RecordFailure, M!Note
<1>6. w \in {"closed", "open", "cooled"} /\ (w # "closed" => n = Threshold)  BY <1>3
<1> HIDE DEF r, s, n, w
<1>7. seen' \in [M!Circuits -> Seq(M!Ends)] /\ fails' \in [M!Circuits -> M!Failures]
      /\ circuit' \in [M!Circuits -> {"closed", "open", "cooled"}]
  BY <1>3, <1>4, <1>5, <1>6 DEF Honest, M!Failures
<1>8. fails'[c] = n /\ circuit'[c] = w /\ seen'[c] = r
  BY <1>5 DEF Honest
<1>9. CountedLast(c)'  BY <1>4, <1>6, <1>8 DEF CountedLast
<1>10. \A d \in M!Circuits : d # c => CountedLast(d)'
  BY <1>5 DEF Honest, CountedLast
<1> QED  BY <1>7, <1>9, <1>10 DEF Honest

\* A circuit that has cooled starts again from nothing.
LEMMA LookedKeeps ==
  ASSUME M!ModelAssumption, Honest, NEW c \in M!Circuits, M!Looked(c)  PROVE Honest'
<1>1. CASE circuit[c] = "cooled"
  <2>1. /\ fails' = [fails EXCEPT ![c] = 0] /\ circuit' = [circuit EXCEPT ![c] = "closed"]
        /\ seen' = seen
    BY <1>1 DEF M!Looked
  <2>2. seen' \in [M!Circuits -> Seq(M!Ends)] /\ fails' \in [M!Circuits -> M!Failures]
        /\ circuit' \in [M!Circuits -> {"closed", "open", "cooled"}]
    BY <2>1, ModelNumbers DEF Honest, M!Failures
  <2>3. fails'[c] = 0 /\ circuit'[c] = "closed" /\ seen'[c] = seen[c]
    BY <2>1 DEF Honest
  <2>4. CountedLast(c)'
    <3>1. seen[c] \in Seq(M!Ends) /\ Len(seen[c]) <= Threshold  BY DEF Honest, CountedLast
    <3>2. Len(seen[c]) \in Nat  BY <3>1
    <3>3. \A i \in 1..Len(seen[c]) : ~(i > Len(seen[c]) - 0)  BY <3>2
    <3> QED  BY <2>3, <3>1, <3>2, <3>3 DEF CountedLast
  <2>5. \A d \in M!Circuits : d # c => CountedLast(d)'  BY <2>1 DEF Honest, CountedLast
  <2> QED  BY <2>2, <2>4, <2>5 DEF Honest
<1>2. CASE circuit[c] # "cooled"
  <2>1. UNCHANGED <<fails, circuit, seen>>  BY <1>2 DEF M!Looked, M!circuits
  <2> QED  BY <2>1 DEF Honest, CountedLast
<1> QED  BY <1>1, <1>2

\* What leaves the circuits alone keeps what is said of them.
LEMMA CircuitsKept == ASSUME Honest, UNCHANGED M!circuits PROVE Honest'
BY DEF Honest, CountedLast, M!circuits

-----------------------------------------------------------------------------
(* The requests *)

\* The next candidate, and the one after a failure.
LEMMA FallbackKeeps ==
  ASSUME M!ModelAssumption, RequestsFit, NEW q \in Requests, M!Fallback(q)
  PROVE  RequestsFit' /\ \A p \in Requests : p # q => req'[p] = req[p]
<1>1. ModelCandidates \in Nat \ {0} /\ Attempts \in Nat \ {0}  BY ModelNumbers
<1>2. req[q].model \in 1..ModelCandidates  BY DEF RequestsFit, M!Models
<1>3. 1 \in M!Models /\ 1 \in 1..Attempts  BY <1>1 DEF M!Models
<1> DEFINE Record == [st : M!Active \cup {"idle"}, model : M!Models, attempt : 1..Attempts,
                      dropped : BOOLEAN]
<1>4. M!Rest \in Record  BY <1>3 DEF M!Rest
<1>5. CASE M!Model(q) < ModelCandidates
  <2>1. M!Model(q) + 1 \in M!Models  BY <1>1, <1>2, <1>5 DEF M!Model, M!Models
  <2> DEFINE r == [M!Rest EXCEPT !.st = IF M!Embedding(q) THEN "admit" ELSE "count",
                               !.model = M!Model(q) + 1]
  <2>2. r \in Record  BY <1>3, <2>1 DEF M!Rest, M!Active
  <2>3. req' = [req EXCEPT ![q] = r]  BY <1>5 DEF M!Fallback
  <2> HIDE DEF r
  <2> QED  BY <2>2, <2>3 DEF RequestsFit
<1>6. CASE ~(M!Model(q) < ModelCandidates)
  <2>1. req' = [req EXCEPT ![q] = M!Rest]  BY <1>6 DEF M!Fallback, M!Over
  <2> QED  BY <1>4, <2>1 DEF RequestsFit
<1> QED  BY <1>5, <1>6

\* A step to another place.
LEMMA RequestGoes ==
  ASSUME RequestsFit, NEW q \in Requests, NEW s \in M!Active \cup {"idle"}, M!Go(q, s)
  PROVE  RequestsFit' /\ req'[q].st = s /\ \A p \in Requests : p # q => req'[p] = req[p]
BY DEF RequestsFit, M!Go

\* The end of a request.
LEMMA RequestOver ==
  ASSUME M!ModelAssumption, RequestsFit, NEW q \in Requests, M!Over(q)
  PROVE  RequestsFit' /\ \A p \in Requests : p # q => req'[p] = req[p]
<1>1. 1 \in M!Models /\ 1 \in 1..Attempts  BY ModelNumbers DEF M!Models
<1>2. M!Rest \in [st : M!Active \cup {"idle"}, model : M!Models, attempt : 1..Attempts,
                dropped : BOOLEAN]
  BY <1>1 DEF M!Rest
<1> QED  BY <1>2 DEF RequestsFit, M!Over

\* The same model again, or the next one.
LEMMA RetryKeeps ==
  ASSUME M!ModelAssumption, RequestsFit, Honest, NEW q \in Requests, M!Retry(q)
  PROVE  RequestsFit' /\ Honest' /\ \A p \in Requests : p # q => req'[p] = req[p]
<1>1. CASE req[q].attempt < Attempts
  <2>1. req' = [req EXCEPT ![q].st = "send", ![q].attempt = @ + 1] /\ UNCHANGED M!circuits
    BY <1>1 DEF M!Retry
  <2>2. req[q].attempt + 1 \in 1..Attempts  BY <1>1, ModelNumbers DEF RequestsFit
  <2>3. RequestsFit' /\ \A p \in Requests : p # q => req'[p] = req[p]
    BY <2>1, <2>2 DEF RequestsFit, M!Active
  <2> QED  BY <2>1, <2>3, CircuitsKept
<1>2. CASE ~(req[q].attempt < Attempts)
  BY <1>2, FallbackKeeps, FailureNoted, KeyCircuit DEF M!Retry
<1> QED  BY <1>1, <1>2

-----------------------------------------------------------------------------
(* The permits *)

\* The live tasks are finitely many, and what one more or fewer makes of their number.
LEMMA LiveCounted ==
  ASSUME M!ModelAssumption
  PROVE  /\ IsFiniteSet(Live) /\ Cardinality(Live) \in Nat
         /\ \A q \in Live : Cardinality(Live \ {q}) = Cardinality(Live) - 1
         /\ \A q : q \notin Live => Cardinality(Live \cup {q}) = Cardinality(Live) + 1
<1>1. IsFiniteSet(Requests)  BY ModelNumbers
<1>2. IsFiniteSet(Live)  BY <1>1, FS_Subset DEF Live
<1>3. Cardinality(Live) \in Nat  BY <1>2, FS_CardinalityType
<1>4. \A q \in Live : Cardinality(Live \ {q}) = Cardinality(Live) - 1
  BY <1>2, FS_RemoveElement
<1>5. \A q : q \notin Live => Cardinality(Live \cup {q}) = Cardinality(Live) + 1
  BY <1>2, FS_AddElement
<1> QED  BY <1>2, <1>3, <1>4, <1>5

\* A task that is let go of gives its permit back or leaves it to an orphan.
LEMMA TaskEnds ==
  ASSUME M!ModelAssumption, TasksFit, Spent, NEW q \in Requests,
         task' = [task EXCEPT ![q] = "none"], UNCHANGED old,
         \/ task[q] = "live" /\ permits' = permits + 1 /\ UNCHANGED orphans
         \/ task[q] = "live" /\ orphans' = orphans + 1 /\ UNCHANGED permits
         \/ task[q] # "live" /\ UNCHANGED <<permits, orphans>>
  PROVE  /\ TasksFit' /\ Spent' /\ task'[q] = "none"
         /\ \A p \in Requests : p # q => task'[p] = task[p]
<1>c. Capacity \in Nat  BY ModelNumbers
<1>t. permits \in 0..Capacity /\ orphans \in Nat  BY DEF TasksFit
<1>l. Cardinality(Live) \in Nat  BY LiveCounted
<1>s. permits + orphans + Cardinality(Live) = Capacity  BY DEF Spent
<1>1. /\ task' \in [Requests -> {"none", "queued", "live"}] /\ task'[q] = "none"
      /\ \A p \in Requests : p # q => task'[p] = task[p]
  BY DEF TasksFit
<1>2. Live' = Live \ {q}  BY <1>1 DEF Live
<1>3. CASE task[q] = "live"
  <2>1. q \in Live  BY <1>3 DEF Live
  <2>2. Cardinality(Live') = Cardinality(Live) - 1  BY <1>2, <2>1, LiveCounted
  <2>3. Cardinality(Live') \in Nat
    <3>1. Live' \subseteq Live /\ IsFiniteSet(Live)  BY <1>2, LiveCounted
    <3> QED  BY <3>1, FS_Subset, FS_CardinalityType
  <2>4. permits' + orphans' + Cardinality(Live') = Capacity
    BY <1>3, <1>t, <1>l, <1>s, <2>2
  <2>5. permits' \in 0..Capacity /\ orphans' \in Nat
    BY <1>3, <1>c, <1>t, <1>l, <1>s, <2>2, <2>3
  <2> QED  BY <1>1, <2>4, <2>5 DEF TasksFit, Spent
<1>4. CASE task[q] # "live"
  <2>1. Live' = Live  BY <1>2, <1>4 DEF Live
  <2>2. UNCHANGED <<permits, orphans>>  BY <1>4
  <2> QED  BY <1>1, <2>1, <2>2 DEF TasksFit, Spent
<1> QED  BY <1>3, <1>4

\* What an attempt that is cut leaves behind.
LEMMA CutKeeps ==
  ASSUME M!ModelAssumption, TasksFit, Spent, NEW q \in Requests, M!Cut(q)
  PROVE  /\ TasksFit' /\ Spent' /\ task'[q] = "none"
         /\ \A p \in Requests : p # q => task'[p] = task[p]
<1>1. \/ task[q] = "live" /\ permits' = permits + 1 /\ UNCHANGED orphans
      \/ task[q] = "live" /\ orphans' = orphans + 1 /\ UNCHANGED permits
      \/ task[q] # "live" /\ UNCHANGED <<permits, orphans>>
  BY DEF M!Cut
<1> QED  BY <1>1, TaskEnds DEF M!Cut

\* What leaves the tasks and the permits alone keeps what is said of them.
LEMMA CallsKept == ASSUME TasksFit, Spent, UNCHANGED M!calls PROVE TasksFit' /\ Spent'
BY DEF M!calls, TasksFit, Spent, Live

-----------------------------------------------------------------------------
(* The steps *)

\* A request that has no task moves, and leaves tasks alone.
LEMMA MovesKeep ==
  ASSUME ModelInv, NEW q \in Requests, RequestsFit', task[q] = "none", UNCHANGED M!calls,
         \A p \in Requests : p # q => req'[p] = req[p]
  PROVE  Waited' /\ TasksFit' /\ Spent'
BY CallsKept DEF ModelInv, Waited, M!St, M!calls

\* A new request, the count of its prompt, and the look at the model's circuit.
LEMMA BeginKeeps ==
  ASSUME M!ModelAssumption, ModelInv, NEW q \in Requests, M!Ask(q) \/ M!CountPrompt(q)
      \/ M!Admit(q)
  PROVE  ModelInv'
<1>n. Threads \in Nat \ {0} /\ MaxModelRequests \in Nat  BY ModelNumbers
<1>1. task[q] = "none" /\ UNCHANGED M!calls
  BY DEF ModelInv, Waited, TasksFit, M!Ask, M!CountPrompt, M!Admit
<1>g. \A s \in {"count", "admit", "send"} :
        M!Go(q, s) => RequestsFit' /\ \A p \in Requests : p # q => req'[p] = req[p]
  BY RequestGoes DEF ModelInv, M!Active
<1>f. M!Fallback(q) => RequestsFit' /\ \A p \in Requests : p # q => req'[p] = req[p]
  BY FallbackKeeps DEF ModelInv
<1>2. RequestsFit' /\ \A p \in Requests : p # q => req'[p] = req[p]
  <2>1. CASE M!Ask(q)
    <3>1. \E s \in {"count", "admit", "send"} : M!Go(q, s)  BY <2>1 DEF M!Ask
    <3> QED  BY <1>g, <3>1
  <2>2. CASE M!CountPrompt(q)
    <3>1. M!Fallback(q) \/ \E s \in {"count", "admit", "send"} : M!Go(q, s)
      BY <2>2 DEF M!CountPrompt
    <3> QED  BY <1>g, <1>f, <3>1
  <2>3. CASE M!Admit(q)
    <3>1. M!Fallback(q) \/ \E s \in {"count", "admit", "send"} : M!Go(q, s)
      BY <2>3 DEF M!Admit
    <3> QED  BY <1>g, <1>f, <3>1
  <2> QED  BY <2>1, <2>2, <2>3
<1>3. Waited' /\ TasksFit' /\ Spent'  BY <1>1, <1>2, MovesKeep
<1>4. CountsFit'
  <2>1. CASE M!Ask(q)
    BY <1>n, <2>1 DEF M!Ask, ModelInv, CountsFit, M!tokens
  <2>2. CASE M!CountPrompt(q)
    <3>1. threads' \in 0..Threads  BY <1>n, <2>2 DEF M!CountPrompt, ModelInv, CountsFit
    <3> QED  BY <2>2, <3>1 DEF M!CountPrompt, ModelInv, CountsFit
  <2>3. CASE M!Admit(q)
    BY <2>3 DEF M!Admit, ModelInv, CountsFit, M!tokens
  <2> QED  BY <2>1, <2>2, <2>3
<1>5. Honest'
  <2>1. CASE M!Looked(M!Key(q))
    BY <2>1, LookedKeeps, KeyCircuit DEF ModelInv
  <2>2. CASE UNCHANGED M!circuits
    BY <2>2, CircuitsKept DEF ModelInv
  <2> QED  BY <2>1, <2>2 DEF M!Ask, M!CountPrompt, M!Admit
<1> QED  BY <1>2, <1>3, <1>4, <1>5 DEF ModelInv

\* An attempt's task is made, and takes a permit.
LEMMA SendKeeps ==
  ASSUME M!ModelAssumption, ModelInv, NEW q \in Requests, M!Send(q)  PROVE ModelInv'
<1>1. RequestsFit' /\ req'[q].st = "wait" /\ \A p \in Requests : p # q => req'[p] = req[p]
  BY RequestGoes DEF M!Send, ModelInv, M!Active
<1>2. task[q] = "none"  BY DEF M!Send, ModelInv, Waited, TasksFit
<1>3. /\ task' \in [Requests -> {"none", "queued", "live"}] /\ task'[q] = "queued"
      /\ \A p \in Requests : p # q => task'[p] = task[p]
  BY DEF M!Send, ModelInv, TasksFit
<1>4. Live' = Live  BY <1>2, <1>3 DEF Live
<1>5. TasksFit' /\ Spent'  BY <1>3, <1>4 DEF M!Send, ModelInv, TasksFit, Spent
<1>6. Waited'  BY <1>1, <1>3 DEF ModelInv, Waited, M!St
<1>7. CountsFit' /\ Honest'
  BY CircuitsKept DEF M!Send, ModelInv, CountsFit, M!tokens
<1> QED  BY <1>1, <1>5, <1>6, <1>7 DEF ModelInv

\* A permit is taken only when one is free.
LEMMA PermitKeeps ==
  ASSUME M!ModelAssumption, ModelInv, NEW q \in Requests, M!Permit(q)  PROVE ModelInv'
<1>c. Capacity \in Nat  BY ModelNumbers
<1>t. permits \in 0..Capacity /\ orphans \in Nat  BY DEF ModelInv, TasksFit
<1>1. /\ task[q] = "queued" /\ permits > 0 /\ permits' = permits - 1
      /\ task' = [task EXCEPT ![q] = "live"] /\ UNCHANGED <<req, orphans, old>>
  BY DEF M!Permit
<1>2. /\ task' \in [Requests -> {"none", "queued", "live"}] /\ task'[q] = "live"
      /\ \A p \in Requests : p # q => task'[p] = task[p]
  BY <1>1 DEF ModelInv, TasksFit
<1>3. q \notin Live /\ Live' = Live \cup {q}  BY <1>1, <1>2 DEF Live
<1>4. Cardinality(Live') = Cardinality(Live) + 1 /\ Cardinality(Live) \in Nat
  BY <1>3, LiveCounted
<1>5. permits' \in 0..Capacity /\ permits' + orphans' + Cardinality(Live') = Capacity
  BY <1>c, <1>t, <1>1, <1>4 DEF ModelInv, Spent
<1>6. TasksFit' /\ Spent'  BY <1>1, <1>2, <1>5 DEF ModelInv, TasksFit, Spent
<1>7. Waited'  BY <1>1, <1>2 DEF ModelInv, Waited, M!St
<1>8. RequestsFit' /\ CountsFit' /\ Honest'
  BY <1>1, CircuitsKept DEF M!Permit, ModelInv, RequestsFit, CountsFit, M!tokens
<1> QED  BY <1>6, <1>7, <1>8 DEF ModelInv

\* The end of an attempt: its answer, its timeout, and the deadline of the request.
LEMMA AttemptOver ==
  ASSUME M!ModelAssumption, ModelInv, NEW q \in Requests,
         M!Answered(q) \/ M!Timeout(q) \/ M!Deadline(q)
  PROVE  ModelInv'
<1>1. /\ TasksFit' /\ Spent' /\ task'[q] = "none"
      /\ \A p \in Requests : p # q => task'[p] = task[p]
  <2>1. CASE M!Answered(q)
    BY <2>1, TaskEnds DEF M!Answered, ModelInv
  <2>2. CASE M!Timeout(q) \/ M!Deadline(q)
    BY <2>2, CutKeeps DEF M!Timeout, M!Deadline, ModelInv
  <2> QED  BY <2>1, <2>2
<1>k. M!Key(q) \in M!Circuits  BY KeyCircuit DEF ModelInv
<1>o. M!Over(q) => RequestsFit' /\ \A p \in Requests : p # q => req'[p] = req[p]
  BY RequestOver DEF ModelInv
<1>r. M!Retry(q) => RequestsFit' /\ Honest' /\ \A p \in Requests : p # q => req'[p] = req[p]
  BY RetryKeeps DEF ModelInv
<1>s. M!RecordSuccess(M!Key(q)) \/ M!RecordFailure(M!Key(q)) => Honest'
  BY <1>k, AnswerNoted, FailureNoted DEF ModelInv
<1>u. UNCHANGED M!circuits => Honest'  BY CircuitsKept DEF ModelInv
<1>2. RequestsFit' /\ Honest' /\ \A p \in Requests : p # q => req'[p] = req[p]
  <2>1. CASE M!Answered(q)
    <3>1. PICK o \in M!Outcomes :
            CASE o = "answer" -> M!Over(q) /\ M!RecordSuccess(M!Key(q))
              [] o = "unsupported" /\ ~M!Dropped(q) ->
                   req' = [req EXCEPT ![q].st = "send", ![q].dropped = TRUE]
                       /\ UNCHANGED M!circuits
              [] OTHER -> M!Retry(q)
      BY <2>1 DEF M!Answered
    <3>2. CASE o = "answer"  BY <1>o, <1>s, <3>1, <3>2
    <3>3. CASE o = "unsupported" /\ ~M!Dropped(q)
      <4>1. req' = [req EXCEPT ![q].st = "send", ![q].dropped = TRUE] /\ UNCHANGED M!circuits
        BY <3>1, <3>3
      <4>2. RequestsFit' /\ \A p \in Requests : p # q => req'[p] = req[p]
        BY <4>1 DEF ModelInv, RequestsFit, M!Active
      <4> QED  BY <1>u, <4>1, <4>2
    <3>4. CASE o # "answer" /\ ~(o = "unsupported" /\ ~M!Dropped(q))
      <4>1. M!Retry(q)  BY <3>1, <3>4
      <4> QED  BY <1>r, <4>1
    <3> QED  BY <3>2, <3>3, <3>4
  <2>2. CASE M!Timeout(q)  BY <1>r, <2>2 DEF M!Timeout
  <2>3. CASE M!Deadline(q)  BY <1>o, <1>s, <1>u, <2>3 DEF M!Deadline
  <2> QED  BY <2>1, <2>2, <2>3
<1>3. Waited'  BY <1>1, <1>2 DEF ModelInv, Waited, M!St
<1>4. CountsFit'  BY DEF M!Answered, M!Timeout, M!Deadline, ModelInv, CountsFit, M!tokens
<1> QED  BY <1>1, <1>2, <1>3, <1>4 DEF ModelInv

\* Orphans, threads and circuits, left to themselves.
LEMMA AloneKeeps ==
  ASSUME M!ModelAssumption, ModelInv,
         \/ \E c \in M!Circuits : M!Cools(c)
         \/ M!ThreadEnds \/ M!ThreadsStuck \/ M!OrphanEnds \/ M!OrphanAges
  PROVE  ModelInv'
<1>n. Threads \in Nat \ {0} /\ Capacity \in Nat  BY ModelNumbers
<1>1. ASSUME NEW c \in M!Circuits, M!Cools(c)  PROVE ModelInv'
  <2>1. /\ circuit[c] = "open" /\ circuit' = [circuit EXCEPT ![c] = "cooled"]
        /\ UNCHANGED <<req, M!calls, M!tokens, fails, seen, modelPasses, asked>>
    BY <1>1 DEF M!Cools
  <2>2. circuit' \in [M!Circuits -> {"closed", "open", "cooled"}]  BY <2>1 DEF ModelInv, Honest
  <2>3. ASSUME NEW d \in M!Circuits  PROVE CountedLast(d)'
    <3>1. CountedLast(d) /\ seen' = seen /\ fails' = fails  BY <2>1 DEF ModelInv, Honest
    <3>2. circuit'[d] # "closed" => fails[d] = Threshold
      BY <2>1 DEF ModelInv, Honest, CountedLast
    <3> QED  BY <3>1, <3>2 DEF CountedLast
  <2>4. Honest'  BY <2>1, <2>2, <2>3 DEF ModelInv, Honest
  <2>5. RequestsFit' /\ CountsFit' /\ Waited' /\ TasksFit' /\ Spent'
    BY <2>1, CallsKept DEF ModelInv, RequestsFit, CountsFit, M!tokens, Waited, M!St, M!calls
  <2> QED  BY <2>4, <2>5 DEF ModelInv
<1>2. CASE M!ThreadEnds \/ M!ThreadsStuck
  <2>t. threads \in 0..Threads  BY DEF ModelInv, CountsFit
  <2>r. threads' = threads \/ (threads > 0 /\ threads' = threads - 1)
    BY <1>2 DEF M!ThreadEnds, M!ThreadsStuck
  <2>s. threads' \in 0..Threads  BY <1>n, <2>t, <2>r
  <2>1. threads' \in 0..Threads /\ stale' \in BOOLEAN
    BY <1>2, <2>s DEF M!ThreadEnds, M!ThreadsStuck
  <2>2. UNCHANGED <<req, M!calls, M!circuits, modelPasses, asked>>
    BY <1>2 DEF M!ThreadEnds, M!ThreadsStuck
  <2>3. CountsFit'  BY <2>1, <2>2 DEF ModelInv, CountsFit
  <2> QED
    BY <2>2, <2>3, CallsKept, CircuitsKept DEF ModelInv, RequestsFit, Waited, M!St, M!calls
<1>3. CASE M!OrphanEnds \/ M!OrphanAges
  <2>1. UNCHANGED <<req, task, M!tokens, M!circuits, modelPasses, asked>>
    BY <1>3 DEF M!OrphanEnds, M!OrphanAges
  <2>2. Live' = Live  BY <2>1 DEF Live
  <2>3. Cardinality(Live) \in Nat  BY LiveCounted
  <2>4. /\ permits' \in 0..Capacity /\ orphans' \in Nat
        /\ permits' + orphans' + Cardinality(Live) = Capacity
    <3>1. /\ permits \in 0..Capacity /\ orphans \in Nat
          /\ permits + orphans + Cardinality(Live) = Capacity
      BY DEF ModelInv, TasksFit, Spent
    <3>2. \/ orphans > 0 /\ orphans' = orphans - 1 /\ permits' = permits + 1
          \/ orphans' = orphans /\ permits' = permits
      BY <1>3 DEF M!OrphanEnds, M!OrphanAges
    <3> DEFINE n == Cardinality(Live)
    <3>3. n \in Nat /\ permits + orphans + n = Capacity  BY <2>3, <3>1
    <3> HIDE DEF n
    <3>4. permits' \in 0..Capacity /\ orphans' \in Nat /\ permits' + orphans' + n = Capacity
      BY <1>n, <3>1, <3>2, <3>3
    <3> QED  BY <3>4 DEF n
  <2>5. old' \in BOOLEAN  BY <1>3 DEF M!OrphanEnds, M!OrphanAges, ModelInv, TasksFit
  <2>6. TasksFit' /\ Spent'  BY <2>1, <2>2, <2>4, <2>5 DEF ModelInv, TasksFit, Spent
  <2> QED
    BY <2>1, <2>6, CircuitsKept DEF ModelInv, RequestsFit, CountsFit, M!tokens, Waited, M!St
<1> QED  BY <1>1, <1>2, <1>3

\* Nothing is under way, in a new process.
Fresh ==
  /\ req = [q \in Requests |-> M!Rest] /\ task = [q \in Requests |-> "none"]
  /\ permits = Capacity /\ orphans = 0 /\ old = FALSE /\ threads = 0 /\ stale = FALSE
  /\ fails = [c \in M!Circuits |-> 0] /\ circuit = [c \in M!Circuits |-> "closed"]
  /\ seen = [c \in M!Circuits |-> <<>>] /\ modelPasses = 0 /\ asked \in 0..MaxModelRequests

\* A new process satisfies the invariant,
LEMMA FreshKeeps == ASSUME M!ModelAssumption, Fresh PROVE ModelInv
<1>n. /\ Attempts \in Nat \ {0} /\ ModelCandidates \in Nat \ {0} /\ Threshold \in Nat \ {0}
      /\ Capacity \in Nat \ {0} /\ Threads \in Nat \ {0} /\ FatalPasses \in Nat \ {0}
  BY ModelNumbers
<1>1. RequestsFit
  <2>1. 1 \in M!Models /\ 1 \in 1..Attempts  BY <1>n DEF M!Models
  <2>2. M!Rest \in [st : M!Active \cup {"idle"}, model : M!Models, attempt : 1..Attempts,
                  dropped : BOOLEAN]
    BY <2>1 DEF M!Rest
  <2> QED  BY <2>2 DEF RequestsFit, Fresh
<1>2. TasksFit
  <2>1. Capacity \in 0..Capacity /\ 0 \in Nat  BY <1>n
  <2> QED  BY <2>1 DEF TasksFit, Fresh
<1>3. CountsFit
  <2>1. 0 \in 0..Threads /\ 0 \in 0..FatalPasses  BY <1>n
  <2> QED  BY <2>1 DEF CountsFit, Fresh
<1>4. Waited  BY DEF Waited, Fresh
<1>5. Spent
  <2>1. Live = {}  BY DEF Live, Fresh
  <2>2. Cardinality(Live) = 0  BY <2>1, FS_EmptySet
  <2> QED  BY <1>n, <2>2 DEF Spent, Fresh
<1>6. Honest
  <2>1. 0 \in M!Failures  BY <1>n DEF M!Failures
  <2>2. <<>> \in Seq(M!Ends) /\ Len(<<>>) = 0  OBVIOUS
  <2>3. \A c \in M!Circuits : CountedLast(c)
    <3>1. SUFFICES ASSUME NEW c \in M!Circuits PROVE CountedLast(c)  OBVIOUS
    <3>2. seen[c] = <<>> /\ fails[c] = 0 /\ circuit[c] = "closed"  BY DEF Fresh
    <3>3. Len(seen[c]) = 0 /\ \A i \in 1..Len(seen[c]) : FALSE  BY <2>2, <3>2
    <3> QED  BY <1>n, <2>2, <3>2, <3>3 DEF CountedLast
  <2> QED  BY <2>1, <2>2, <2>3 DEF Honest, Fresh
<1> QED  BY <1>1, <1>2, <1>3, <1>4, <1>5, <1>6 DEF ModelInv

\* and so does the state after a restart.
LEMMA FreshAfter == ASSUME M!ModelAssumption PROVE Fresh' => ModelInv'
<1>1. Fresh => ModelInv  BY FreshKeeps
<1> QED  BY <1>1, PTL

\* The watchdog's pass: a count, or a new process.
LEMMA WatchKeeps == ASSUME M!ModelAssumption, ModelInv, M!Watch PROVE ModelInv'
<1>n. FatalPasses \in Nat \ {0}  BY ModelNumbers
<1>1. CASE /\ modelPasses' \in 0..FatalPasses
           /\ UNCHANGED <<req, M!calls, M!tokens, M!circuits, asked>>
  <2>1. CountsFit'  BY <1>1 DEF ModelInv, CountsFit, M!tokens
  <2> QED
    BY <1>1, <2>1, CallsKept, CircuitsKept DEF ModelInv, RequestsFit, Waited, M!St, M!calls
<1>2. CASE /\ req' = [q \in Requests |-> M!Rest] /\ task' = [q \in Requests |-> "none"]
           /\ permits' = Capacity /\ orphans' = 0 /\ old' = FALSE /\ threads' = 0
           /\ stale' = FALSE /\ fails' = [c \in M!Circuits |-> 0]
           /\ circuit' = [c \in M!Circuits |-> "closed"] /\ seen' = [c \in M!Circuits |-> <<>>]
           /\ modelPasses' = 0 /\ UNCHANGED asked
  <2>1. asked' \in 0..MaxModelRequests  BY <1>2 DEF ModelInv, CountsFit
  <2>2. Fresh'  BY <1>2, <2>1 DEF Fresh
  <2> QED  BY <2>2, FreshAfter
<1>3. CASE ~M!Fatal
  <2>1. modelPasses' = 0 /\ UNCHANGED <<req, M!calls, M!tokens, M!circuits, asked>>
    BY <1>3 DEF M!Watch
  <2>2. 0 \in 0..FatalPasses  BY <1>n
  <2> QED  BY <1>1, <2>1, <2>2
<1>4. CASE M!Fatal /\ modelPasses + 1 < FatalPasses
  <2>1. modelPasses' = modelPasses + 1
            /\ UNCHANGED <<req, M!calls, M!tokens, M!circuits, asked>>
    BY <1>4 DEF M!Watch
  <2>2. modelPasses' \in 0..FatalPasses  BY <1>n, <1>4, <2>1 DEF ModelInv, CountsFit
  <2> QED  BY <1>1, <2>1, <2>2
<1>5. CASE M!Fatal /\ ~(modelPasses + 1 < FatalPasses)
  BY <1>2, <1>5 DEF M!Watch
<1> QED  BY <1>3, <1>4, <1>5

\* Every step, and a stutter, keeps the invariant.
LEMMA ModelStep == ASSUME M!ModelAssumption, ModelInv, [M!Next]_modelVars PROVE ModelInv'
<1>1. CASE UNCHANGED modelVars
  <2>1. UNCHANGED <<req, M!calls, M!tokens, M!circuits, modelPasses, asked>>
    BY <1>1 DEF modelVars, M!calls, M!tokens, M!circuits
  <2> QED
    BY <2>1, CallsKept, CircuitsKept DEF ModelInv, RequestsFit, CountsFit, M!tokens, Waited,
       M!St, M!calls
<1>2. CASE M!Next
  BY <1>2, BeginKeeps, SendKeeps, PermitKeeps, AttemptOver, AloneKeeps, WatchKeeps DEF M!Next
<1> QED  BY <1>1, <1>2

\* What the permits say of the calls.
LEMMA CallsBounded == ASSUME M!ModelAssumption, ModelInv PROVE M!RealCallsBounded
<1>1. permits + orphans + Cardinality(Live) = Capacity /\ permits \in Nat /\ orphans \in Nat
  BY DEF ModelInv, Spent, TasksFit
<1>2. Cardinality(Live) \in Nat  BY LiveCounted
<1>3. orphans + Cardinality(Live) <= Capacity
  <2> DEFINE n == Cardinality(Live)
  <2> HIDE DEF n
  <2>1. n \in Nat /\ permits + orphans + n = Capacity  BY <1>1, <1>2 DEF n
  <2>2. orphans + n <= Capacity  BY <1>1, <2>1
  <2> QED  BY <2>2 DEF n
<1> QED  BY <1>3, ModelCardinality DEF M!RealCallsBounded, Live

\* What the counts say of an open circuit.
LEMMA CircuitsEarned == ASSUME M!ModelAssumption, ModelInv PROVE M!CircuitEarned
<1> SUFFICES ASSUME NEW c \in M!Circuits, circuit[c] # "closed"
             PROVE  seen[c] = [i \in 1..Threshold |-> "bad"]
  BY DEF M!CircuitEarned
<1>n. Threshold \in Nat \ {0}  BY ModelNumbers
<1>1. /\ seen[c] \in Seq(M!Ends) /\ Len(seen[c]) <= Threshold /\ fails[c] <= Len(seen[c])
      /\ \A i \in 1..Len(seen[c]) : i > Len(seen[c]) - fails[c] => seen[c][i] = "bad"
      /\ fails[c] = Threshold
  BY DEF ModelInv, Honest, CountedLast
<1>2. Len(seen[c]) = Threshold  BY <1>n, <1>1
<1>3. \A i \in 1..Threshold : seen[c][i] = "bad"  BY <1>n, <1>1, <1>2
<1>4. seen[c] = [i \in 1..Len(seen[c]) |-> seen[c][i]]  BY <1>1
<1> QED  BY <1>2, <1>3, <1>4

\* The inductive invariant of the model calls: real calls are bounded, and a circuit opens
\* on failures alone (services/llm.py).
THEOREM ModelInvariant ==
  ASSUME M!ModelAssumption
  PROVE  M!Init /\ [][M!Next]_modelVars => [](ModelInv /\ M!RealCallsBounded
      /\ M!CircuitEarned)
<1>1. M!Init => ModelInv
  <2>1. MaxModelRequests \in Nat  BY ModelNumbers
  <2>2. M!Init => asked \in 0..MaxModelRequests  BY <2>1 DEF M!Init
  <2> QED  BY <2>2, FreshKeeps DEF M!Init, Fresh
<1>2. ModelInv /\ [M!Next]_modelVars => ModelInv'  BY ModelStep
<1>3. ModelInv => M!RealCallsBounded /\ M!CircuitEarned  BY CallsBounded, CircuitsEarned
<1> QED  BY <1>1, <1>2, <1>3, PTL

-----------------------------------------------------------------------------
(* The lock on writing: WriteLock *)

\* What a task that uses a session does.
SessionSteps == {"free", "waiting", "given", "run", "savepoint", "rollback"}

\* Nobody waits twice, those who wait are in the queue, and nobody waits for a free lock.
Queued ==
  /\ \A i, j \in 1..Len(lockQueue) : lockQueue[i] = lockQueue[j] => i = j
  /\ \A s \in Sessions : step[s] = "waiting" <=> \E i \in 1..Len(lockQueue) : lockQueue[i] = s
  /\ ~locked => lockQueue = <<>>

\* The lock has one owner or none.
Sole == IF locked THEN \E s \in Sessions : L!Owners = {s} ELSE L!Owners = {}

\* Who waits has not got the lock, who runs a statement has.
StepsFit ==
  \A s \in Sessions : /\ step[s] \in {"waiting", "given"} => ~holds[s]
                      /\ step[s] \in {"run", "savepoint"} => holds[s]

\* The invariant, of the lock,
LockKept ==
  /\ locked \in BOOLEAN /\ lockQueue \in Seq(Sessions) /\ step \in [Sessions -> SessionSteps]
  /\ holds \in [Sessions -> BOOLEAN] /\ Queued /\ Sole /\ StepsFit

\* and of what is written under it.
LockWritten ==
  /\ dirty \in [Sessions -> BOOLEAN] /\ nested \in [Sessions -> BOOLEAN]
  /\ lockWriter \in Sessions \cup {NoSession} /\ lockExcused \subseteq Sessions
  /\ lockFaults \in 0..MaxWriteFaults /\ L!WriterCovered

\* The inductive invariant.
WriteInv == LockKept /\ LockWritten

-----------------------------------------------------------------------------
\* A set of naturals that is not empty has a least element.
LEMMA LeastOf ==
  ASSUME NEW N, N \subseteq Nat, N # {}
  PROVE  \E n \in N : \A m \in N : n <= m
<1> DEFINE Less == OpToRel(<, Nat)
<1>1. IsWellFoundedOn(Less, Nat)
  BY NatLessThanWellFounded DEF Less
<1>2. PICK n \in N : \A m \in N : <<m, n>> \notin Less
  BY <1>1, WFMin
<1>3. \A m \in N : ~(m < n)
  BY <1>2 DEF OpToRel
<1> QED  BY <1>3

\* Whoever is next is in the queue.
LEMMA BestIn ==
  ASSUME L!WriteAssumption, lockQueue \in Seq(Sessions), lockQueue # <<>>
  PROVE  L!Best \in 1..Len(lockQueue)
<1> DEFINE Ranks == {Rank[lockQueue[i]] : i \in 1..Len(lockQueue)}
<1>1. /\ Len(lockQueue) \in Nat /\ 1 \in 1..Len(lockQueue)
      /\ \A i \in 1..Len(lockQueue) : lockQueue[i] \in Sessions /\ Rank[lockQueue[i]] \in Nat
  BY DEF L!WriteAssumption
<1>2. Ranks \subseteq Nat /\ Ranks # {}
  BY <1>1
<1>3. PICK n \in Ranks : \A m \in Ranks : n <= m
  BY <1>2, LeastOf
<1> DEFINE First == {i \in 1..Len(lockQueue) : Rank[lockQueue[i]] = n}
<1>4. First \subseteq Nat /\ First # {}
  BY <1>1, <1>3
<1>5. PICK i \in First : \A j \in First : i <= j
  BY <1>4, LeastOf
<1>6. \A j \in 1..Len(lockQueue) :
        Rank[lockQueue[i]] < Rank[lockQueue[j]] \/ (Rank[lockQueue[i]] = Rank[lockQueue[j]]
            /\ i <= j)
  <2> TAKE j \in 1..Len(lockQueue)
  <2>1. n <= Rank[lockQueue[j]] /\ n \in Nat /\ Rank[lockQueue[j]] \in Nat
            /\ Rank[lockQueue[i]] = n
    BY <1>1, <1>2, <1>3, <1>5
  <2>2. CASE n = Rank[lockQueue[j]]
    BY <1>5, <2>1, <2>2
  <2>3. CASE n < Rank[lockQueue[j]]
    BY <2>1, <2>3
  <2> QED  BY <2>1, <2>2, <2>3
<1>7. i \in 1..Len(lockQueue)
  BY <1>5
<1> QED  BY <1>6, <1>7 DEF L!Best

\* What leaves the queue leaves the others in their order.
LEMMA RemovedAt ==
  ASSUME NEW q \in Seq(Sessions), NEW i \in 1..Len(q)
  PROVE  /\ L!RemoveAt(q, i) \in Seq(Sessions) /\ Len(L!RemoveAt(q, i)) = Len(q) - 1
         /\ \A j \in 1..(Len(q) - 1) : L!RemoveAt(q, i)[j] = IF j < i THEN q[j] ELSE q[j + 1]
<1> DEFINE before == SubSeq(q, 1, i - 1)
           after == SubSeq(q, i + 1, Len(q))
<1>1. /\ Len(q) \in Nat /\ i \in Nat /\ 1 <= i /\ i <= Len(q)
      /\ \A j \in 1..Len(q) : q[j] \in Sessions
  OBVIOUS
<1>2. /\ before \in Seq(Sessions) /\ Len(before) = i - 1
      /\ \A j \in 1..(i - 1) : before[j] = q[j]
  BY <1>1
<1>3. /\ after \in Seq(Sessions) /\ Len(after) = Len(q) - i
      /\ \A j \in 1..(Len(q) - i) : after[j] = q[i + j]
  BY <1>1
<1>4. L!RemoveAt(q, i) = before \o after
  BY DEF L!RemoveAt
<1> HIDE DEF before, after
<1>5. L!RemoveAt(q, i) \in Seq(Sessions) /\ Len(L!RemoveAt(q, i)) = Len(q) - 1
  BY <1>1, <1>2, <1>3, <1>4
<1>6. ASSUME NEW j \in 1..(Len(q) - 1)
      PROVE  L!RemoveAt(q, i)[j] = IF j < i THEN q[j] ELSE q[j + 1]
  <2>1. CASE j < i
    BY <1>1, <1>2, <1>3, <1>4, <2>1
  <2>2. CASE ~(j < i)
    <3>1. (before \o after)[j] = after[j - (i - 1)] /\ j - (i - 1) \in 1..(Len(q) - i)
      BY <1>1, <1>2, <1>3, <2>2
    <3>2. after[j - (i - 1)] = q[i + (j - (i - 1))] /\ i + (j - (i - 1)) = j + 1
      BY <1>1, <1>3, <3>1
    <3> QED  BY <1>4, <2>2, <3>1, <3>2
  <2> QED  BY <2>1, <2>2
<1> QED  BY <1>5, <1>6

\* Without one of its members the queue lists the others.
LEMMA OthersWait ==
  ASSUME lockQueue \in Seq(Sessions), NEW i \in 1..Len(lockQueue),
         \A k, j \in 1..Len(lockQueue) : lockQueue[k] = lockQueue[j] => k = j,
         lockQueue' = L!RemoveAt(lockQueue, i)
  PROVE  /\ lockQueue' \in Seq(Sessions)
         /\ \A k, j \in 1..Len(lockQueue') : lockQueue'[k] = lockQueue'[j] => k = j
         /\ \A t \in Sessions : (\E k \in 1..Len(lockQueue') : lockQueue'[k] = t)
                                  <=> t # lockQueue[i] /\ \E k \in 1..Len(lockQueue) :
                                      lockQueue[k] = t
<1>1. /\ lockQueue' \in Seq(Sessions) /\ Len(lockQueue') = Len(lockQueue) - 1
          /\ Len(lockQueue) \in Nat
      /\ \A j \in 1..(Len(lockQueue) - 1) :
          lockQueue'[j] = IF j < i THEN lockQueue[j] ELSE lockQueue[j + 1]
  <2> DEFINE rest == L!RemoveAt(lockQueue, i)
  <2>1. /\ rest \in Seq(Sessions) /\ Len(rest) = Len(lockQueue) - 1
        /\ \A j \in 1..(Len(lockQueue) - 1) :
            rest[j] = IF j < i THEN lockQueue[j] ELSE lockQueue[j + 1]
    BY RemovedAt
  <2>2. lockQueue' = rest  OBVIOUS
  <2> HIDE DEF rest
  <2>3. Len(lockQueue) \in Nat  OBVIOUS
  <2> QED  BY <2>1, <2>2, <2>3
<1>2. ASSUME NEW k \in 1..Len(lockQueue'), NEW j \in 1..Len(lockQueue'),
lockQueue'[k] = lockQueue'[j]
      PROVE  k = j
  BY <1>1, <1>2
<1>3. ASSUME NEW k \in 1..Len(lockQueue')
      PROVE  \E j \in 1..Len(lockQueue) : j # i /\ lockQueue[j] = lockQueue'[k]
  <2>1. CASE k < i
    BY <1>1, <2>1
  <2>2. CASE ~(k < i)
    <3>1. k + 1 \in 1..Len(lockQueue) /\ k + 1 # i /\ lockQueue'[k] = lockQueue[k + 1]
      BY <1>1, <2>2
    <3> QED  BY <3>1
  <2> QED  BY <2>1, <2>2
<1>4. ASSUME NEW j \in 1..Len(lockQueue), j # i
      PROVE  \E k \in 1..Len(lockQueue') : lockQueue'[k] = lockQueue[j]
  <2>1. CASE j < i
    <3>1. j \in 1..Len(lockQueue') /\ lockQueue'[j] = lockQueue[j]
      BY <1>1, <2>1
    <3> QED  BY <3>1
  <2>2. CASE i < j
    <3>1. j - 1 \in 1..Len(lockQueue') /\ lockQueue'[j - 1] = lockQueue[j]
      BY <1>1, <2>2
    <3> QED  BY <3>1
  <2> QED  BY <1>4, <2>1, <2>2
<1>5. ASSUME NEW t \in Sessions
      PROVE  (\E k \in 1..Len(lockQueue') : lockQueue'[k] = t)
               <=> t # lockQueue[i] /\ \E k \in 1..Len(lockQueue) : lockQueue[k] = t
  <2>1. ASSUME NEW k \in 1..Len(lockQueue'), lockQueue'[k] = t
        PROVE  t # lockQueue[i] /\ \E j \in 1..Len(lockQueue) : lockQueue[j] = t
    <3>1. PICK j \in 1..Len(lockQueue) : j # i /\ lockQueue[j] = lockQueue'[k]
      BY <1>3
    <3> QED  BY <2>1, <3>1
  <2>2. ASSUME NEW k \in 1..Len(lockQueue), lockQueue[k] = t, t # lockQueue[i]
        PROVE  \E j \in 1..Len(lockQueue') : lockQueue'[j] = t
    <3>1. k # i
      BY <2>2
    <3> QED  BY <1>4, <2>2, <3>1
  <2> QED  BY <2>1, <2>2
<1> QED  BY <1>1, <1>2, <1>5

-----------------------------------------------------------------------------
(* The lock *)

\* A task that neither waits nor is handed the lock goes on: the lock does not notice.
LEMMA SessionGoes ==
  ASSUME LockKept, NEW s \in Sessions, NEW p \in SessionSteps, L!Go(s, p),
         UNCHANGED <<locked, lockQueue, holds>>,
         {step[s], p} \cap {"waiting", "given"} = {},
         p \in {"run", "savepoint"} => holds[s]
  PROVE  LockKept'
<1>1. /\ step' \in [Sessions -> SessionSteps] /\ step'[s] = p
      /\ \A t \in Sessions : t # s => step'[t] = step[t]
  BY DEF LockKept, L!Go
<1>2. Queued'
  BY <1>1 DEF LockKept, Queued
<1>3. L!Owners' = L!Owners
  BY <1>1 DEF L!Owners
<1>4. Sole' /\ StepsFit'
  BY <1>1, <1>3 DEF LockKept, Sole, StepsFit
<1> QED  BY <1>1, <1>2, <1>4 DEF LockKept

\* The owner gives the lock back: it is free, or the next in the queue is handed it.
LEMMA ReleaseKeeps ==
  ASSUME L!WriteAssumption, LockKept, NEW s \in Sessions, NEW p \in {"free", "rollback"},
         L!Release(s, p),
         s \in L!Owners, step[s] # "waiting",
         holds' \in [Sessions -> BOOLEAN], ~holds'[s],
         \A t \in Sessions : t # s => holds'[t] = holds[t]
  PROVE  LockKept'
<1>1. locked /\ L!Owners = {s}
  BY DEF LockKept, Sole
<1>2. \A t \in Sessions : t # s => ~holds[t] /\ step[t] # "given"
  BY <1>1 DEF L!Owners
<1>3. CASE lockQueue = <<>>
  <2>1. locked' = FALSE /\ lockQueue' = lockQueue /\ step' = [step EXCEPT ![s] = p]
    BY <1>3 DEF L!Release, L!Go
  <2>2. /\ step' \in [Sessions -> SessionSteps] /\ step'[s] = p
        /\ \A t \in Sessions : t # s => step'[t] = step[t]
    BY <2>1 DEF LockKept, SessionSteps
  <2>3. Queued'
    BY <1>3, <2>1, <2>2 DEF LockKept, Queued
  <2>4. L!Owners' = {}
    BY <1>2, <2>2 DEF L!Owners
  <2>5. Sole' /\ StepsFit'
    BY <1>2, <2>1, <2>2, <2>4 DEF LockKept, Sole, StepsFit
  <2> QED  BY <2>1, <2>2, <2>3, <2>5 DEF LockKept
<1>4. CASE lockQueue # <<>>
  <2>1. /\ step' = [step EXCEPT ![s] = p, ![lockQueue[L!Best]] = "given"]
        /\ lockQueue' = L!RemoveAt(lockQueue, L!Best) /\ locked' = locked
    BY <1>4 DEF L!Release
  <2>2. L!Best \in 1..Len(lockQueue)
    BY <1>4, BestIn DEF LockKept
  <2>3. PICK b \in 1..Len(lockQueue) : b = L!Best
    BY <2>2
  <2>4. PICK t \in Sessions : t = lockQueue[b]
    BY DEF LockKept
  <2>5. step[t] = "waiting" /\ t # s
    BY <2>4 DEF LockKept, Queued
  <2>6. /\ step' \in [Sessions -> SessionSteps] /\ step'[s] = p /\ step'[t] = "given"
        /\ \A v \in Sessions : v # s /\ v # t => step'[v] = step[v]
    BY <2>1, <2>3, <2>4, <2>5 DEF LockKept, SessionSteps
  <2>7. /\ lockQueue' \in Seq(Sessions)
        /\ \A k, j \in 1..Len(lockQueue') : lockQueue'[k] = lockQueue'[j] => k = j
        /\ \A v \in Sessions : (\E k \in 1..Len(lockQueue') : lockQueue'[k] = v)
                                 <=> v # t /\ \E k \in 1..Len(lockQueue) : lockQueue[k] = v
    BY <2>1, <2>3, <2>4, OthersWait DEF LockKept, Queued
  <2>8. \A v \in Sessions : step'[v] = "waiting" <=> \E k \in 1..Len(lockQueue') :
            lockQueue'[k] = v
    BY <2>5, <2>6, <2>7 DEF LockKept, Queued
  <2>9. Queued'
    BY <1>1, <2>1, <2>7, <2>8 DEF Queued
  <2>10. L!Owners' = {t}
    BY <1>2, <2>5, <2>6 DEF L!Owners
  <2>11. Sole' /\ StepsFit'
    BY <1>1, <1>2, <2>1, <2>5, <2>6, <2>10 DEF LockKept, Sole, StepsFit
  <2> QED  BY <1>1, <2>1, <2>6, <2>7, <2>9, <2>11 DEF LockKept
<1> QED  BY <1>3, <1>4

\* So does a session that lets go, whether or not it had the lock.
LEMMA LetGoKeeps ==
  ASSUME L!WriteAssumption, LockKept, NEW s \in Sessions, L!LetGo(s, "free"),
         step[s] \notin {"waiting", "given"}
  PROVE  /\ LockKept' /\ ~holds'[s]
         /\ \A t \in Sessions : t # s => holds'[t] = holds[t]
<1>1. CASE holds[s]
  <2>1. holds' = [holds EXCEPT ![s] = FALSE] /\ L!Release(s, "free")
    BY <1>1 DEF L!LetGo
  <2>2. /\ holds' \in [Sessions -> BOOLEAN] /\ ~holds'[s]
        /\ \A t \in Sessions : t # s => holds'[t] = holds[t]
    BY <2>1 DEF LockKept
  <2>3. s \in L!Owners
    BY <1>1 DEF L!Owners
  <2> QED  BY <2>1, <2>2, <2>3, ReleaseKeeps
<1>2. CASE ~holds[s]
  <2>1. L!Go(s, "free") /\ UNCHANGED <<holds, locked, lockQueue>>
    BY <1>2 DEF L!LetGo
  <2> QED  BY <1>2, <2>1, SessionGoes DEF SessionSteps
<1> QED  BY <1>1, <1>2

\* A session asks for the lock: it has it, takes it, or waits.
LEMMA AcquireKeeps ==
  ASSUME L!WriteAssumption, LockKept, NEW s \in Sessions, L!Acquire(s), step[s] = "free"
  PROVE  LockKept' /\ \A t \in Sessions : holds[t] => holds'[t]
<1>1. CASE holds[s]
  <2>1. L!Go(s, "run") /\ UNCHANGED <<locked, lockQueue, holds>>
    BY <1>1 DEF L!Acquire
  <2> QED  BY <1>1, <2>1, SessionGoes DEF SessionSteps
<1>2. CASE ~holds[s] /\ ~locked /\ lockQueue = <<>>
  <2>1. /\ locked' = TRUE /\ holds' = [holds EXCEPT ![s] = TRUE]
        /\ step' = [step EXCEPT ![s] = "run"] /\ lockQueue' = lockQueue
    BY <1>2 DEF L!Acquire, L!Go
  <2>2. /\ step' \in [Sessions -> SessionSteps] /\ step'[s] = "run"
        /\ \A t \in Sessions : t # s => step'[t] = step[t]
        /\ holds' \in [Sessions -> BOOLEAN] /\ holds'[s]
        /\ \A t \in Sessions : t # s => holds'[t] = holds[t]
    BY <2>1 DEF LockKept, SessionSteps
  <2>3. Queued'
    BY <2>1, <2>2 DEF LockKept, Queued
  <2>4. L!Owners = {}
    BY <1>2 DEF LockKept, Sole
  <2>5. L!Owners' = {s}
    BY <2>2, <2>4 DEF L!Owners
  <2>6. Sole' /\ StepsFit'
    BY <2>1, <2>2, <2>5 DEF LockKept, Sole, StepsFit
  <2> QED  BY <2>1, <2>2, <2>3, <2>6 DEF LockKept
<1>3. CASE ~holds[s] /\ ~(~locked /\ lockQueue = <<>>)
  <2>1. /\ step' = [step EXCEPT ![s] = "waiting"] /\ lockQueue' = Append(lockQueue, s)
        /\ UNCHANGED <<locked, holds>>
    BY <1>3 DEF L!Acquire, L!Go
  <2>2. /\ step' \in [Sessions -> SessionSteps] /\ step'[s] = "waiting"
        /\ \A t \in Sessions : t # s => step'[t] = step[t]
    BY <2>1 DEF LockKept, SessionSteps
  <2>3. /\ lockQueue' \in Seq(Sessions) /\ Len(lockQueue') = Len(lockQueue) + 1
            /\ Len(lockQueue) \in Nat
        /\ \A k \in 1..Len(lockQueue) : lockQueue'[k] = lockQueue[k]
        /\ lockQueue'[Len(lockQueue) + 1] = s
    BY <2>1 DEF LockKept
  <2>4. \A k \in 1..Len(lockQueue) : lockQueue[k] # s
    BY DEF LockKept, Queued
  <2>5. \A k, j \in 1..Len(lockQueue') : lockQueue'[k] = lockQueue'[j] => k = j
    BY <2>3, <2>4 DEF LockKept, Queued
  <2>6. ASSUME NEW t \in Sessions
        PROVE  step'[t] = "waiting" <=> \E k \in 1..Len(lockQueue') : lockQueue'[k] = t
    <3>1. CASE t = s
      BY <2>2, <2>3, <3>1
    <3>2. CASE t # s
      <4>1. (\E k \in 1..Len(lockQueue') : lockQueue'[k] = t) <=> \E k \in 1..Len(lockQueue) :
                lockQueue[k] = t
        BY <2>3, <3>2
      <4> QED  BY <2>2, <3>2, <4>1 DEF LockKept, Queued
    <3> QED  BY <3>1, <3>2
  <2>7. locked
    BY <1>3 DEF LockKept, Queued
  <2>8. Queued'
    BY <2>1, <2>5, <2>6, <2>7 DEF Queued
  <2>9. L!Owners' = L!Owners
    BY <2>1, <2>2 DEF L!Owners
  <2>10. Sole' /\ StepsFit'
    BY <1>3, <2>1, <2>2, <2>9 DEF LockKept, Sole, StepsFit
  <2> QED  BY <2>1, <2>2, <2>3, <2>8, <2>10 DEF LockKept
<1> QED  BY <1>1, <1>2, <1>3

-----------------------------------------------------------------------------
(* The invariant, action by action *)

\* Who was handed the lock runs, or gives up and hands it on.
LEMMA HandedKeeps ==
  ASSUME L!WriteAssumption, WriteInv, NEW s \in Sessions, L!Handed(s) \/ L!GiveUp(s)
  PROVE  WriteInv'
<1>u. UNCHANGED <<dirty, nested, lockWriter, lockExcused, lockFaults>>
  BY DEF L!Handed, L!GiveUp
<1>1. CASE L!Handed(s)
  <2>1. /\ step[s] = "given" /\ step' = [step EXCEPT ![s] = "run"]
        /\ holds' = [holds EXCEPT ![s] = TRUE] /\ UNCHANGED <<locked, lockQueue>>
    BY <1>1 DEF L!Handed, L!Go
  <2>2. /\ step' \in [Sessions -> SessionSteps] /\ step'[s] = "run"
        /\ \A t \in Sessions : t # s => step'[t] = step[t]
        /\ holds' \in [Sessions -> BOOLEAN] /\ holds'[s]
        /\ \A t \in Sessions : t # s => holds'[t] = holds[t]
    BY <2>1 DEF WriteInv, LockKept, SessionSteps
  <2>3. Queued'
    BY <2>1, <2>2 DEF WriteInv, LockKept, Queued
  <2>4. L!Owners' = L!Owners
    BY <2>1, <2>2 DEF L!Owners
  <2>5. Sole' /\ StepsFit'
    BY <2>1, <2>2, <2>4 DEF WriteInv, LockKept, Sole, StepsFit
  <2>6. LockWritten'
    BY <1>u, <2>2 DEF WriteInv, LockWritten, L!WriterCovered
  <2> QED  BY <2>1, <2>2, <2>3, <2>5, <2>6 DEF WriteInv, LockKept
<1>2. CASE L!GiveUp(s) /\ step[s] = "waiting"
  <2>1. /\ step' = [step EXCEPT ![s] = "rollback"] /\ UNCHANGED <<locked, holds>>
        /\ \E i \in 1..Len(lockQueue) : lockQueue[i] = s
            /\ lockQueue' = L!RemoveAt(lockQueue, i)
    BY <1>2 DEF L!GiveUp, L!Go
  <2>2. PICK i \in 1..Len(lockQueue) : lockQueue[i] = s
            /\ lockQueue' = L!RemoveAt(lockQueue, i)
    BY <2>1
  <2>3. /\ step' \in [Sessions -> SessionSteps] /\ step'[s] = "rollback"
        /\ \A t \in Sessions : t # s => step'[t] = step[t]
    BY <2>1 DEF WriteInv, LockKept, SessionSteps
  <2>4. /\ lockQueue' \in Seq(Sessions)
        /\ \A k, j \in 1..Len(lockQueue') : lockQueue'[k] = lockQueue'[j] => k = j
        /\ \A t \in Sessions : (\E k \in 1..Len(lockQueue') : lockQueue'[k] = t)
                                 <=> t # s /\ \E k \in 1..Len(lockQueue) : lockQueue[k] = t
    BY <2>2, OthersWait DEF WriteInv, LockKept, Queued
  <2>5. \A t \in Sessions : step'[t] = "waiting" <=> \E k \in 1..Len(lockQueue') :
            lockQueue'[k] = t
    BY <2>3, <2>4 DEF WriteInv, LockKept, Queued
  <2>6. locked
    BY <2>2 DEF WriteInv, LockKept, Queued
  <2>7. Queued'
    BY <2>1, <2>4, <2>5, <2>6 DEF Queued
  <2>8. L!Owners' = L!Owners
    BY <1>2, <2>1, <2>3 DEF L!Owners
  <2>9. Sole' /\ StepsFit'
    BY <2>1, <2>3, <2>8 DEF WriteInv, LockKept, Sole, StepsFit
  <2>10. LockWritten'
    BY <1>u, <2>1 DEF WriteInv, LockWritten, L!WriterCovered
  <2> QED  BY <2>1, <2>3, <2>4, <2>7, <2>9, <2>10 DEF WriteInv, LockKept
<1>3. CASE L!GiveUp(s) /\ step[s] = "given"
  <2>1. L!Release(s, "rollback") /\ holds' = holds
    BY <1>3 DEF L!GiveUp
  <2>2. s \in L!Owners /\ ~holds[s]
    BY <1>3 DEF WriteInv, LockKept, StepsFit, L!Owners
  <2>3. LockKept'
    BY <1>3, <2>1, <2>2, ReleaseKeeps DEF WriteInv, LockKept
  <2>4. LockWritten'
    BY <1>u, <2>1 DEF WriteInv, LockWritten, L!WriterCovered
  <2> QED  BY <2>3, <2>4 DEF WriteInv
<1> QED  BY <1>1, <1>2, <1>3 DEF L!GiveUp

\* Changes, flushes without the lock, savepoints and the request for the lock.
LEMMA WorkKeepsLock ==
  ASSUME L!WriteAssumption, WriteInv, NEW s \in Sessions,
         L!Change(s) \/ L!Unguarded(s) \/ L!BeginNested(s) \/ L!Ask(s) \/ L!Close(s)
  PROVE  WriteInv'
<1>1. CASE L!Change(s) \/ L!BeginNested(s)
  <2>1. /\ UNCHANGED <<locked, lockQueue, step, holds, lockWriter, lockExcused, lockFaults>>
        /\ dirty' \in [Sessions -> BOOLEAN] /\ nested' \in [Sessions -> BOOLEAN]
    BY <1>1 DEF WriteInv, LockWritten, L!Change, L!BeginNested
  <2>2. LockKept'
    BY <2>1 DEF WriteInv, LockKept, Queued, Sole, StepsFit, L!Owners
  <2>3. LockWritten'
    BY <2>1 DEF WriteInv, LockWritten, L!WriterCovered
  <2> QED  BY <2>2, <2>3 DEF WriteInv
<1>2. CASE L!Unguarded(s) /\ L!CanWrite(s)
  <2>1. /\ UNCHANGED <<locked, lockQueue, step, holds, nested, lockFaults>>
        /\ lockWriter' = s /\ dirty' = [dirty EXCEPT ![s] = FALSE]
        /\ lockExcused' = (IF holds[s] THEN lockExcused ELSE lockExcused \cup {s})
    BY <1>2 DEF L!Unguarded
  <2>2. LockKept'
    BY <2>1 DEF WriteInv, LockKept, Queued, Sole, StepsFit, L!Owners
  <2>3. LockWritten'
    BY <2>1 DEF WriteInv, LockWritten, L!WriterCovered
  <2> QED  BY <2>2, <2>3 DEF WriteInv
<1>3. CASE (L!Unguarded(s) /\ ~L!CanWrite(s)) \/ L!Close(s)
  <2>1. /\ L!Go(s, "rollback") /\ step[s] = "free"
        /\ UNCHANGED <<locked, lockQueue, holds, dirty, nested, lockWriter, lockExcused,
                       lockFaults>>
    BY <1>3 DEF L!Unguarded, L!Close
  <2>2. LockKept'
    BY <2>1, SessionGoes DEF WriteInv, SessionSteps
  <2>3. LockWritten'
    BY <2>1 DEF WriteInv, LockWritten, L!WriterCovered
  <2> QED  BY <2>2, <2>3 DEF WriteInv
<1>4. CASE L!Ask(s)
  <2>1. LockKept' /\ \A t \in Sessions : holds[t] => holds'[t]
    BY <1>4, AcquireKeeps DEF WriteInv, L!Ask
  <2>2. UNCHANGED <<dirty, nested, lockWriter, lockExcused, lockFaults>>
    BY <1>4 DEF L!Ask
  <2>3. LockWritten'
    BY <2>1, <2>2 DEF WriteInv, LockWritten, L!WriterCovered
  <2> QED  BY <2>1, <2>3 DEF WriteInv
<1> QED  BY <1>1, <1>2, <1>3, <1>4

\* A statement that writes ran, was refused or failed.
LEMMA StatementKeeps ==
  ASSUME L!WriteAssumption, WriteInv, NEW s \in Sessions,
         L!Written(s) \/ L!Refused(s) \/ L!Failed(s)
  PROVE  WriteInv'
<1>1. /\ step[s] = "run" /\ UNCHANGED <<locked, lockQueue, holds, nested, lockExcused>>
      /\ \E p \in {"free", "savepoint", "rollback"} : L!Go(s, p)
      /\ lockWriter' \in {lockWriter, s} /\ dirty' \in {dirty, [dirty EXCEPT ![s] = FALSE]}
  BY DEF L!Written, L!Refused, L!Failed, L!MayWrite
<1>2. holds[s]
  BY <1>1 DEF WriteInv, LockKept, StepsFit
<1>3. LockKept'
  BY <1>1, <1>2, SessionGoes DEF WriteInv, SessionSteps
<1>4. lockFaults' \in 0..MaxWriteFaults
  BY DEF L!Written, L!Refused, L!Failed, L!Fails, L!Fine, WriteInv, LockWritten,
     L!WriteAssumption
<1>5. dirty' \in [Sessions -> BOOLEAN]
  BY <1>1 DEF WriteInv, LockWritten
<1>6. LockWritten'
  BY <1>1, <1>2, <1>4, <1>5 DEF WriteInv, LockWritten, L!WriterCovered
<1> QED  BY <1>3, <1>6 DEF WriteInv

\* The rollback to a savepoint.
LEMMA SavepointKeeps ==
  ASSUME L!WriteAssumption, WriteInv, NEW s \in Sessions, L!Savepoint(s)
  PROVE  WriteInv'
<1>1. /\ step[s] = "savepoint"
          /\ UNCHANGED <<locked, lockQueue, holds, lockWriter, lockExcused>>
      /\ \E p \in {"free", "rollback"} : L!Go(s, p)
      /\ dirty' \in {dirty, [dirty EXCEPT ![s] = FALSE]}
      /\ nested' \in {nested, [nested EXCEPT ![s] = FALSE]}
  BY DEF L!Savepoint
<1>2. LockKept'
  BY <1>1, SessionGoes DEF WriteInv, SessionSteps
<1>3. lockFaults' \in 0..MaxWriteFaults
  BY DEF L!Savepoint, L!Fails, L!Fine, WriteInv, LockWritten, L!WriteAssumption
<1>4. dirty' \in [Sessions -> BOOLEAN] /\ nested' \in [Sessions -> BOOLEAN]
  BY <1>1 DEF WriteInv, LockWritten
<1>5. LockWritten'
  BY <1>1, <1>3, <1>4 DEF WriteInv, LockWritten, L!WriterCovered
<1> QED  BY <1>2, <1>5 DEF WriteInv

\* The ends of a transaction.
LEMMA TransactionKeeps ==
  ASSUME L!WriteAssumption, WriteInv, NEW s \in Sessions, L!Committed(s) \/ L!Rollback(s)
  PROVE  WriteInv'
<1>1. /\ L!LetGo(s, "free") /\ step[s] \in {"run", "free", "rollback"}
      /\ dirty' = [dirty EXCEPT ![s] = FALSE] /\ nested' = [nested EXCEPT ![s] = FALSE]
  BY DEF L!Committed, L!Rollback
<1>2. LockKept' /\ ~holds'[s] /\ \A t \in Sessions : t # s => holds'[t] = holds[t]
  BY <1>1, LetGoKeeps DEF WriteInv
<1>3. \/ lockWriter' = (IF lockWriter = s THEN NoSession ELSE lockWriter)
          /\ lockExcused' = lockExcused \ {s}
      \/ lockWriter' = lockWriter /\ lockExcused' = lockExcused \cup {s}
  BY DEF L!Committed, L!Rollback
<1>4. lockFaults' \in 0..MaxWriteFaults
  BY DEF L!Committed, L!Rollback, L!Fails, L!Fine, WriteInv, LockWritten, L!WriteAssumption
<1>5. /\ dirty' \in [Sessions -> BOOLEAN] /\ nested' \in [Sessions -> BOOLEAN]
      /\ lockWriter' \in Sessions \cup {NoSession} /\ lockExcused' \subseteq Sessions
  BY <1>1, <1>3 DEF WriteInv, LockWritten
<1>6. L!WriterCovered'
  BY <1>2, <1>3 DEF WriteInv, LockWritten, L!WriterCovered
<1>7. LockWritten'
  BY <1>4, <1>5, <1>6 DEF LockWritten
<1> QED  BY <1>2, <1>7 DEF WriteInv

\* The module of the lock counts as the library does.
LEMMA LockCardinality == \A N : L!Cardinality(N) = Cardinality(N)
BY DEF L!Cardinality, Cardinality

\* The lock is counted as it is taken.
LEMMA LockCounted ==
  ASSUME LockKept
  PROVE  L!LockAccounted
<1>1. L!Cardinality(L!Owners) = IF locked THEN 1 ELSE 0
  BY FS_EmptySet, FS_Singleton, LockCardinality DEF LockKept, Sole
<1>2. \A s \in Sessions : L!Contains(lockQueue, s) <=> \E i \in 1..Len(lockQueue) :
          lockQueue[i] = s
  BY DEF L!Contains
<1> QED  BY <1>1, <1>2 DEF LockKept, Queued, L!LockAccounted

\* The invariant of the write lock: it is neither leaked nor doubled, and SQLite's writer
\* has it, for any number of sessions, ranks and failed statements.
THEOREM WriteInvariant ==
  ASSUME L!WriteAssumption
  PROVE  L!Init /\ [][L!Next]_lockVars => []WriteInv
<1>1. L!Init => WriteInv
  <2> SUFFICES ASSUME L!Init
               PROVE  WriteInv
    OBVIOUS
  <2>1. /\ Len(lockQueue) = 0 /\ lockQueue \in Seq(Sessions) /\ L!Owners = {} /\ Queued
    BY DEF L!Init, L!Owners, Queued
  <2>2. LockKept
    BY <2>1 DEF L!Init, LockKept, Sole, StepsFit, SessionSteps
  <2>3. LockWritten
    BY DEF L!Init, LockWritten, L!WriterCovered, L!WriteAssumption
  <2> QED  BY <2>2, <2>3 DEF WriteInv
<1>2. WriteInv /\ [L!Next]_lockVars => WriteInv'
  <2> SUFFICES ASSUME WriteInv, [L!Next]_lockVars
               PROVE  WriteInv'
    OBVIOUS
  <2>1. CASE UNCHANGED lockVars
    BY <2>1 DEF lockVars, WriteInv, LockKept, LockWritten, Queued, Sole, StepsFit, L!Owners,
       L!WriterCovered
  <2>2. CASE L!Next
    BY <2>2, HandedKeeps, WorkKeepsLock, StatementKeeps, SavepointKeeps, TransactionKeeps
    DEF L!Next
  <2> QED  BY <2>1, <2>2
<1> QED  BY <1>1, <1>2, PTL

-----------------------------------------------------------------------------
(* The HTTP session: HttpSession *)

\* Who has the lock is closing, and nobody else is.
OneCloser ==
  /\ reset # Nobody => httpAt[reset] \in {"closing", "lastclosing"}
  /\ \A c \in H!Callers : httpAt[c] \in {"closing", "lastclosing"} => reset = c

\* A close began with nobody at work: who exchanges has begun since then.
CloseAlone ==
  reset # Nobody =>
    /\ ~(rebuild /\ open)
    /\ \A c \in H!Callers : httpAt[c] # "linger" /\ (httpAt[c] = "exchange" => c \in caught)

\* A connector that is to be rebuilt and is open was built during a close; whoever lingers
\* has closed it.
RebuildSafe ==
  rebuild /\ open =>
    \A c \in H!Callers : httpAt[c] # "linger" /\ (httpAt[c] = "exchange" => c \in caught)

\* The inductive invariant.
SessionInv == H!TypeOK /\ OneCloser /\ CloseAlone /\ RebuildSafe /\ H!NobodyCut

\* The callers, and what a step of one does to their places.
LEMMA GoParts ==
  ASSUME H!HttpAssumption, H!TypeOK, NEW c \in H!Callers, NEW s \in H!Steps, H!Go(c, s)
  PROVE  /\ httpAt' \in [H!Callers -> H!Steps] /\ httpAt'[c] = s
         /\ \A d \in H!Callers : d # c => httpAt'[d] = httpAt[d]
         /\ Nobody \notin H!Callers /\ ResetFailures \in Nat /\ MaxConnectors \in Nat
BY DEF H!HttpAssumption, H!TypeOK, H!Go, H!Callers

\* Steps that leave the connector alone and begin no exchange.
LEMMA ConnectorKept ==
  ASSUME H!HttpAssumption, SessionInv, NEW c \in H!Callers, NEW s \in H!Steps, H!Go(c, s),
         s \notin {"linger", "exchange", "closing", "lastclosing"},
         httpAt[c] \notin {"closing", "lastclosing"},
         UNCHANGED <<gen, open, rebuild, reset>>,
         caught' = caught \/ caught' = caught \ {c},
         uses' = uses \/ uses' = [uses EXCEPT ![c] = 0],
         failures' \in 0..ResetFailures, httpWanted' \in BOOLEAN
  PROVE  SessionInv'
<1>1. /\ httpAt' \in [H!Callers -> H!Steps] /\ httpAt'[c] = s
      /\ \A d \in H!Callers : d # c => httpAt'[d] = httpAt[d]
      /\ Nobody \notin H!Callers /\ MaxConnectors \in Nat
  BY GoParts DEF SessionInv
<1>2. H!TypeOK'
  BY <1>1 DEF SessionInv, H!TypeOK
<1>3. OneCloser'
  BY <1>1 DEF SessionInv, H!TypeOK, OneCloser
<1>4. CloseAlone' /\ RebuildSafe'
  BY <1>1 DEF SessionInv, CloseAlone, RebuildSafe
<1>5. H!NobodyCut'
  BY <1>1 DEF SessionInv, H!TypeOK, H!NobodyCut
<1> QED  BY <1>2, <1>3, <1>4, <1>5 DEF SessionInv

\* Coming, going and the checks: enter, an answer and the check after it.
LEMMA ComeAndGoKeep ==
  ASSUME H!HttpAssumption, SessionInv, NEW c \in H!Callers, H!Enter(c) \/ H!Leave(c)
      \/ H!Last(c)
  PROVE  SessionInv'
<1>t. /\ failures \in 0..ResetFailures /\ httpWanted \in BOOLEAN /\ ResetFailures \in Nat
  BY DEF SessionInv, H!TypeOK, H!HttpAssumption
<1>1. CASE H!Enter(c)
  <2>1. \E s \in {"create", "queued"} : H!Go(c, s)
    BY <1>1 DEF H!Enter, H!Request, H!Download, H!Check
  <2> QED  BY <1>1, <1>t, <2>1, ConnectorKept DEF H!Enter, H!Steps
<1>2. CASE H!Leave(c)
  <2>1. failures' \in 0..ResetFailures /\ httpWanted' \in BOOLEAN
    <3>1. CASE H!Count(c)
      <4>1. CASE failures' = 0 /\ UNCHANGED httpWanted
        BY <1>t, <4>1
      <4>2. CASE /\ failures' = (IF failures < ResetFailures THEN failures + 1 ELSE failures)
                 /\ httpWanted' = (httpWanted \/ failures + 1 >= ResetFailures)
        BY <1>t, <4>2
      <4>3. CASE UNCHANGED <<failures, httpWanted>>
        BY <1>t, <4>3
      <4> QED  BY <3>1, <4>1, <4>2, <4>3 DEF H!Count
    <3>2. CASE UNCHANGED <<failures, httpWanted>>
      BY <1>t, <3>2
    <3> QED  BY <1>2, <3>1, <3>2 DEF H!Leave
  <2> QED  BY <1>2, <2>1, ConnectorKept DEF H!Leave, H!Steps
<1>3. CASE H!Last(c)
  <2>1. \E s \in {"idle", "lastqueued"} : H!Go(c, s)
    BY <1>3 DEF H!Last, H!Check
  <2> QED  BY <1>3, <1>t, <2>1, ConnectorKept DEF H!Last, H!Steps
<1> QED  BY <1>1, <1>2, <1>3

\* With the lock: the connector is closed while nobody is at work.
LEMMA LockedKeeps ==
  ASSUME H!HttpAssumption, SessionInv, NEW c \in H!Callers, H!Locked(c)
  PROVE  SessionInv'
<1>1. CASE H!Due
  <2>1. /\ httpAt[c] \in {"queued", "lastqueued"} /\ reset = Nobody /\ reset' = c
            /\ open' = FALSE
        /\ H!Go(c, H!Closes(httpAt[c]))
            /\ UNCHANGED <<uses, gen, rebuild, httpWanted, failures, caught>>
    BY <1>1 DEF H!Locked
  <2>2. H!Closes(httpAt[c]) \in {"closing", "lastclosing"}
    BY DEF H!Closes
  <2>3. \A d \in H!Callers : httpAt[d] \notin {"create", "linger", "exchange"}
    BY <1>1 DEF H!Due, H!Active
  <2>4. /\ httpAt' \in [H!Callers -> H!Steps] /\ httpAt'[c] = H!Closes(httpAt[c])
        /\ \A d \in H!Callers : d # c => httpAt'[d] = httpAt[d]
        /\ Nobody \notin H!Callers /\ MaxConnectors \in Nat
    BY <2>1, <2>2, GoParts DEF SessionInv, H!Steps
  <2>5. H!TypeOK'
    BY <2>1, <2>4 DEF SessionInv, H!TypeOK
  <2>6. OneCloser'
    BY <2>1, <2>2, <2>4 DEF SessionInv, OneCloser
  <2>7. \A d \in H!Callers : httpAt'[d] \notin {"linger", "exchange"}
    BY <2>2, <2>3, <2>4
  <2>8. CloseAlone' /\ RebuildSafe' /\ H!NobodyCut'
    BY <2>1, <2>7 DEF CloseAlone, RebuildSafe, H!NobodyCut
  <2> QED  BY <2>5, <2>6, <2>8 DEF SessionInv
<1>2. CASE ~H!Due
  <2>1. /\ httpAt[c] \in {"queued", "lastqueued"} /\ H!Go(c, H!After(httpAt[c]))
        /\ UNCHANGED <<uses, gen, open, rebuild, reset, httpWanted, failures, caught>>
    BY <1>2 DEF H!Locked
  <2>2. H!After(httpAt[c]) \in {"create", "idle"}
    BY DEF H!After
  <2> QED  BY <2>1, <2>2, ConnectorKept DEF SessionInv, H!TypeOK, H!Steps
<1> QED  BY <1>1, <1>2

\* The close is over: what was built meanwhile is to be rebuilt.
LEMMA ClosedKeeps ==
  ASSUME H!HttpAssumption, SessionInv, NEW c \in H!Callers, H!Closed(c)
  PROVE  SessionInv'
<1>1. /\ httpAt[c] \in {"closing", "lastclosing"} /\ rebuild' = TRUE /\ reset' = Nobody
      /\ httpWanted' = FALSE /\ failures' = 0 /\ UNCHANGED <<uses, gen, open, caught>>
      /\ \E s \in {"create", "idle"} : H!Go(c, s)
  BY DEF H!Closed
<1>2. PICK s \in {"create", "idle"} : H!Go(c, s)
  BY <1>1
<1>3. /\ httpAt' \in [H!Callers -> H!Steps] /\ httpAt'[c] = s
      /\ \A d \in H!Callers : d # c => httpAt'[d] = httpAt[d]
      /\ Nobody \notin H!Callers /\ ResetFailures \in Nat /\ MaxConnectors \in Nat
  BY <1>2, GoParts DEF SessionInv, H!Steps
<1>4. reset = c
  BY <1>1 DEF SessionInv, OneCloser
<1>5. H!TypeOK'
  <2>1. failures' \in 0..ResetFailures
    BY <1>1, <1>3
  <2> QED  BY <1>1, <1>3, <2>1 DEF SessionInv, H!TypeOK
<1>6. OneCloser'
  BY <1>1, <1>3, <1>4 DEF SessionInv, OneCloser
<1>7. \A d \in H!Callers : httpAt'[d] # "linger" /\ (httpAt'[d] = "exchange" => d \in caught)
  BY <1>3, <1>4 DEF SessionInv, CloseAlone
<1>8. CloseAlone' /\ RebuildSafe' /\ H!NobodyCut'
  BY <1>1, <1>7 DEF CloseAlone, RebuildSafe, H!NobodyCut
<1> QED  BY <1>5, <1>6, <1>8 DEF SessionInv

\* A session is created, or the open one joined.
LEMMA SessionCreated ==
  ASSUME H!HttpAssumption, SessionInv, NEW c \in H!Callers, H!Create(c)
  PROVE  SessionInv'
<1>1. /\ H!Go(c, "exchange") /\ UNCHANGED <<httpWanted, failures, reset>>
      /\ caught' = (IF reset # Nobody THEN caught \cup {c} ELSE caught)
      /\ httpAt[c] \in {"create", "linger"} /\ (httpAt[c] = "create" => ~(rebuild /\ open))
  BY DEF H!Create
<1>2. /\ httpAt' \in [H!Callers -> H!Steps] /\ httpAt'[c] = "exchange"
      /\ \A d \in H!Callers : d # c => httpAt'[d] = httpAt[d]
      /\ Nobody \notin H!Callers /\ MaxConnectors \in Nat
  BY <1>1, GoParts DEF SessionInv, H!Steps
<1>3. ~(rebuild /\ open)
  BY <1>1 DEF SessionInv, RebuildSafe
<1>4. OneCloser'
  BY <1>1, <1>2 DEF SessionInv, H!TypeOK, OneCloser
<1>5. CASE open
  <2>1. uses' = [uses EXCEPT ![c] = gen] /\ UNCHANGED <<gen, open, rebuild>>
    BY <1>5 DEF H!Create
  <2>2. H!TypeOK'
    BY <1>1, <1>2, <2>1 DEF SessionInv, H!TypeOK
  <2>3. CloseAlone' /\ RebuildSafe'
    BY <1>1, <1>2, <1>3, <2>1 DEF SessionInv, CloseAlone, RebuildSafe
  <2>4. H!NobodyCut'
    BY <1>1, <1>2, <1>5, <2>1 DEF SessionInv, H!TypeOK, H!NobodyCut
  <2> QED  BY <1>4, <2>2, <2>3, <2>4 DEF SessionInv
<1>6. CASE ~open
  <2>1. /\ gen < MaxConnectors /\ gen' = gen + 1 /\ open' = TRUE /\ rebuild' = FALSE
        /\ uses' = [uses EXCEPT ![c] = gen + 1]
    BY <1>6 DEF H!Create
  <2>2. gen + 1 \in 0..MaxConnectors
    BY <1>2, <2>1 DEF SessionInv, H!TypeOK
  <2>3. H!TypeOK'
    BY <1>1, <1>2, <2>1, <2>2 DEF SessionInv, H!TypeOK
  <2>4. CloseAlone' /\ RebuildSafe'
    BY <1>1, <1>2, <2>1 DEF SessionInv, CloseAlone, RebuildSafe
  <2>5. H!NobodyCut'
    BY <1>1, <1>2, <1>6, <2>1 DEF SessionInv, H!TypeOK, H!NobodyCut
  <2> QED  BY <1>4, <2>3, <2>4, <2>5 DEF SessionInv
<1> QED  BY <1>5, <1>6

\* What is to be rebuilt is closed first.
LEMMA CloseFirstKeeps ==
  ASSUME H!HttpAssumption, SessionInv, NEW c \in H!Callers, H!CloseFirst(c)
  PROVE  SessionInv'
<1>1. /\ httpAt[c] = "create" /\ rebuild /\ open /\ open' = FALSE /\ H!Go(c, "linger")
      /\ UNCHANGED <<uses, gen, rebuild, httpWanted, failures, reset, caught>>
  BY DEF H!CloseFirst
<1>2. /\ httpAt' \in [H!Callers -> H!Steps] /\ httpAt'[c] = "linger"
      /\ \A d \in H!Callers : d # c => httpAt'[d] = httpAt[d]
      /\ Nobody \notin H!Callers
  BY <1>1, GoParts DEF SessionInv, H!Steps
<1>3. reset = Nobody
  BY <1>1 DEF SessionInv, CloseAlone
<1>4. H!TypeOK'
  BY <1>1, <1>2 DEF SessionInv, H!TypeOK
<1>5. OneCloser'
  BY <1>1, <1>2, <1>3 DEF SessionInv, OneCloser
<1>6. CloseAlone' /\ RebuildSafe'
  BY <1>1, <1>3 DEF CloseAlone, RebuildSafe
<1>7. H!NobodyCut'
  BY <1>1, <1>2 DEF SessionInv, RebuildSafe, H!NobodyCut
<1> QED  BY <1>4, <1>5, <1>6, <1>7 DEF SessionInv

\* The invariant of the HTTP session: no reset cuts an exchange, for any number of requests,
\* downloads and connectors, but one that began while the reset was closing.
THEOREM SessionInvariant ==
  ASSUME H!HttpAssumption
  PROVE  H!Init /\ [][H!Next]_httpVars => []SessionInv
<1>1. H!Init => SessionInv
  <2> SUFFICES ASSUME H!Init
               PROVE  SessionInv
    OBVIOUS
  <2>1. H!TypeOK
    <3>1. 0 \in 0..MaxConnectors /\ 0 \in 0..ResetFailures
      BY DEF H!HttpAssumption
    <3>2. httpAt \in [H!Callers -> H!Steps] /\ uses \in [H!Callers -> 0..MaxConnectors]
      BY <3>1 DEF H!Init, H!Steps
    <3> QED  BY <3>1, <3>2 DEF H!Init, H!TypeOK
  <2>2. OneCloser /\ CloseAlone /\ RebuildSafe /\ H!NobodyCut
    BY DEF H!Init, OneCloser, CloseAlone, RebuildSafe, H!NobodyCut
  <2> QED  BY <2>1, <2>2 DEF SessionInv
<1>2. SessionInv /\ [H!Next]_httpVars => SessionInv'
  <2> SUFFICES ASSUME SessionInv, [H!Next]_httpVars
               PROVE  SessionInv'
    OBVIOUS
  <2>1. CASE UNCHANGED httpVars
    BY <2>1 DEF httpVars, SessionInv, H!TypeOK, OneCloser, CloseAlone, RebuildSafe, H!NobodyCut
  <2>2. CASE H!Next
    BY <2>2, ComeAndGoKeep, LockedKeeps, ClosedKeeps, SessionCreated,
       CloseFirstKeeps DEF H!Next
  <2> QED  BY <2>1, <2>2
<1> QED  BY <1>1, <1>2, PTL

-----------------------------------------------------------------------------
(* The debounced replies: PendingReplies *)

\* What the sets of items are.
ReplyItems ==
  /\ replyQueue \in [Senders -> SUBSET R!Updates] /\ held \in [Senders -> SUBSET R!Updates]
  /\ replyBatch \in [Senders -> SUBSET R!Updates]
ItemWaits(u) == u \in replyQueue[u[1]] \cup held[u[1]]

\* What a worker or a row owns is not settled, and is owned by the worker once.
OwnersHold ==
  \A u \in R!Updates :
    /\ ItemWaits(u) => replyAt[u] = "receipt"
    /\ u \in replyQueue[u[1]] => u \notin held[u[1]]
    /\ replyAt[u] = "done" => \A r \in rows : u \notin r[2]

\* A worker holds the batch of its child until the child has ended, or gave it up.
WorkersHold ==
  \A s \in Senders :
    /\ held[s] \subseteq replyBatch[s]
    /\ worker[s] \notin {"guard", "orphan"} => held[s] = {}
    /\ closing => worker[s] = "none" /\ replyQueue[s] = {}
    /\ R!Live(s) => IF closing THEN replyBatch[s] \subseteq replyExcused
                    ELSE replyBatch[s] \subseteq held[s]

\* What is consumed or decided was heard, and a notice is the last word.
WordsFit ==
  \A s \in Senders :
    /\ child[s] \in {"queued", "run"} => s \notin consumed
    /\ s \in consumed \/ child[s] \in {"sent", "ok"} => replyBatch[s] \subseteq replyHeard
    /\ s \in noticed => ~R!Live(s) /\ s \notin consumed

\* An answered message is not answered again, unless there is an excuse.
AnsweredFit ==
  \A u \in R!Updates \ replyExcused :
    /\ replyAt[u] \in {"new", "handled"} \/ ItemWaits(u) => u \in sound
    /\ answers[u] > 0 =>
         /\ replyAt[u] \in {"receipt", "done"} /\ u \in sound /\ u \notin replyQueue[u[1]]
         /\ u \in held[u[1]] => u[1] \in consumed
    /\ answers[u] <= 1
    /\ closing => replyAt[u] = "done"

\* A message to the bot that nobody holds any more was heard, or is tried again.
DirectFit ==
  \A u \in Direct :
    /\ replyAt[u] = "receipt" /\ u \in sound /\ ~ItemWaits(u) => u \in replyHeard
    /\ replyAt[u] = "done" => u \in replyHeard

\* The inductive invariant.
RepliesInv ==
  R!TypeOK /\ ReplyItems /\ OwnersHold /\ WorkersHold /\ WordsFit /\ AnsweredFit /\ DirectFit

\* A message is of its sender.
LEMMA ItsSender ==
  ASSUME R!ReplyAssumption
  PROVE  /\ \A u \in R!Updates : u[1] \in Senders
         /\ \A s \in Senders, u \in R!Updates : u \in R!From(s) <=> u[1] = s
         /\ \A s \in Senders : R!From(s) \subseteq R!Updates
         /\ Direct \subseteq R!Updates
BY DEF R!ReplyAssumption, R!Updates, R!From

\* A failure is one of the bounded ones.
LEMMA ReplyFaultsFit ==
  ASSUME R!ReplyAssumption, R!TypeOK, R!Fine \/ R!Fault 
      PROVE replyFaults' \in 0..MaxReplyFaults
BY DEF R!ReplyAssumption, R!TypeOK, R!Fine, R!Fault

\* What a shutdown gives up: what waits, and what is held and was not delivered.
LEMMA UndeliveredItems ==
  \A u : u \in R!Undelivered <=> (\E s \in Senders \ consumed : u \in held[s])
                                   \/ (\E s \in Senders : u \in replyQueue[s])
<1>1. \A u : u \in UNION {held[s] : s \in Senders \ consumed} <=>
              \E s \in Senders \ consumed : u \in held[s]
  BY Zenon
<1>2. \A u : u \in UNION {replyQueue[s] : s \in Senders} <=> \E s \in Senders :
          u \in replyQueue[s]
  BY Zenon
<1> QED  BY <1>1, <1>2, Zenon DEF R!Undelivered

-----------------------------------------------------------------------------
(* The operations *)

\* The handler takes a message, or fails.
LEMMA HandleKeeps ==
  ASSUME R!ReplyAssumption, RepliesInv, NEW u \in R!Updates, R!Handle(u)  PROVE RepliesInv'
<1>0. /\ replyAt[u] = "new" /\ ~closing /\ (R!Fine \/ R!Fault)
      /\ \/ replyAt' = [replyAt EXCEPT ![u] = "handled"] /\ rows' = rows \cup {<<"in", {u}>>}
         \/ UNCHANGED <<replyAt, rows>>
      /\ UNCHANGED <<sound, replyQueue, worker, held, replyBatch, child, cancelled, consumed,
                     closing, answers, noticed, replyHeard, replyExcused, replyStops>>
  BY DEF R!Handle, R!Remember, R!workVars, R!historyVars
<1>f. replyFaults' \in 0..MaxReplyFaults  BY <1>0, ReplyFaultsFit DEF RepliesInv
<1>1. R!TypeOK'
  BY <1>0, <1>f, ItsSender DEF RepliesInv, R!TypeOK, ReplyItems
<1>2. ReplyItems'
  BY <1>0, ItsSender DEF RepliesInv, R!TypeOK, ReplyItems
<1>3. OwnersHold'
  BY <1>0, ItsSender DEF RepliesInv, R!TypeOK, ReplyItems, OwnersHold, ItemWaits
<1>4. WorkersHold'
  BY <1>0, ItsSender DEF RepliesInv, R!TypeOK, ReplyItems, WorkersHold, R!Live
<1>5. WordsFit'
  BY <1>0, ItsSender DEF RepliesInv, R!TypeOK, ReplyItems, WordsFit, R!Live, WorkersHold
<1>6. AnsweredFit'
  BY <1>0, ItsSender DEF RepliesInv, R!TypeOK, ReplyItems, AnsweredFit, ItemWaits,
     OwnersHold, WorkersHold, R!Live, WordsFit
<1>7. DirectFit'
  BY <1>0, ItsSender DEF RepliesInv, R!TypeOK, ReplyItems, DirectFit, ItemWaits,
     OwnersHold, WorkersHold, R!Live, WordsFit, AnsweredFit
<1> QED  BY <1>1, <1>2, <1>3, <1>4, <1>5, <1>6, <1>7 DEF RepliesInv

\* It ends without a reply.
LEMMA LeaveKeeps ==
  ASSUME R!ReplyAssumption, RepliesInv, NEW u \in R!Updates, R!Leave(u)  PROVE RepliesInv'
<1>0. /\ replyAt[u] = "handled" /\ replyAt' = [replyAt EXCEPT ![u] = "receipt"]
          /\ replyHeard' = replyHeard \cup {u}
      /\ UNCHANGED <<sound, replyQueue, worker, held, replyBatch, child, cancelled, consumed,
                     rows, closing, answers, noticed, replyExcused, replyFaults,
                     replyStops>>
  BY DEF R!Leave, R!workVars
<1>f. replyFaults' \in 0..MaxReplyFaults  BY <1>0 DEF RepliesInv, R!TypeOK
<1>1. R!TypeOK'
  BY <1>0, <1>f, ItsSender DEF RepliesInv, R!TypeOK, ReplyItems
<1>2. ReplyItems'
  BY <1>0, ItsSender DEF RepliesInv, R!TypeOK, ReplyItems
<1>3. OwnersHold'
  BY <1>0, ItsSender DEF RepliesInv, R!TypeOK, ReplyItems, OwnersHold, ItemWaits
<1>4. WorkersHold'
  BY <1>0, ItsSender DEF RepliesInv, R!TypeOK, ReplyItems, WorkersHold, R!Live
<1>5. WordsFit'
  BY <1>0, ItsSender DEF RepliesInv, R!TypeOK, ReplyItems, WordsFit, R!Live, WorkersHold
<1>6. AnsweredFit'
  BY <1>0, ItsSender DEF RepliesInv, R!TypeOK, ReplyItems, AnsweredFit, ItemWaits,
     OwnersHold, WorkersHold, R!Live, WordsFit
<1>7. DirectFit'
  BY <1>0, ItsSender DEF RepliesInv, R!TypeOK, ReplyItems, DirectFit, ItemWaits,
     OwnersHold, WorkersHold, R!Live, WordsFit, AnsweredFit
<1> QED  BY <1>1, <1>2, <1>3, <1>4, <1>5, <1>6, <1>7 DEF RepliesInv

\* A rule answers it.
LEMMA KeywordReplyKeeps ==
  ASSUME R!ReplyAssumption, RepliesInv, NEW u \in R!Updates, R!KeywordReply(u) 
      PROVE RepliesInv'
<1>0. /\ replyAt[u] = "handled" /\ replyAt' = [replyAt EXCEPT ![u] = "receipt"]
          /\ replyHeard' = replyHeard \cup {u}
      /\ answers' = [v \in R!Updates |-> IF v = u /\ answers[v] < 2
                                     THEN answers[v] + 1 ELSE answers[v]]
      /\ R!Fine \/ R!Fault
      /\ \/ rows' = rows \cup {<<"out", {u}>>} /\ UNCHANGED <<sound, replyExcused>>
         \/ sound' = sound \ {u} /\ replyExcused' = replyExcused \cup {u} /\ UNCHANGED rows
      /\ UNCHANGED <<replyQueue, worker, held, replyBatch, child, cancelled, consumed,
                     closing, noticed, replyStops>>
  BY DEF R!KeywordReply, R!Again, R!Remember, R!workVars
<1>f. replyFaults' \in 0..MaxReplyFaults  BY <1>0, ReplyFaultsFit DEF RepliesInv
<1>1. R!TypeOK'
  BY <1>0, <1>f, ItsSender DEF RepliesInv, R!TypeOK, ReplyItems
<1>2. ReplyItems'
  BY <1>0, ItsSender DEF RepliesInv, R!TypeOK, ReplyItems
<1>3. OwnersHold'
  BY <1>0, ItsSender DEF RepliesInv, R!TypeOK, ReplyItems, OwnersHold, ItemWaits
<1>4. WorkersHold'
  BY <1>0, ItsSender DEF RepliesInv, R!TypeOK, ReplyItems, WorkersHold, R!Live
<1>5. WordsFit'
  BY <1>0, ItsSender DEF RepliesInv, R!TypeOK, ReplyItems, WordsFit, R!Live, WorkersHold
<1>6. AnsweredFit'
  BY <1>0, ItsSender DEF RepliesInv, R!TypeOK, ReplyItems, AnsweredFit, ItemWaits,
     OwnersHold, WorkersHold, R!Live, WordsFit
<1>7. DirectFit'
  BY <1>0, ItsSender DEF RepliesInv, R!TypeOK, ReplyItems, DirectFit, ItemWaits,
     OwnersHold, WorkersHold, R!Live, WordsFit, AnsweredFit
<1> QED  BY <1>1, <1>2, <1>3, <1>4, <1>5, <1>6, <1>7 DEF RepliesInv

\* It waits for the worker of its sender.
LEMMA EnqueueKeeps ==
  ASSUME R!ReplyAssumption, RepliesInv, NEW u \in R!Updates, R!Enqueue(u)  PROVE RepliesInv'
<1>0. /\ replyAt[u] = "handled" /\ ~closing /\ replyAt' = [replyAt EXCEPT ![u] = "receipt"]
      /\ replyQueue' = [replyQueue EXCEPT ![u[1]] = @ \cup {u}]
      /\ worker' = [worker EXCEPT ![u[1]] = IF @ = "none" THEN "debounce" ELSE @]
      /\ UNCHANGED <<sound, held, replyBatch, child, cancelled, consumed, rows, closing,
                     answers, noticed, replyHeard, replyExcused, replyFaults, replyStops>>
  BY DEF R!Enqueue, R!Append, R!historyVars
<1>f. replyFaults' \in 0..MaxReplyFaults  BY <1>0 DEF RepliesInv, R!TypeOK
<1>1. R!TypeOK'
  BY <1>0, <1>f, ItsSender DEF RepliesInv, R!TypeOK, ReplyItems
<1>2. ReplyItems'
  BY <1>0, ItsSender DEF RepliesInv, R!TypeOK, ReplyItems
<1>3. OwnersHold'
  BY <1>0, ItsSender DEF RepliesInv, R!TypeOK, ReplyItems, OwnersHold, ItemWaits
<1>4. WorkersHold'
  BY <1>0, ItsSender DEF RepliesInv, R!TypeOK, ReplyItems, WorkersHold, R!Live
<1>5. WordsFit'
  BY <1>0, ItsSender DEF RepliesInv, R!TypeOK, ReplyItems, WordsFit, R!Live, WorkersHold
<1>6. AnsweredFit'
  BY <1>0, ItsSender DEF RepliesInv, R!TypeOK, ReplyItems, AnsweredFit, ItemWaits,
     OwnersHold, WorkersHold, R!Live, WordsFit
<1>7. DirectFit'
  BY <1>0, ItsSender DEF RepliesInv, R!TypeOK, ReplyItems, DirectFit, ItemWaits,
     OwnersHold, WorkersHold, R!Live, WordsFit, AnsweredFit
<1> QED  BY <1>1, <1>2, <1>3, <1>4, <1>5, <1>6, <1>7 DEF RepliesInv

\* There is no room for it.
LEMMA OverloadKeeps ==
  ASSUME R!ReplyAssumption, RepliesInv, NEW u \in R!Updates, R!Overload(u)  PROVE RepliesInv'
<1>0. /\ replyAt[u] = "handled" /\ ~closing /\ replyAt' = [replyAt EXCEPT ![u] = "receipt"]
          /\ (R!Fine \/ R!Fault)
      /\ \/ replyHeard' = replyHeard \cup {u} /\ UNCHANGED sound
         \/ sound' = sound \ {u} /\ UNCHANGED replyHeard
      /\ UNCHANGED <<replyQueue, worker, held, replyBatch, child, cancelled, consumed, rows,
                     closing, answers, noticed, replyExcused, replyStops>>
  BY DEF R!Overload, R!workVars
<1>f. replyFaults' \in 0..MaxReplyFaults  BY <1>0, ReplyFaultsFit DEF RepliesInv
<1>1. R!TypeOK'
  BY <1>0, <1>f, ItsSender DEF RepliesInv, R!TypeOK, ReplyItems
<1>2. ReplyItems'
  BY <1>0, ItsSender DEF RepliesInv, R!TypeOK, ReplyItems
<1>3. OwnersHold'
  BY <1>0, ItsSender DEF RepliesInv, R!TypeOK, ReplyItems, OwnersHold, ItemWaits
<1>4. WorkersHold'
  BY <1>0, ItsSender DEF RepliesInv, R!TypeOK, ReplyItems, WorkersHold, R!Live
<1>5. WordsFit'
  BY <1>0, ItsSender DEF RepliesInv, R!TypeOK, ReplyItems, WordsFit, R!Live, WorkersHold
<1>6. AnsweredFit'
  BY <1>0, ItsSender DEF RepliesInv, R!TypeOK, ReplyItems, AnsweredFit, ItemWaits,
     OwnersHold, WorkersHold, R!Live, WordsFit
<1>7. DirectFit'
  BY <1>0, ItsSender DEF RepliesInv, R!TypeOK, ReplyItems, DirectFit, ItemWaits,
     OwnersHold, WorkersHold, R!Live, WordsFit, AnsweredFit
<1> QED  BY <1>1, <1>2, <1>3, <1>4, <1>5, <1>6, <1>7 DEF RepliesInv

\* The child runs.
LEMMA TakePermitKeeps ==
  ASSUME R!ReplyAssumption, RepliesInv, NEW s \in Senders, R!TakePermit(s)  PROVE RepliesInv'
<1>0. /\ child[s] = "queued" /\ child' = [child EXCEPT ![s] = "run"]
      /\ UNCHANGED <<replyAt, sound, replyQueue, worker, held, replyBatch, cancelled, consumed,
                     rows, closing, answers, noticed, replyHeard, replyExcused, replyFaults,
                     replyStops>>
  BY DEF R!TakePermit, R!inboxVars, R!historyVars
<1>f. replyFaults' \in 0..MaxReplyFaults  BY <1>0 DEF RepliesInv, R!TypeOK
<1>1. R!TypeOK'
  BY <1>0, <1>f, ItsSender DEF RepliesInv, R!TypeOK, ReplyItems
<1>2. ReplyItems'
  BY <1>0, ItsSender DEF RepliesInv, R!TypeOK, ReplyItems
<1>3. OwnersHold'
  BY <1>0, ItsSender DEF RepliesInv, R!TypeOK, ReplyItems, OwnersHold, ItemWaits
<1>4. WorkersHold'
  BY <1>0, ItsSender DEF RepliesInv, R!TypeOK, ReplyItems, WorkersHold, R!Live
<1>5. WordsFit'
  BY <1>0, ItsSender DEF RepliesInv, R!TypeOK, ReplyItems, WordsFit, R!Live, WorkersHold
<1>6. AnsweredFit'
  BY <1>0, ItsSender DEF RepliesInv, R!TypeOK, ReplyItems, AnsweredFit, ItemWaits,
     OwnersHold, WorkersHold, R!Live, WordsFit
<1>7. DirectFit'
  BY <1>0, ItsSender DEF RepliesInv, R!TypeOK, ReplyItems, DirectFit, ItemWaits,
     OwnersHold, WorkersHold, R!Live, WordsFit, AnsweredFit
<1> QED  BY <1>1, <1>2, <1>3, <1>4, <1>5, <1>6, <1>7 DEF RepliesInv

\* It decides to stay silent.
LEMMA SkipKeeps ==
  ASSUME R!ReplyAssumption, RepliesInv, NEW s \in Senders, R!Skip(s)  PROVE RepliesInv'
<1>0. /\ child[s] = "run" /\ child' = [child EXCEPT ![s] = "ok"]
      /\ replyHeard' = replyHeard \cup replyBatch[s]
      /\ UNCHANGED <<replyAt, sound, replyQueue, worker, held, replyBatch, cancelled, consumed,
                     rows, closing, answers, noticed, replyExcused, replyFaults,
                     replyStops>>
  BY DEF R!Skip, R!Decided, R!inboxVars
<1>f. replyFaults' \in 0..MaxReplyFaults  BY <1>0 DEF RepliesInv, R!TypeOK
<1>1. R!TypeOK'
  BY <1>0, <1>f, ItsSender DEF RepliesInv, R!TypeOK, ReplyItems
<1>2. ReplyItems'
  BY <1>0, ItsSender DEF RepliesInv, R!TypeOK, ReplyItems
<1>3. OwnersHold'
  BY <1>0, ItsSender DEF RepliesInv, R!TypeOK, ReplyItems, OwnersHold, ItemWaits
<1>4. WorkersHold'
  BY <1>0, ItsSender DEF RepliesInv, R!TypeOK, ReplyItems, WorkersHold, R!Live
<1>5. WordsFit'
  BY <1>0, ItsSender DEF RepliesInv, R!TypeOK, ReplyItems, WordsFit, R!Live, WorkersHold
<1>6. AnsweredFit'
  BY <1>0, ItsSender DEF RepliesInv, R!TypeOK, ReplyItems, AnsweredFit, ItemWaits,
     OwnersHold, WorkersHold, R!Live, WordsFit
<1>7. DirectFit'
  BY <1>0, ItsSender DEF RepliesInv, R!TypeOK, ReplyItems, DirectFit, ItemWaits,
     OwnersHold, WorkersHold, R!Live, WordsFit, AnsweredFit
<1> QED  BY <1>1, <1>2, <1>3, <1>4, <1>5, <1>6, <1>7 DEF RepliesInv

\* The reply is delivered, or may be.
LEMMA DeliverKeeps ==
  ASSUME R!ReplyAssumption, RepliesInv, NEW s \in Senders, R!Deliver(s)  PROVE RepliesInv'
<1>0. /\ child[s] = "run" /\ child' = [child EXCEPT ![s] = "sent"] /\ (R!Fine \/ R!Fault)
      /\ consumed' = consumed \cup {s} /\ replyHeard' = replyHeard \cup replyBatch[s]
      /\ \/ UNCHANGED answers
         \/ answers' = [v \in R!Updates |-> IF v \in replyBatch[s] /\ answers[v] < 2 
                                     THEN answers[v] + 1 ELSE answers[v]]
      /\ UNCHANGED <<replyAt, sound, replyQueue, worker, held, replyBatch, cancelled, rows,
                     closing, noticed, replyExcused, replyStops>>
  BY DEF R!Deliver, R!Consume, R!Again, R!inboxVars
<1>f. replyFaults' \in 0..MaxReplyFaults  BY <1>0, ReplyFaultsFit DEF RepliesInv
<1>1. R!TypeOK'
  BY <1>0, <1>f, ItsSender DEF RepliesInv, R!TypeOK, ReplyItems
<1>2. ReplyItems'
  BY <1>0, ItsSender DEF RepliesInv, R!TypeOK, ReplyItems
<1>3. OwnersHold'
  BY <1>0, ItsSender DEF RepliesInv, R!TypeOK, ReplyItems, OwnersHold, ItemWaits
<1>4. WorkersHold'
  BY <1>0, ItsSender DEF RepliesInv, R!TypeOK, ReplyItems, WorkersHold, R!Live
<1>5. WordsFit'
  BY <1>0, ItsSender DEF RepliesInv, R!TypeOK, ReplyItems, WordsFit, R!Live, WorkersHold
<1>6. AnsweredFit'
  <2> SUFFICES ASSUME NEW u \in R!Updates \ replyExcused
               PROVE  /\ replyAt[u] \in {"new", "handled"} \/ ItemWaits(u) => u \in sound
                      /\ answers'[u] > 0 =>
                           /\ replyAt[u] \in {"receipt", "done"} /\ u \in sound
                               /\ u \notin replyQueue[u[1]]
                           /\ u \in held[u[1]] => u[1] \in consumed'
                      /\ answers'[u] <= 1
                      /\ closing => replyAt[u] = "done"
    BY <1>0 DEF AnsweredFit, ItemWaits
  <2>1. /\ replyAt[u] \in {"new", "handled"} \/ ItemWaits(u) => u \in sound
        /\ closing => replyAt[u] = "done"
        /\ answers[u] \in 0..2
    BY DEF RepliesInv, AnsweredFit, R!TypeOK
  <2>2. CASE u \in replyBatch[s]
    <3>1. ~closing /\ u \in held[s] /\ s \notin consumed /\ u[1] = s
      BY <1>0, <2>2, ItsSender DEF RepliesInv, WorkersHold, WordsFit, R!Live, R!TypeOK
    <3>2. answers[u] = 0
      BY <2>1, <3>1 DEF RepliesInv, AnsweredFit
    <3>3. replyAt[u] = "receipt" /\ u \in sound /\ u \notin replyQueue[u[1]]
      BY <3>1 DEF RepliesInv, OwnersHold, AnsweredFit, ItemWaits
    <3>4. answers'[u] \in {0, 1}
      BY <1>0, <3>2
    <3> QED  BY <1>0, <2>1, <3>1, <3>3, <3>4
  <2>3. CASE u \notin replyBatch[s]
    <3>1. answers'[u] = answers[u]  BY <1>0, <2>3 DEF RepliesInv, R!TypeOK
    <3> QED  BY <1>0, <2>1, <3>1 DEF RepliesInv, AnsweredFit
  <2> QED  BY <2>2, <2>3
<1>7. DirectFit'
  BY <1>0, ItsSender DEF RepliesInv, R!TypeOK, ReplyItems, DirectFit, ItemWaits,
     OwnersHold, WorkersHold, R!Live, WordsFit, AnsweredFit
<1> QED  BY <1>1, <1>2, <1>3, <1>4, <1>5, <1>6, <1>7 DEF RepliesInv

\* The generation fails.
LEMMA BreakKeeps ==
  ASSUME R!ReplyAssumption, RepliesInv, NEW s \in Senders, R!Break(s)  PROVE RepliesInv'
<1>0. /\ child[s] = "run" /\ child' = [child EXCEPT ![s] = "failed"] /\ R!Fault
      /\ UNCHANGED <<replyAt, sound, replyQueue, worker, held, replyBatch, cancelled, consumed,
                     rows, closing, answers, noticed, replyHeard, replyExcused, replyStops>>
  BY DEF R!Break, R!inboxVars, R!historyVars
<1>f. replyFaults' \in 0..MaxReplyFaults  BY <1>0, ReplyFaultsFit DEF RepliesInv
<1>1. R!TypeOK'
  BY <1>0, <1>f, ItsSender DEF RepliesInv, R!TypeOK, ReplyItems
<1>2. ReplyItems'
  BY <1>0, ItsSender DEF RepliesInv, R!TypeOK, ReplyItems
<1>3. OwnersHold'
  BY <1>0, ItsSender DEF RepliesInv, R!TypeOK, ReplyItems, OwnersHold, ItemWaits
<1>4. WorkersHold'
  BY <1>0, ItsSender DEF RepliesInv, R!TypeOK, ReplyItems, WorkersHold, R!Live
<1>5. WordsFit'
  BY <1>0, ItsSender DEF RepliesInv, R!TypeOK, ReplyItems, WordsFit, R!Live, WorkersHold
<1>6. AnsweredFit'
  BY <1>0, ItsSender DEF RepliesInv, R!TypeOK, ReplyItems, AnsweredFit, ItemWaits,
     OwnersHold, WorkersHold, R!Live, WordsFit
<1>7. DirectFit'
  BY <1>0, ItsSender DEF RepliesInv, R!TypeOK, ReplyItems, DirectFit, ItemWaits,
     OwnersHold, WorkersHold, R!Live, WordsFit, AnsweredFit
<1> QED  BY <1>1, <1>2, <1>3, <1>4, <1>5, <1>6, <1>7 DEF RepliesInv

\* The row of the reply owns the receipts of the batch.
LEMMA StoreKeeps ==
  ASSUME R!ReplyAssumption, RepliesInv, NEW s \in Senders, R!Store(s)  PROVE RepliesInv'
<1>0. /\ child[s] = "sent" /\ child' = [child EXCEPT ![s] = "ok"] /\ (R!Fine \/ R!Fault)
      /\ \/ /\ rows' = (IF R!Open(replyBatch[s]) = {} THEN rows
                       ELSE rows \cup {<<"out", R!Open(replyBatch[s])>>})
            /\ UNCHANGED <<sound, replyExcused>>
         \/ /\ sound' = sound \ R!Open(replyBatch[s]) /\ UNCHANGED rows
            /\ replyExcused' = replyExcused \cup R!Open(replyBatch[s])
      /\ UNCHANGED <<replyAt, replyQueue, worker, held, replyBatch, cancelled, consumed,
                     closing,
                     answers, noticed, replyHeard, replyStops>>
  BY DEF R!Store, R!Remember, R!Finish, R!inboxVars
<1>f. replyFaults' \in 0..MaxReplyFaults  BY <1>0, ReplyFaultsFit DEF RepliesInv
<1>1. R!TypeOK'
  BY <1>0, <1>f, ItsSender DEF RepliesInv, R!TypeOK, ReplyItems, R!Open
<1>2. ReplyItems'
  BY <1>0, ItsSender DEF RepliesInv, R!TypeOK, ReplyItems
<1>3. OwnersHold'
  BY <1>0, ItsSender DEF RepliesInv, R!TypeOK, ReplyItems, OwnersHold, ItemWaits, R!Open
<1>4. WorkersHold'
  BY <1>0, ItsSender DEF RepliesInv, R!TypeOK, ReplyItems, WorkersHold, R!Live
<1>5. WordsFit'
  BY <1>0, ItsSender DEF RepliesInv, R!TypeOK, ReplyItems, WordsFit, R!Live, WorkersHold
<1>6. AnsweredFit'
  BY <1>0, ItsSender DEF RepliesInv, R!TypeOK, ReplyItems, AnsweredFit, ItemWaits,
     OwnersHold, WorkersHold, R!Live, WordsFit, R!Open
<1>7. DirectFit'
  BY <1>0, ItsSender DEF RepliesInv, R!TypeOK, ReplyItems, DirectFit, ItemWaits,
     OwnersHold, WorkersHold, R!Live, WordsFit, AnsweredFit, R!Open
<1> QED  BY <1>1, <1>2, <1>3, <1>4, <1>5, <1>6, <1>7 DEF RepliesInv

\* The cancellation arrives.
LEMMA ObeyKeeps ==
  ASSUME R!ReplyAssumption, RepliesInv, NEW s \in Senders, R!Obey(s)  PROVE RepliesInv'
<1>0. /\ child[s] \in {"queued", "run", "sent"} /\ child' = [child EXCEPT ![s] = "failed"]
      /\ \/ UNCHANGED <<consumed, replyHeard>>
         \/ consumed' = consumed \cup {s} /\ replyHeard' = replyHeard \cup replyBatch[s]
      /\ UNCHANGED <<replyAt, sound, replyQueue, worker, held, replyBatch, cancelled, rows,
                     closing, answers, noticed, replyExcused, replyFaults, replyStops>>
  BY DEF R!Obey, R!Consume, R!Live, R!inboxVars
<1>f. replyFaults' \in 0..MaxReplyFaults  BY <1>0 DEF RepliesInv, R!TypeOK
<1>1. R!TypeOK'
  BY <1>0, <1>f, ItsSender DEF RepliesInv, R!TypeOK, ReplyItems
<1>2. ReplyItems'
  BY <1>0, ItsSender DEF RepliesInv, R!TypeOK, ReplyItems
<1>3. OwnersHold'
  BY <1>0, ItsSender DEF RepliesInv, R!TypeOK, ReplyItems, OwnersHold, ItemWaits
<1>4. WorkersHold'
  BY <1>0, ItsSender DEF RepliesInv, R!TypeOK, ReplyItems, WorkersHold, R!Live
<1>5. WordsFit'
  BY <1>0, ItsSender DEF RepliesInv, R!TypeOK, ReplyItems, WordsFit, R!Live, WorkersHold
<1>6. AnsweredFit'
  BY <1>0, ItsSender DEF RepliesInv, R!TypeOK, ReplyItems, AnsweredFit, ItemWaits,
     OwnersHold, WorkersHold, R!Live, WordsFit
<1>7. DirectFit'
  BY <1>0, ItsSender DEF RepliesInv, R!TypeOK, ReplyItems, DirectFit, ItemWaits,
     OwnersHold, WorkersHold, R!Live, WordsFit, AnsweredFit
<1> QED  BY <1>1, <1>2, <1>3, <1>4, <1>5, <1>6, <1>7 DEF RepliesInv

\* The worker takes what waits.
LEMMA TakeKeeps ==
  ASSUME R!ReplyAssumption, RepliesInv, NEW s \in Senders, R!Take(s)  PROVE RepliesInv'
<1>0. /\ worker[s] = "debounce" /\ worker' = [worker EXCEPT ![s] = "guard"]
      /\ child' = [child EXCEPT ![s] = "queued"] /\ held' = [held EXCEPT ![s] = replyQueue[s]]
      /\ replyBatch' = [replyBatch EXCEPT ![s] = replyQueue[s]]
          /\ replyQueue' = [replyQueue EXCEPT ![s] = {}]
      /\ cancelled' = cancelled \ {s} /\ consumed' = consumed \ {s} /\ noticed' = noticed \ {s}
      /\ UNCHANGED <<replyAt, sound, rows, closing, answers, replyHeard, replyExcused,
                     replyFaults, replyStops>>
  BY DEF R!Take, R!inboxVars
<1>f. replyFaults' \in 0..MaxReplyFaults  BY <1>0 DEF RepliesInv, R!TypeOK
<1>1. R!TypeOK'
  BY <1>0, <1>f, ItsSender DEF RepliesInv, R!TypeOK, ReplyItems
<1>2. ReplyItems'
  BY <1>0, ItsSender DEF RepliesInv, R!TypeOK, ReplyItems
<1>3. OwnersHold'
  BY <1>0, ItsSender DEF RepliesInv, R!TypeOK, ReplyItems, OwnersHold, ItemWaits
<1>4. WorkersHold'
  BY <1>0, ItsSender DEF RepliesInv, R!TypeOK, ReplyItems, WorkersHold, R!Live
<1>5. WordsFit'
  BY <1>0, ItsSender DEF RepliesInv, R!TypeOK, ReplyItems, WordsFit, R!Live, WorkersHold
<1>6. AnsweredFit'
  BY <1>0, ItsSender DEF RepliesInv, R!TypeOK, ReplyItems, AnsweredFit, ItemWaits,
     OwnersHold, WorkersHold, R!Live, WordsFit
<1>7. DirectFit'
  BY <1>0, ItsSender DEF RepliesInv, R!TypeOK, ReplyItems, DirectFit, ItemWaits,
     OwnersHold, WorkersHold, R!Live, WordsFit, AnsweredFit
<1> QED  BY <1>1, <1>2, <1>3, <1>4, <1>5, <1>6, <1>7 DEF RepliesInv

\* The hard deadline.
LEMMA ReplyDeadline ==
  ASSUME R!ReplyAssumption, RepliesInv, NEW s \in Senders, R!Deadline(s)  PROVE RepliesInv'
<1>0. /\ worker[s] = "guard" /\ worker' = [worker EXCEPT ![s] = "orphan"]
      /\ cancelled' = cancelled \cup {s}
      /\ UNCHANGED <<replyAt, sound, replyQueue, held, replyBatch, child, consumed, rows,
                     closing,
                     answers, noticed, replyHeard, replyExcused, replyFaults, replyStops>>
  BY DEF R!Deadline, R!Orphaned, R!inboxVars, R!historyVars
<1>f. replyFaults' \in 0..MaxReplyFaults  BY <1>0 DEF RepliesInv, R!TypeOK
<1>1. R!TypeOK'
  BY <1>0, <1>f, ItsSender DEF RepliesInv, R!TypeOK, ReplyItems
<1>2. ReplyItems'
  BY <1>0, ItsSender DEF RepliesInv, R!TypeOK, ReplyItems
<1>3. OwnersHold'
  BY <1>0, ItsSender DEF RepliesInv, R!TypeOK, ReplyItems, OwnersHold, ItemWaits
<1>4. WorkersHold'
  BY <1>0, ItsSender DEF RepliesInv, R!TypeOK, ReplyItems, WorkersHold, R!Live
<1>5. WordsFit'
  BY <1>0, ItsSender DEF RepliesInv, R!TypeOK, ReplyItems, WordsFit, R!Live, WorkersHold
<1>6. AnsweredFit'
  BY <1>0, ItsSender DEF RepliesInv, R!TypeOK, ReplyItems, AnsweredFit, ItemWaits,
     OwnersHold, WorkersHold, R!Live, WordsFit
<1>7. DirectFit'
  BY <1>0, ItsSender DEF RepliesInv, R!TypeOK, ReplyItems, DirectFit, ItemWaits,
     OwnersHold, WorkersHold, R!Live, WordsFit, AnsweredFit
<1> QED  BY <1>1, <1>2, <1>3, <1>4, <1>5, <1>6, <1>7 DEF RepliesInv

\* The worker settles the batch when its child has ended.
LEMMA SettleKeeps ==
  ASSUME R!ReplyAssumption, RepliesInv, NEW s \in Senders, R!Settle(s)  PROVE RepliesInv'
<1>0. /\ worker[s] \in {"guard", "orphan"} /\ child[s] \in {"ok", "failed"} /\ (R!Fine
          \/ R!Fault)
      /\ held' = [held EXCEPT ![s] = {}]
      /\ worker' = [worker EXCEPT ![s] = IF replyQueue[s] = {} THEN "none" ELSE "debounce"]
      /\ \/ (child[s] = "ok" \/ s \in consumed) /\ UNCHANGED <<sound, noticed,
                                                               replyHeard>>
         \/ /\ s \notin consumed /\ UNCHANGED sound
            /\ noticed' = noticed \cup {s} /\ replyHeard' = replyHeard \cup replyBatch[s]
         \/ replyBatch[s] \cap Direct = {} /\ UNCHANGED <<sound, noticed, replyHeard>>
         \/ s \notin consumed /\ sound' = sound \ held[s] /\ UNCHANGED <<noticed,
                                                                         replyHeard>>
      /\ UNCHANGED <<replyAt, replyQueue, replyBatch, child, cancelled, consumed, rows,
                     closing,
                     answers, replyExcused, replyStops>>
  BY DEF R!Settle, R!Ended, R!Succeeded, R!Addressed, R!Finish, R!Told, R!Silent, R!Rest
<1>f. replyFaults' \in 0..MaxReplyFaults  BY <1>0, ReplyFaultsFit DEF RepliesInv
<1>1. R!TypeOK'
  BY <1>0, <1>f, ItsSender DEF RepliesInv, R!TypeOK, ReplyItems
<1>2. ReplyItems'
  BY <1>0, ItsSender DEF RepliesInv, R!TypeOK, ReplyItems
<1>3. OwnersHold'
  BY <1>0, ItsSender DEF RepliesInv, R!TypeOK, ReplyItems, OwnersHold, ItemWaits
<1>4. WorkersHold'
  BY <1>0, ItsSender DEF RepliesInv, R!TypeOK, ReplyItems, WorkersHold, R!Live
<1>5. WordsFit'
  BY <1>0, ItsSender DEF RepliesInv, R!TypeOK, ReplyItems, WordsFit, R!Live, WorkersHold
<1>6. AnsweredFit'
  <2> SUFFICES ASSUME NEW u \in R!Updates \ replyExcused
               PROVE  /\ replyAt[u] \in {"new", "handled"} \/ ItemWaits(u)' => u \in sound'
                      /\ answers[u] > 0 =>
                           /\ replyAt[u] \in {"receipt", "done"} /\ u \in sound'
                               /\ u \notin replyQueue[u[1]]
                           /\ u \in held'[u[1]] => u[1] \in consumed
                      /\ answers[u] <= 1
                      /\ closing => replyAt[u] = "done"
    BY <1>0 DEF AnsweredFit, ItemWaits
  <2>1. /\ replyAt[u] \in {"new", "handled"} \/ ItemWaits(u) => u \in sound
        /\ answers[u] > 0 =>
             /\ replyAt[u] \in {"receipt", "done"} /\ u \in sound /\ u \notin replyQueue[u[1]]
             /\ u \in held[u[1]] => u[1] \in consumed
        /\ answers[u] <= 1
        /\ closing => replyAt[u] = "done"
        /\ answers[u] \in 0..2
    BY DEF RepliesInv, AnsweredFit, R!TypeOK
  <2>2. /\ ItemWaits(u) => replyAt[u] = "receipt"
        /\ u \in replyQueue[u[1]] => u \notin held[u[1]]
        /\ u[1] \in Senders
    BY ItsSender DEF RepliesInv, OwnersHold
  <2>3. held'[u[1]] \subseteq held[u[1]]
    BY <1>0, <2>2 DEF RepliesInv, ReplyItems
  <2>4. CASE sound' = sound
    BY <1>0, <2>1, <2>3, <2>4 DEF ItemWaits
  <2>5. CASE s \notin consumed /\ sound' = sound \ held[s]
    <3>1. CASE u \notin held[s]
      <4>1. u \in sound => u \in sound'  BY <2>5, <3>1
      <4>2. ItemWaits(u)' => ItemWaits(u)  BY <1>0, <2>3 DEF ItemWaits
      <4>3. u \in held'[u[1]] => u \in held[u[1]]  BY <2>3
      <4>4. answers[u] > 0 => (u \in held'[u[1]] => u[1] \in consumed)  BY <2>1,
          <4>3
      <4>5. replyAt[u] \in {"new", "handled"} \/ ItemWaits(u)' => u \in sound'  BY <2>1,
          <4>1, <4>2
      <4>6. answers[u] > 0 =>
              replyAt[u] \in {"receipt", "done"} /\ u \in sound' /\ u \notin replyQueue[u[1]]
        BY <2>1, <4>1
      <4> QED  BY <2>1, <4>4, <4>5, <4>6
    <3>2. CASE u \in held[s]
      <4>1. u[1] = s  BY <3>2, ItsSender DEF RepliesInv, R!TypeOK
      <4>2. ~(answers[u] > 0) /\ replyAt[u] = "receipt" /\ u \notin replyQueue[u[1]]
        BY <2>1, <2>2, <2>5, <3>2, <4>1 DEF ItemWaits
      <4>3. u \notin held'[u[1]] /\ replyQueue' = replyQueue  BY <1>0, <4>1 DEF RepliesInv,
          ReplyItems
      <4>4. ~ItemWaits(u)'  BY <4>2, <4>3 DEF ItemWaits
      <4> QED  BY <2>1, <4>2, <4>3, <4>4
    <3> QED  BY <3>1, <3>2
  <2> QED  BY <1>0, <2>4, <2>5
<1>7. DirectFit'
  BY <1>0, ItsSender DEF RepliesInv, R!TypeOK, ReplyItems, DirectFit, ItemWaits,
     OwnersHold, WorkersHold, R!Live, WordsFit, AnsweredFit
<1> QED  BY <1>1, <1>2, <1>3, <1>4, <1>5, <1>6, <1>7 DEF RepliesInv

\* A row is written, or fails.
LEMMA WriteRowKeeps ==
  ASSUME R!ReplyAssumption, RepliesInv, NEW r \in rows, R!WriteRow(r)  PROVE RepliesInv'
<1>0. /\ rows' = rows \ {r} /\ (R!Fine \/ R!Fault)
      /\ \/ UNCHANGED <<sound, replyExcused>>
         \/ sound' = sound \ r[2] /\ replyExcused' = replyExcused \cup r[2]
      /\ UNCHANGED <<replyAt, replyQueue, worker, held, replyBatch, child, cancelled, consumed,
                     closing, answers, noticed, replyHeard, replyStops>>
  BY DEF R!WriteRow, R!Finish, R!workVars
<1>f. replyFaults' \in 0..MaxReplyFaults  BY <1>0, ReplyFaultsFit DEF RepliesInv
<1>1. R!TypeOK'
  BY <1>0, <1>f, ItsSender DEF RepliesInv, R!TypeOK, ReplyItems
<1>2. ReplyItems'
  BY <1>0, ItsSender DEF RepliesInv, R!TypeOK, ReplyItems
<1>3. OwnersHold'
  BY <1>0, ItsSender DEF RepliesInv, R!TypeOK, ReplyItems, OwnersHold, ItemWaits
<1>4. WorkersHold'
  BY <1>0, ItsSender DEF RepliesInv, R!TypeOK, ReplyItems, WorkersHold, R!Live
<1>5. WordsFit'
  BY <1>0, ItsSender DEF RepliesInv, R!TypeOK, ReplyItems, WordsFit, R!Live, WorkersHold
<1>6. AnsweredFit'
  BY <1>0, ItsSender DEF RepliesInv, R!TypeOK, ReplyItems, AnsweredFit, ItemWaits,
     OwnersHold, WorkersHold, R!Live, WordsFit
<1>7. DirectFit'
  BY <1>0, ItsSender DEF RepliesInv, R!TypeOK, ReplyItems, DirectFit, ItemWaits,
     OwnersHold, WorkersHold, R!Live, WordsFit, AnsweredFit
<1> QED  BY <1>1, <1>2, <1>3, <1>4, <1>5, <1>6, <1>7 DEF RepliesInv

\* The receipt of a message is settled.
LEMMA CompleteKeeps ==
  ASSUME R!ReplyAssumption, RepliesInv, NEW u \in R!Updates, R!Complete(u)  PROVE RepliesInv'
<1>0. /\ replyAt[u] = "receipt" /\ ~R!Owned(u) /\ sound' = sound \cup {u}
      /\ replyAt' = [replyAt EXCEPT ![u] = IF u \in sound THEN "done" ELSE "new"]
      /\ UNCHANGED <<replyQueue, worker, held, replyBatch, child, cancelled, consumed, rows,
                     closing, answers, noticed, replyHeard, replyExcused, replyFaults,
                     replyStops>>
  BY DEF R!Complete, R!Settled, R!workVars, R!historyVars
<1>f. replyFaults' \in 0..MaxReplyFaults  BY <1>0 DEF RepliesInv, R!TypeOK
<1>1. R!TypeOK'
  BY <1>0, <1>f, ItsSender DEF RepliesInv, R!TypeOK, ReplyItems
<1>2. ReplyItems'
  BY <1>0, ItsSender DEF RepliesInv, R!TypeOK, ReplyItems
<1>3. OwnersHold'
  BY <1>0, ItsSender DEF RepliesInv, R!TypeOK, ReplyItems, OwnersHold, ItemWaits, R!Owned
<1>4. WorkersHold'
  BY <1>0, ItsSender DEF RepliesInv, R!TypeOK, ReplyItems, WorkersHold, R!Live
<1>5. WordsFit'
  BY <1>0, ItsSender DEF RepliesInv, R!TypeOK, ReplyItems, WordsFit, R!Live, WorkersHold
<1>6. AnsweredFit'
  BY <1>0, ItsSender DEF RepliesInv, R!TypeOK, ReplyItems, AnsweredFit, ItemWaits,
     OwnersHold, WorkersHold, R!Live, WordsFit, R!Owned
<1>7. DirectFit'
  BY <1>0, ItsSender DEF RepliesInv, R!TypeOK, ReplyItems, DirectFit, ItemWaits,
     OwnersHold, WorkersHold, R!Live, WordsFit, AnsweredFit, R!Owned
<1> QED  BY <1>1, <1>2, <1>3, <1>4, <1>5, <1>6, <1>7 DEF RepliesInv

\* The shutdown gives the workers up.
LEMMA GiveUpKeeps ==
  ASSUME R!ReplyAssumption, RepliesInv, R!GiveUp  PROVE RepliesInv'
<1>0. /\ ~closing /\ closing' = TRUE /\ sound' = sound \ R!Undelivered
      /\ replyStops' \in 0..MaxReplyStops
      /\ cancelled' = cancelled \cup {s \in Senders : R!Live(s)}
      /\ held' = [s \in Senders |-> {}]
      /\ replyQueue' = [s \in Senders |-> {}] /\ worker' = [s \in Senders |-> "none"]
      /\ replyExcused' = replyExcused \cup {u \in R!Updates : replyAt[u] # "done"}
      /\ UNCHANGED <<replyAt, replyBatch, child, consumed, rows, answers, noticed, replyHeard,
                     replyFaults>>
  BY DEF R!GiveUp, RepliesInv, R!TypeOK, R!ReplyAssumption
<1>f. replyFaults' \in 0..MaxReplyFaults  BY <1>0 DEF RepliesInv, R!TypeOK
<1>1. R!TypeOK'
  BY <1>0, <1>f, ItsSender DEF RepliesInv, R!TypeOK, ReplyItems, R!Undelivered, R!Live
<1>2. ReplyItems'
  BY <1>0, ItsSender DEF RepliesInv, R!TypeOK, ReplyItems
<1>3. OwnersHold'
  BY <1>0, ItsSender DEF RepliesInv, R!TypeOK, ReplyItems, OwnersHold, ItemWaits
<1>4. WorkersHold'
  BY <1>0, ItsSender DEF RepliesInv, R!TypeOK, ReplyItems, WorkersHold, R!Live,
     OwnersHold, ItemWaits
<1>5. WordsFit'
  BY <1>0, ItsSender DEF RepliesInv, R!TypeOK, ReplyItems, WordsFit, R!Live, WorkersHold
<1>6. AnsweredFit'
  <2>1. \A u \in R!Updates : u \in R!Undelivered => ItemWaits(u) /\ replyAt[u] = "receipt"
    <3>1. \A u \in R!Updates : u \in R!Undelivered =>
            \E s \in Senders : u \in held[s] \/ u \in replyQueue[s]
      BY UndeliveredItems
    <3>2. \A u \in R!Updates, s \in Senders : u \in held[s] \/ u \in replyQueue[s] => u[1] = s
      BY ItsSender DEF RepliesInv, R!TypeOK
    <3> QED  BY <3>1, <3>2 DEF ItemWaits, RepliesInv, OwnersHold
  <2> QED
    BY <1>0, <2>1, ItsSender DEF RepliesInv, R!TypeOK, ReplyItems, AnsweredFit, ItemWaits
<1>7. DirectFit'
  <2>1. /\ \A s \in Senders \ consumed : held[s] \subseteq R!Undelivered
        /\ \A s \in Senders : replyQueue[s] \subseteq R!Undelivered
    BY UndeliveredItems
  <2>2. \A s \in consumed : s \in Senders /\ held[s] \subseteq replyHeard
    BY DEF RepliesInv, R!TypeOK, WorkersHold, WordsFit
  <2>3. \A u \in R!Updates : u[1] \in Senders /\ (ItemWaits(u) /\ u \notin R!Undelivered
            => u \in replyHeard)
    BY <2>1, <2>2, ItsSender DEF ItemWaits
  <2> QED
    BY <1>0, <2>3, ItsSender DEF RepliesInv, DirectFit
<1> QED  BY <1>1, <1>2, <1>3, <1>4, <1>5, <1>6, <1>7 DEF RepliesInv

\* The process ends.
LEMMA ExitKeeps ==
  ASSUME R!ReplyAssumption, RepliesInv, R!Exit  PROVE RepliesInv'
<1>0. /\ closing' = FALSE /\ rows' = {} /\ noticed' = {} /\ sound' = R!Updates
      /\ replyStops' \in 0..MaxReplyStops
      /\ replyAt' = [u \in R!Updates |-> IF replyAt[u] = "done" THEN "done" ELSE "new"]
      /\ replyQueue' = [s \in Senders |-> {}] /\ held' = [s \in Senders |-> {}]
      /\ replyBatch' = [s \in Senders |-> {}]
      /\ worker' = [s \in Senders |-> "none"] /\ child' = [s \in Senders |-> "none"]
      /\ cancelled' = {} /\ consumed' = {}
      /\ replyExcused' = replyExcused \cup {u \in R!Updates : replyAt[u] # "done"}
      /\ UNCHANGED <<answers, replyHeard, replyFaults>>
  BY DEF R!Exit, RepliesInv, R!TypeOK, R!ReplyAssumption
<1>f. replyFaults' \in 0..MaxReplyFaults  BY <1>0 DEF RepliesInv, R!TypeOK
<1>1. R!TypeOK'
  <2>1. replyAt' \in [R!Updates -> {"new", "handled", "receipt", "done"}]
    BY <1>0
  <2>2. /\ worker' \in [Senders -> {"none", "debounce", "guard", "orphan"}]
        /\ child' \in [Senders -> {"none", "queued", "run", "sent", "ok", "failed"}]
    BY <1>0
  <2>3. \A s \in Senders : replyQueue'[s] \cup held'[s] \cup replyBatch'[s] \subseteq R!From(s)
    BY <1>0
  <2>4. {cancelled', consumed', noticed'} \subseteq SUBSET Senders
    BY <1>0
  <2>5. {replyHeard', replyExcused'} \subseteq SUBSET R!Updates
    BY <1>0 DEF RepliesInv, R!TypeOK
  <2>6. /\ rows' \subseteq {"in", "out"} \X SUBSET R!Updates /\ closing' \in BOOLEAN
        /\ sound' \subseteq R!Updates /\ answers' \in [R!Updates -> 0..2]
    BY <1>0 DEF RepliesInv, R!TypeOK
  <2> QED  BY <1>0, <1>f, <2>1, <2>2, <2>3, <2>4, <2>5, <2>6 DEF R!TypeOK
<1>2. ReplyItems'
  BY <1>0, ItsSender DEF RepliesInv, R!TypeOK, ReplyItems
<1>3. OwnersHold'
  BY <1>0, ItsSender DEF RepliesInv, R!TypeOK, ReplyItems, OwnersHold, ItemWaits
<1>4. WorkersHold'
  BY <1>0, ItsSender DEF RepliesInv, R!TypeOK, ReplyItems, WorkersHold, R!Live
<1>5. WordsFit'
  BY <1>0, ItsSender DEF RepliesInv, R!TypeOK, ReplyItems, WordsFit, R!Live, WorkersHold
<1>6. AnsweredFit'
  BY <1>0, ItsSender DEF RepliesInv, R!TypeOK, ReplyItems, AnsweredFit, ItemWaits,
     OwnersHold, WorkersHold, R!Live, WordsFit
<1>7. DirectFit'
  BY <1>0, ItsSender DEF RepliesInv, R!TypeOK, ReplyItems, DirectFit, ItemWaits,
     OwnersHold, WorkersHold, R!Live, WordsFit, AnsweredFit
<1> QED  BY <1>1, <1>2, <1>3, <1>4, <1>5, <1>6, <1>7 DEF RepliesInv

-----------------------------------------------------------------------------
\* What the invariant says of the replies.
LEMMA RepliesRead ==
  ASSUME R!ReplyAssumption, RepliesInv
  PROVE  R!OneVoice /\ R!SettledByOwners /\ R!RepeatsExplained /\ R!DirectHeard
<1>1. R!OneVoice  BY DEF R!OneVoice, RepliesInv, WordsFit, R!TypeOK
<1>2. R!SettledByOwners
  <2> SUFFICES ASSUME NEW u \in R!Updates, replyAt[u] = "done"
               PROVE  ~R!Owned(u) /\ (closing \/ ~(R!Live(u[1]) /\ u \in replyBatch[u[1]]))
    BY DEF R!SettledByOwners
  <2>1. ~ItemWaits(u)  BY DEF RepliesInv, OwnersHold
  <2>2. ~R!Owned(u)  BY <2>1 DEF RepliesInv, OwnersHold, R!Owned, ItemWaits
  <2>3. ~closing /\ R!Live(u[1]) => u \notin replyBatch[u[1]]
    BY <2>1, ItsSender DEF RepliesInv, WorkersHold, ItemWaits
  <2> QED  BY <2>2, <2>3
<1>3. R!RepeatsExplained
  BY DEF R!RepeatsExplained, RepliesInv, AnsweredFit, R!TypeOK
<1>4. R!DirectHeard  BY DEF R!DirectHeard, RepliesInv, DirectFit
<1> QED  BY <1>1, <1>2, <1>3, <1>4

\* The invariant of the debounced replies: a batch is answered or told of a failure and never
\* both, a receipt outlives its owners, a message is answered twice only after a lost row or a
\* stop, and no message to the bot is completed in silence, for any number of senders,
\* messages, permits, failures and stops (handlers/group.py, services/update_completion.py).
THEOREM RepliesInvariant ==
  ASSUME R!ReplyAssumption
  PROVE  R!Init /\ [][R!Next]_replyVars => [](/\ RepliesInv /\ R!OneVoice /\ R!SettledByOwners
                       /\ R!RepeatsExplained /\ R!DirectHeard)
<1>1. R!Init => RepliesInv
  <2> SUFFICES ASSUME R!Init PROVE RepliesInv  OBVIOUS
  <2>0. /\ replyAt = [u \in R!Updates |-> "new"] /\ sound = R!Updates /\ rows = {}
            /\ closing = FALSE
        /\ replyQueue = [s \in Senders |-> {}] /\ held = [s \in Senders |-> {}]
        /\ replyBatch = [s \in Senders |-> {}] /\ worker = [s \in Senders |-> "none"]
        /\ child = [s \in Senders |-> "none"] /\ cancelled = {} /\ consumed = {}
        /\ answers = [u \in R!Updates |-> 0] /\ noticed = {} /\ replyHeard = {}
            /\ replyExcused = {}
        /\ replyFaults = 0 /\ replyStops = 0
    BY DEF R!Init, R!Idle
  <2>n. 0 \in 0..MaxReplyFaults /\ 0 \in 0..MaxReplyStops  BY DEF R!ReplyAssumption
  <2>1. R!TypeOK
    <3>1. replyAt \in [R!Updates -> {"new", "handled", "receipt", "done"}]  BY <2>0
    <3>2. /\ worker \in [Senders -> {"none", "debounce", "guard", "orphan"}]
          /\ child \in [Senders -> {"none", "queued", "run", "sent", "ok", "failed"}]
      BY <2>0
    <3>3. answers \in [R!Updates -> 0..2]  BY <2>0
    <3>4. \A s \in Senders : replyQueue[s] \cup held[s] \cup replyBatch[s] \subseteq R!From(s)
      BY <2>0
    <3>5. /\ {cancelled, consumed, noticed} \subseteq SUBSET Senders
          /\ {replyHeard, replyExcused} \subseteq SUBSET R!Updates
          /\ rows \subseteq {"in", "out"} \X SUBSET R!Updates
      BY <2>0
    <3> QED  BY <2>0, <2>n, <3>1, <3>2, <3>3, <3>4, <3>5 DEF R!TypeOK
  <2>2. ReplyItems  BY <2>0 DEF ReplyItems
  <2>3. OwnersHold /\ WorkersHold /\ WordsFit
    BY <2>0, ItsSender DEF OwnersHold, WorkersHold, WordsFit, ItemWaits, R!Live
  <2>4. AnsweredFit  BY <2>0, ItsSender DEF AnsweredFit, ItemWaits
  <2>5. DirectFit  BY <2>0, ItsSender DEF DirectFit, ItemWaits
  <2> QED  BY <2>1, <2>2, <2>3, <2>4, <2>5 DEF RepliesInv
<1>2. RepliesInv /\ [R!Next]_replyVars => RepliesInv'
  <2> SUFFICES ASSUME RepliesInv, [R!Next]_replyVars PROVE RepliesInv'  OBVIOUS
  <2>1. CASE UNCHANGED replyVars
    <3>1. UNCHANGED <<replyAt, sound, replyQueue, worker, held, replyBatch, child, cancelled,
    consumed, rows,
                      closing, answers, noticed, replyHeard, replyExcused, replyFaults,
                      replyStops>>
      BY <2>1 DEF replyVars, R!inboxVars, R!workVars, R!historyVars
    <3>2. R!TypeOK' /\ ReplyItems'  BY <3>1 DEF RepliesInv, R!TypeOK, ReplyItems
    <3>3. OwnersHold' /\ WorkersHold'
      BY <3>1 DEF RepliesInv, OwnersHold, WorkersHold, ItemWaits, R!Live
    <3>4. WordsFit'  BY <3>1 DEF RepliesInv, WordsFit, R!Live
    <3>5. AnsweredFit' /\ DirectFit'  BY <3>1 DEF RepliesInv, AnsweredFit,
        DirectFit, ItemWaits
    <3> QED  BY <3>2, <3>3, <3>4, <3>5 DEF RepliesInv
  <2>2. CASE \E u \in R!Updates : R!Handle(u) \/ R!Message(u) \/ R!Complete(u)
    BY <2>2, HandleKeeps, LeaveKeeps, KeywordReplyKeeps, EnqueueKeeps,
       OverloadKeeps,
       CompleteKeeps DEF R!Message
  <2>3. CASE \E s \in Senders : R!Generate(s) \/ R!Store(s) \/ R!Obey(s) \/ R!Work(s)
                 \/ R!Deadline(s)
    BY <2>3, TakePermitKeeps, SkipKeeps, DeliverKeeps, BreakKeeps, StoreKeeps,
       ObeyKeeps,
       TakeKeeps, SettleKeeps, ReplyDeadline DEF R!Generate, R!Work
  <2>4. CASE \E r \in rows : R!WriteRow(r)  BY <2>4, WriteRowKeeps
  <2>5. CASE R!GiveUp \/ R!Exit  BY <2>5, GiveUpKeeps, ExitKeeps
  <2> QED  BY <2>1, <2>2, <2>3, <2>4, <2>5 DEF R!Next
<1>3. RepliesInv => R!OneVoice /\ R!SettledByOwners /\ R!RepeatsExplained /\ R!DirectHeard
  BY RepliesRead
<1> QED  BY <1>1, <1>2, <1>3, PTL

-----------------------------------------------------------------------------
(* The answer of a turn and its card: ReplyDelivery *)

\* The outcome of an overlay that shows the answer, or may.
Taken == outcome \in {"attached", "ambiguous"}
Unsettled == card \in {"status", "both"}

\* Where the turn is while the overlay's outcome is open, and after it.
OutcomeFits ==
  /\ doubt => answerAt \in A!Edits
  /\ answerAt \in A!Edits => outcome \in {"pending", "attempting"}
  /\ outcome = "attempting" => answerAt \in A!Edits
  /\ answerAt \in {"idle", "work", "text", "stream", "dismiss", "expire"} => ~Taken
  /\ armed \/ answerAt = "converge" => Taken
  /\ outcome = "attached" => confirmed
  /\ outcome = "ambiguous" => ambiguous

\* The answer is on the card only if the overlay took it, or an edit of it was lost.
CardFits == card \in {"both", "answer"} => Taken \/ (answerAt \in A!Edits /\ doubt)

\* No card appears once the tracker knows one, has given it away or is through.
RevealFits ==
  /\ known \/ handed \/ answerAt \in {"expire", "over"} => reveal = "over"
  /\ outcome # "none" => handed
  /\ answerAt \in A!Edits \cup {"text", "stream", "converge", "tidy", "finish"} => handed
  /\ answerAt = "idle" => reveal = "no"
  /\ answerAt \in A!Edits => known

\* Somebody is still going to settle a card that shows the status.
CardOwned ==
  /\ Taken /\ Unsettled => armed \/ answerAt = "converge" \/ answerExcused
  /\ Unsettled => known \/ answerExcused \/ answerAt = "expire" \/ (answerAt = "over" /\ swept)
  /\ answerAt = "over" /\ Unsettled => armed \/ swept \/ answerExcused

\* Messages of its own are sent only when the overlay has not taken the answer, and one that
\* is accepted is the first but for lost ones.
Sent ==
  /\ answerAt \in A!Edits \cup {"idle", "work"} \/ Taken => \A p \in 1..MaxParts :
      copies[p] = 0
  /\ \A p \in 1..MaxParts : copies[p] <= 1 + lost[p]
  /\ ~confirmed => \A p \in 1..MaxParts : copies[p] <= lost[p]
  /\ answerAt = "text" => \A p \in 1..MaxParts : p >= part => copies[p] <= lost[p]
  /\ answerAt = "stream" => \A p \in 1..MaxParts : p > part => copies[p] <= lost[p]

Control == OutcomeFits /\ CardFits /\ RevealFits /\ CardOwned

\* The types: of places, of flags and of numbers.
Words ==
  /\ answerAt \in {"idle", "work", "text", "stream", "converge", "tidy", "finish",
             "cut", "dismiss", "expire", "over"} \cup A!Edits
  /\ reveal \in {"no", "armed", "sending", "over"}
  /\ card \in {"none", "status", "both", "answer", "terminal", "gone"}
  /\ outcome \in {"none", "pending", "attempting", "attached", "definite_failure", "ambiguous"}
  /\ ending \in {"none", "ok", "failed", "raised"}
Flags ==
  /\ known \in BOOLEAN /\ asReply \in BOOLEAN /\ handed \in BOOLEAN /\ doubt \in BOOLEAN
  /\ all \in BOOLEAN /\ confirmed \in BOOLEAN /\ ambiguous \in BOOLEAN
  /\ armed \in BOOLEAN /\ confirms \in BOOLEAN /\ swept \in BOOLEAN
      /\ answerExcused \in BOOLEAN
Counts ==
  /\ parts \in 1..MaxParts /\ part \in 1..MaxParts /\ copies \in [1..MaxParts -> Nat]
  /\ lost \in [1..MaxParts -> Nat] /\ answerFaults \in 0..MaxSendFaults

\* The inductive invariant.
AnswerInv == A!TypeOK /\ Control /\ Sent

\* The types in three parts.
LEMMA TypeParts ==
  /\ A!TypeOK <=> Words /\ Flags /\ Counts
  /\ A!TypeOK' <=> (Words /\ Flags /\ Counts)'
BY DEF A!TypeOK, Words, Flags, Counts

\* A failed call is one of the bounded faults.
LEMMA AnswerFaultsFit ==
  ASSUME A!AnswerAssumption, A!TypeOK, A!Fine \/ A!Fails 
      PROVE answerFaults' \in 0..MaxSendFaults
BY DEF A!AnswerAssumption, A!TypeOK, A!Fine, A!Fails

\* Numbers that come from nowhere else.
LEMMA AnswerBounds ==
  ASSUME A!AnswerAssumption
  PROVE  /\ MaxParts \in Nat /\ 1 \in 1..MaxParts
         /\ MaxSendFaults \in Nat /\ 0 \in 0..MaxSendFaults
BY DEF A!AnswerAssumption

\* A step that sends nothing keeps what is said of the messages.
LEMMA NothingSent ==
  ASSUME Sent, UNCHANGED <<copies, lost>>, confirmed' \/ ~confirmed,
         (answerAt' \in A!Edits \cup {"idle", "work"} \/ Taken') =>
           answerAt \in A!Edits \cup {"idle", "work"} \/ Taken,
         answerAt' \notin {"text", "stream"} \/ answerAt \in A!Edits \cup {"idle", "work"},
         A!TypeOK
  PROVE  Sent'
<1>1. \A p \in 1..MaxParts : copies'[p] = copies[p] /\ lost'[p] = lost[p] /\ lost[p] \in Nat
  BY DEF A!TypeOK
<1>2. (answerAt' \in A!Edits \cup {"idle", "work"} \/ Taken') => \A p \in 1..MaxParts :
          copies'[p] = 0
  BY DEF Sent
<1>3. \A p \in 1..MaxParts : copies'[p] <= 1 + lost'[p]
  BY <1>1 DEF Sent
<1>4. ~confirmed' => \A p \in 1..MaxParts : copies'[p] <= lost'[p]
  BY <1>1 DEF Sent
<1>5. answerAt' \in {"text", "stream"} => \A p \in 1..MaxParts : copies'[p] <= lost'[p]
  <2>1. answerAt \in A!Edits \cup {"idle", "work"} => \A p \in 1..MaxParts : copies[p] = 0
    BY DEF Sent
  <2> QED  BY <1>1, <2>1
<1> QED  BY <1>2, <1>3, <1>4, <1>5 DEF Sent

-----------------------------------------------------------------------------
(* The card *)

\* The card is due, and appears or not.
LEMMA RevealKeeps ==
  ASSUME A!AnswerAssumption, AnswerInv, A!Start \/ A!RevealCall \/ A!Revealed
  PROVE  AnswerInv'
<1>1. CASE A!Start
  <2>1. A!TypeOK'
    <3>w. Words'
      BY <1>1, TypeParts DEF AnswerInv, Words, A!Edits, A!Start, A!answer, A!said, A!task
    <3>b. Flags'  BY <1>1, TypeParts DEF AnswerInv, Flags, A!Start, A!answer, A!said, A!task
    <3>n. Counts'  BY <1>1, TypeParts DEF AnswerInv, Counts, A!Start, A!answer, A!said, A!task
    <3> QED  BY <3>w, <3>b, <3>n, TypeParts
  <2>2. Control'
    <3>1. OutcomeFits'
      BY <1>1, TypeParts DEF AnswerInv, Control, OutcomeFits, Taken, A!Edits, A!Start, A!said,
         A!task
    <3>2. CardFits'
      BY <1>1, TypeParts DEF AnswerInv, Control, OutcomeFits, CardFits, RevealFits, Taken,
         A!Edits, A!Start, A!said, A!task
    <3>3. RevealFits'
      BY <1>1, TypeParts DEF AnswerInv, Control, RevealFits, OutcomeFits, A!Edits, A!Start,
         A!said, A!task
    <3>4. CardOwned'
      BY <1>1, TypeParts DEF AnswerInv, Control, OutcomeFits, CardFits, RevealFits,
         CardOwned, Taken, Unsettled, A!Edits, A!Start, A!said, A!task
    <3> QED  BY <3>1, <3>2, <3>3, <3>4 DEF Control
  <2>3. Sent'
    BY <1>1, NothingSent DEF A!Start, AnswerInv, Taken, A!Edits, A!answer, A!said
  <2> QED  BY <2>1, <2>2, <2>3 DEF AnswerInv
<1>2. CASE A!RevealCall
  <2>1. A!TypeOK'
    <3>w. Words'
      BY <1>2, TypeParts DEF AnswerInv, Words, A!Edits, A!RevealCall, A!answer, A!said,
        A!task
    <3>b. Flags'
      BY <1>2, TypeParts DEF AnswerInv, Flags, A!RevealCall, A!answer, A!said, A!task
    <3>n. Counts'
      BY <1>2, TypeParts DEF AnswerInv, Counts, A!RevealCall, A!answer, A!said, A!task
    <3> QED  BY <3>w, <3>b, <3>n, TypeParts
  <2>2. Control'
    <3>1. OutcomeFits'
      BY <1>2, TypeParts DEF AnswerInv, Control, OutcomeFits, Taken, A!Edits, A!RevealCall,
         A!said, A!task
    <3>2. CardFits'
      BY <1>2, TypeParts DEF AnswerInv, Control, OutcomeFits, CardFits, RevealFits, Taken,
         A!Edits, A!RevealCall, A!said, A!task
    <3>3. RevealFits'
      BY <1>2, TypeParts DEF AnswerInv, Control, RevealFits, OutcomeFits, A!Edits,
         A!RevealCall, A!said, A!task
    <3>4. CardOwned'
      BY <1>2, TypeParts DEF AnswerInv, Control, OutcomeFits, CardFits, RevealFits,
         CardOwned, Taken, Unsettled, A!Edits, A!RevealCall, A!said, A!task
    <3> QED  BY <3>1, <3>2, <3>3, <3>4 DEF Control
  <2>3. Sent'
    BY <1>2 DEF A!RevealCall, AnswerInv, Sent, Taken, A!Edits, A!answer, A!said
  <2> QED  BY <2>1, <2>2, <2>3 DEF AnswerInv
<1>3. CASE A!Revealed
  <2>0. /\ reveal = "sending" /\ reveal' = "over"
        /\ UNCHANGED <<answerAt, handed, outcome, doubt, parts, part, copies, all, lost,
                       confirmed,
                       ambiguous, armed, confirms, swept, ending>>
        /\ \/ card' = "status" /\ known' = TRUE /\ asReply' \in BOOLEAN
            /\ UNCHANGED answerExcused
           \/ card' \in {card, "status"} /\ answerExcused' = TRUE
               /\ UNCHANGED <<known, asReply>>
    BY <1>3 DEF A!Revealed, A!Shows, A!May, A!answer, A!said, A!task
  <2>1. A!TypeOK'
    <3>1. answerFaults' \in 0..MaxSendFaults
      BY <1>3, AnswerFaultsFit DEF A!Revealed, AnswerInv
    <3>w. Words'  BY <2>0, <3>1, TypeParts DEF AnswerInv, Words, A!Edits
    <3>b. Flags'  BY <2>0, <3>1, TypeParts DEF AnswerInv, Flags
    <3>n. Counts'  BY <2>0, <3>1, TypeParts DEF AnswerInv, Counts
    <3> QED  BY <3>w, <3>b, <3>n, TypeParts
  <2>2. Control'
    <3>1. OutcomeFits'
      BY <2>0, TypeParts DEF AnswerInv, Control, OutcomeFits, Taken, A!Edits
    <3>2. CardFits'
      BY <2>0, TypeParts DEF AnswerInv, Control, OutcomeFits, CardFits, RevealFits, Taken,
         A!Edits
    <3>3. RevealFits'
      BY <2>0, TypeParts DEF AnswerInv, Control, RevealFits, OutcomeFits, A!Edits
    <3>4. CardOwned'
      BY <2>0, TypeParts DEF AnswerInv, Control, OutcomeFits, CardFits, RevealFits,
         CardOwned, Taken, Unsettled, A!Edits
    <3> QED  BY <3>1, <3>2, <3>3, <3>4 DEF Control
  <2>3. Sent'  BY <2>0 DEF AnswerInv, Sent, Taken, A!Edits
  <2> QED  BY <2>1, <2>2, <2>3 DEF AnswerInv
<1> QED  BY <1>1, <1>2, <1>3

\* The answer is to take the card, or goes by itself.
LEMMA HandoffKeeps ==
  ASSUME A!AnswerAssumption, AnswerInv, A!Handoff  PROVE AnswerInv'
<1>0. /\ answerAt = "work" /\ handed' = TRUE /\ reveal' = "over" /\ parts' \in 1..MaxParts
      /\ outcome' = (IF known THEN "pending" ELSE "none")
      /\ answerAt' \in {"combined", "text"} /\ (answerAt' = "combined" => known)
      /\ UNCHANGED <<card, known, asReply, doubt, part, copies, all, lost, confirmed,
                     ambiguous,
                     armed, confirms, swept, ending, answerExcused, answerFaults>>
  BY DEF A!Handoff, A!said, A!task
<1>1. A!TypeOK'
  <2>w. Words'  BY <1>0, TypeParts DEF AnswerInv, Words, A!Edits
  <2>b. Flags'  BY <1>0, TypeParts DEF AnswerInv, Flags
  <2>n. Counts'  BY <1>0, TypeParts DEF AnswerInv, Counts
  <2> QED  BY <2>w, <2>b, <2>n, TypeParts
<1>2. Control'
  <2>1. OutcomeFits'
    BY <1>0, TypeParts DEF AnswerInv, Control, OutcomeFits, Taken, A!Edits
  <2>2. CardFits'
    BY <1>0, TypeParts DEF AnswerInv, Control, OutcomeFits, CardFits, RevealFits, Taken,
       A!Edits
  <2>3. RevealFits'
    BY <1>0, TypeParts DEF AnswerInv, Control, RevealFits, OutcomeFits, A!Edits
  <2>4. CardOwned'
    BY <1>0, TypeParts DEF AnswerInv, Control, OutcomeFits, CardFits, RevealFits,
       CardOwned, Taken, Unsettled, A!Edits
  <2> QED  BY <2>1, <2>2, <2>3, <2>4 DEF Control
<1>3. Sent'
  BY <1>0, NothingSent DEF AnswerInv, Taken, A!Edits
<1> QED  BY <1>1, <1>2, <1>3 DEF AnswerInv

\* The edit took effect, or may have.
LEMMA TakenKeeps ==
  ASSUME A!AnswerAssumption, AnswerInv, A!Attach \/ A!Doubtful  PROVE AnswerInv'
<1>0. /\ answerAt \in A!Edits /\ doubt' = FALSE
      /\ answerAt' \in {"tidy", "converge"}
      /\ \/ outcome' = "attached" /\ confirmed' = TRUE /\ UNCHANGED ambiguous
            /\ (card' = "both" \/ card' = "answer") /\ all' = all
         \/ outcome' = "ambiguous" /\ ambiguous' = TRUE /\ UNCHANGED <<confirmed, card>>
            /\ all' = FALSE
      /\ armed' \in {TRUE, armed} /\ confirms' \in {TRUE, FALSE, confirms}
      /\ card' # "answer" => armed' \/ answerAt' = "converge"
      /\ UNCHANGED <<reveal, known, asReply, handed, parts, part, copies, lost, swept, ending,
                     answerExcused>>
      /\ A!Fine \/ A!Fails
  <2>1. CASE A!Attach
    BY <2>1 DEF A!Attach, A!Shows, A!View, A!Arm, A!Spawn, A!mine, A!answer, A!task
  <2>2. CASE A!Doubtful
    BY <2>2 DEF A!Doubtful, A!MarkAmbiguous, A!Arm, A!Spawn, A!mine
  <2> QED  BY <2>1, <2>2
<1>1. A!TypeOK'
  <2>1. answerFaults' \in 0..MaxSendFaults  BY <1>0, AnswerFaultsFit DEF AnswerInv
  <2>w. Words'  BY <1>0, <2>1, TypeParts DEF AnswerInv, Words, A!Edits
  <2>b. Flags'  BY <1>0, <2>1, TypeParts DEF AnswerInv, Flags
  <2>n. Counts'  BY <1>0, <2>1, TypeParts DEF AnswerInv, Counts
  <2> QED  BY <2>w, <2>b, <2>n, TypeParts
<1>2. Control'
  <2>1. OutcomeFits'
    BY <1>0, TypeParts DEF AnswerInv, Control, OutcomeFits, Taken, A!Edits
  <2>2. CardFits'
    BY <1>0, TypeParts DEF AnswerInv, Control, OutcomeFits, CardFits, RevealFits, Taken,
       A!Edits
  <2>3. RevealFits'
    BY <1>0, TypeParts DEF AnswerInv, Control, RevealFits, OutcomeFits, A!Edits
  <2>4. CardOwned'
    BY <1>0, TypeParts DEF AnswerInv, Control, OutcomeFits, CardFits, RevealFits,
       CardOwned, Taken, Unsettled, A!Edits
  <2> QED  BY <2>1, <2>2, <2>3, <2>4 DEF Control
<1>3. Sent'
  <2>1. confirmed' \/ ~confirmed  BY <1>0
  <2> QED  BY <1>0, <2>1, NothingSent DEF AnswerInv, Taken, A!Edits
<1> QED  BY <1>1, <1>2, <1>3 DEF AnswerInv

\* The edit was lost, or refused.
LEMMA EditKeeps ==
  ASSUME A!AnswerAssumption, AnswerInv, A!TryAgain \/ A!Rejected  PROVE AnswerInv'
<1>0. /\ answerAt \in A!Edits /\ answerAt' \in A!Edits \cup {"text"}
      /\ \/ answerAt' = answerAt /\ doubt' = TRUE /\ outcome' = "attempting"
            /\ card' \in {card, "both", "answer"}
         \/ ~doubt /\ doubt' = FALSE /\ UNCHANGED card
            /\ outcome' = (IF answerAt' = "text" THEN "definite_failure" ELSE "attempting")
      /\ UNCHANGED <<reveal, known, asReply, handed, parts, part, copies, all, lost, confirmed,
                     ambiguous, armed, confirms, swept, ending, answerExcused>>
      /\ A!Fails
  <2>1. CASE A!TryAgain
    BY <2>1 DEF A!TryAgain, A!May, A!View, A!mine, A!answer, A!said, A!task
  <2>2. CASE A!Rejected
    BY <2>2 DEF A!Rejected, A!Sure, A!Edits, A!mine, A!answer, A!said, A!task
  <2> QED  BY <2>1, <2>2
<1>1. A!TypeOK'
  <2>1. answerFaults' \in 0..MaxSendFaults  BY <1>0, AnswerFaultsFit DEF AnswerInv
  <2>w. Words'  BY <1>0, <2>1, TypeParts DEF AnswerInv, Words, A!Edits
  <2>b. Flags'  BY <1>0, <2>1, TypeParts DEF AnswerInv, Flags
  <2>n. Counts'  BY <1>0, <2>1, TypeParts DEF AnswerInv, Counts
  <2> QED  BY <2>w, <2>b, <2>n, TypeParts
<1>2. Control'
  <2>1. OutcomeFits'
    BY <1>0, TypeParts DEF AnswerInv, Control, OutcomeFits, Taken, A!Edits
  <2>2. CardFits'
    BY <1>0, TypeParts DEF AnswerInv, Control, OutcomeFits, CardFits, RevealFits, Taken,
       A!Edits
  <2>3. RevealFits'
    BY <1>0, TypeParts DEF AnswerInv, Control, RevealFits, OutcomeFits, A!Edits
  <2>4. CardOwned'
    BY <1>0, TypeParts DEF AnswerInv, Control, OutcomeFits, CardFits, RevealFits,
       CardOwned, Taken, Unsettled, A!Edits
  <2> QED  BY <2>1, <2>2, <2>3, <2>4 DEF Control
<1>3. Sent'
  BY <1>0, NothingSent DEF AnswerInv, Taken, A!Edits
<1> QED  BY <1>1, <1>2, <1>3 DEF AnswerInv

\* The edit without the task, the task itself, and the cleanup's message.
LEMMA ConvergeKeeps ==
  ASSUME A!AnswerAssumption, AnswerInv, A!Converge \/ A!Strip \/ A!Tidy  PROVE AnswerInv'
<1>0. /\ (answerAt = "converge" /\ answerAt' = "tidy" /\ UNCHANGED armed)
         \/ (armed /\ ~armed' /\ answerAt' = answerAt) \/ (answerAt = "tidy"
             /\ answerAt' = "finish" /\ UNCHANGED armed)
      /\ \/ card' = "answer" /\ confirmed' = (confirmed \/ confirms) /\ UNCHANGED answerExcused
         \/ card' \in {card, "answer"} /\ answerExcused' = TRUE /\ UNCHANGED confirmed
         \/ answerAt = "tidy" /\ answerAt' = "finish"
             /\ UNCHANGED <<card, answerExcused, confirmed, armed>>
      /\ answerAt = "converge" \/ armed \/ (answerAt = "tidy" /\ UNCHANGED card)
      /\ armed' \in BOOLEAN
      /\ UNCHANGED <<reveal, known, asReply, handed, outcome, doubt, parts, part, copies, all,
                     lost, ambiguous, confirms, swept, ending>>
      /\ A!Fine \/ A!Fails
  <2>1. CASE A!Converge
    BY <2>1 DEF A!Converge, A!Shows, A!May, A!mine, A!answer, A!task, AnswerInv, A!TypeOK
  <2>2. CASE A!Strip
    BY <2>2 DEF A!Strip, A!Shows, A!May, A!mine, A!answer
  <2>3. CASE A!Tidy
    BY <2>3 DEF A!Tidy, A!Fine, A!mine, A!answer, A!said, A!task, AnswerInv, A!TypeOK
  <2> QED  BY <2>1, <2>2, <2>3
<1>m. confirmed => confirmed'
  BY <1>0
<1>a. armed' => armed
  BY <1>0
<1>1. A!TypeOK'
  <2>1. answerFaults' \in 0..MaxSendFaults  BY <1>0, AnswerFaultsFit DEF AnswerInv
  <2>w. Words'  BY <1>0, <2>1, TypeParts DEF AnswerInv, Words, A!Edits
  <2>b. Flags'  BY <1>0, <2>1, TypeParts DEF AnswerInv, Flags
  <2>n. Counts'  BY <1>0, <2>1, TypeParts DEF AnswerInv, Counts
  <2> QED  BY <2>w, <2>b, <2>n, TypeParts
<1>2. Control'
  <2>1. OutcomeFits'
    BY <1>0, <1>m, <1>a, TypeParts DEF AnswerInv, Control, OutcomeFits, Taken, A!Edits
  <2>2. CardFits'
    BY <1>0, TypeParts DEF AnswerInv, Control, OutcomeFits, CardFits, RevealFits, Taken,
       A!Edits
  <2>3. RevealFits'
    BY <1>0, TypeParts DEF AnswerInv, Control, RevealFits, OutcomeFits, A!Edits
  <2>4. CardOwned'
    BY <1>0, TypeParts DEF AnswerInv, Control, OutcomeFits, CardFits, RevealFits,
       CardOwned, Taken, Unsettled, A!Edits
  <2> QED  BY <2>1, <2>2, <2>3, <2>4 DEF Control
<1>3. Sent'
  <2>1. confirmed' \/ ~confirmed  BY <1>0
  <2>2. answerAt' \notin {"text", "stream"} \/ answerAt \in A!Edits \cup {"idle", "work"}
    BY <1>0 DEF AnswerInv, Control, OutcomeFits
  <2> QED  BY <1>0, <2>1, <2>2, NothingSent DEF AnswerInv, Taken, A!Edits
<1> QED  BY <1>1, <1>2, <1>3 DEF AnswerInv

-----------------------------------------------------------------------------
(* Messages of the answer's own *)

\* The next part, or the end.
LEMMA NextFits ==
  ASSUME A!AnswerAssumption, A!TypeOK, NEW ok \in BOOLEAN, A!NextPart(ok)
  PROVE  /\ all' \in BOOLEAN /\ part' \in 1..MaxParts
         /\ \/ answerAt' = "text" /\ part' = part + 1
            \/ answerAt' = "finish" /\ part' = part
<1>1. parts \in 1..MaxParts /\ part \in 1..MaxParts /\ MaxParts \in Nat
  BY AnswerBounds DEF A!TypeOK
<1> QED  BY <1>1 DEF A!NextPart, A!TypeOK

\* A message shows a part once more; one that is lost, or is cut, may.
LEMMA CopiesFit ==
  ASSUME A!TypeOK, Sent, NEW n \in {0, 1}, A!Delivered(n),
         \/ n = 1 /\ UNCHANGED lost /\ confirmed' = TRUE
         \/ lost' = [lost EXCEPT ![part] = @ + 1] /\ UNCHANGED confirmed,
         answerAt = "text"
  PROVE  /\ copies' \in [1..MaxParts -> Nat] /\ lost' \in [1..MaxParts -> Nat]
         /\ \A p \in 1..MaxParts : copies'[p] <= 1 + lost'[p]
         /\ ~confirmed' => \A p \in 1..MaxParts : copies'[p] <= lost'[p]
         /\ lost' # lost => \A p \in 1..MaxParts : p >= part => copies'[p] <= lost'[p]
         /\ \A p \in 1..MaxParts : p > part => copies'[p] <= lost'[p]
<1>1. part \in 1..MaxParts /\ copies \in [1..MaxParts -> Nat] /\ lost \in [1..MaxParts -> Nat]
  BY DEF A!TypeOK
<1>2. copies' = [copies EXCEPT ![part] = copies[part] + n]
  BY DEF A!Delivered
<1>3. /\ copies' \in [1..MaxParts -> Nat] /\ copies'[part] = copies[part] + n
      /\ \A p \in 1..MaxParts : p # part => copies'[p] = copies[p]
  BY <1>1, <1>2
<1>4. /\ \A p \in 1..MaxParts : p >= part => copies[p] <= lost[p]
      /\ \A p \in 1..MaxParts : copies[p] <= 1 + lost[p]
      /\ ~confirmed => \A p \in 1..MaxParts : copies[p] <= lost[p]
  BY DEF Sent
<1>5. CASE n = 1 /\ UNCHANGED lost /\ confirmed' = TRUE
  <2>1. copies[part] <= lost[part]  BY <1>1, <1>4
  <2>2. copies'[part] <= 1 + lost'[part]  BY <1>1, <1>3, <1>5, <2>1
  <2> QED  BY <1>1, <1>3, <1>4, <1>5, <2>2
<1>6. CASE lost' = [lost EXCEPT ![part] = @ + 1] /\ UNCHANGED confirmed
  <2>1. /\ lost' \in [1..MaxParts -> Nat] /\ lost'[part] = lost[part] + 1
        /\ \A p \in 1..MaxParts : p # part => lost'[p] = lost[p]
    BY <1>1, <1>6
  <2>2. copies'[part] <= lost'[part]  BY <1>1, <1>3, <1>4, <2>1
  <2>3. \A p \in 1..MaxParts : p >= part => copies'[p] <= lost'[p]
    BY <1>1, <1>3, <1>4, <2>1, <2>2
  <2>4. \A p \in 1..MaxParts : copies'[p] <= 1 + lost'[p]
    BY <1>1, <1>3, <1>4, <2>1, <2>2
  <2>5. ~confirmed' => \A p \in 1..MaxParts : copies'[p] <= lost'[p]
    BY <1>1, <1>3, <1>4, <1>6, <2>1, <2>2
  <2> QED  BY <1>1, <1>3, <2>1, <2>3, <2>4, <2>5
<1> QED  BY <1>5, <1>6

\* A message, and the edits it grows by.
LEMMA MessageKeeps ==
  ASSUME A!AnswerAssumption, AnswerInv, A!SendText \/ A!Stream  PROVE AnswerInv'
<1>t. part \in 1..MaxParts /\ all \in BOOLEAN  BY DEF AnswerInv, A!TypeOK
<1>0. /\ answerAt \in {"text", "stream"}
      /\ \/ answerAt' \in {"text", "finish", "stream"} /\ (answerAt' = "stream"
          => answerAt = "text")
      /\ confirmed' \in {TRUE, confirmed}
      /\ all' \in BOOLEAN /\ part' \in 1..MaxParts
      /\ UNCHANGED <<reveal, known, asReply, handed, card, outcome, doubt, parts, ambiguous,
                     armed, confirms, swept, ending, answerExcused>>
      /\ A!Fine \/ A!Fails
  <2>1. \A ok \in BOOLEAN : A!NextPart(ok) =>
          all' \in BOOLEAN /\ part' \in 1..MaxParts /\ answerAt' \in {"text", "finish"}
    BY NextFits DEF AnswerInv
  <2>2. CASE A!SendText
    BY <1>t, <2>1, <2>2 DEF A!SendText, A!mine, A!task
  <2>3. CASE A!Stream
    BY <1>t, <2>1, <2>3 DEF A!Stream, A!mine, A!said, A!task
  <2> QED  BY <2>2, <2>3
<1>1. /\ copies' \in [1..MaxParts -> Nat] /\ lost' \in [1..MaxParts -> Nat] /\ Sent'
  <2>n. part \in Nat /\ MaxParts \in Nat  BY <1>t, AnswerBounds
  <2>f. ~Taken' /\ answerAt' \notin A!Edits \cup {"idle", "work"}
    BY <1>0 DEF AnswerInv, Control, OutcomeFits, Taken, A!Edits
  <2>1. CASE A!SendText
    <3>1. /\ copies' \in [1..MaxParts -> Nat] /\ lost' \in [1..MaxParts -> Nat]
          /\ \A p \in 1..MaxParts : copies'[p] <= 1 + lost'[p]
          /\ ~confirmed' => \A p \in 1..MaxParts : copies'[p] <= lost'[p]
          /\ lost' # lost => \A p \in 1..MaxParts : p >= part => copies'[p] <= lost'[p]
          /\ \A p \in 1..MaxParts : p > part => copies'[p] <= lost'[p]
      <4>1. CASE A!Delivered(1) /\ confirmed' = TRUE /\ UNCHANGED lost
        BY <2>1, <4>1, CopiesFit DEF A!SendText, AnswerInv
      <4>2. CASE /\ UNCHANGED confirmed /\ lost' = [lost EXCEPT ![part] = @ + 1]
                 /\ \E n \in {0, 1} : A!Delivered(n)
        BY <2>1, <4>2, CopiesFit DEF A!SendText, AnswerInv
      <4> QED  BY <2>1, <4>1, <4>2 DEF A!SendText
    <3>2. \/ answerAt' = "text" /\ part' = part + 1
          \/ answerAt' = "finish"
          \/ answerAt' = "stream" /\ part' = part
          \/ answerAt' = "text" /\ part' = part /\ lost' # lost
      <4>1. \A ok \in BOOLEAN : A!NextPart(ok) =>
              (answerAt' = "text" /\ part' = part + 1) \/ answerAt' = "finish"
        BY NextFits DEF AnswerInv
      <4>2. lost' = [lost EXCEPT ![part] = @ + 1] => lost' # lost
        <5>1. lost \in [1..MaxParts -> Nat]  BY DEF AnswerInv, A!TypeOK
        <5>2. lost[part] # lost[part] + 1  BY <1>t, <5>1
        <5> QED  BY <1>t, <5>1, <5>2
      <4> QED  BY <2>1, <4>1, <4>2 DEF A!SendText
    <3>3. answerAt' = "text" => \A p \in 1..MaxParts : p >= part' => copies'[p] <= lost'[p]
      <4>1. CASE part' = part + 1
        BY <2>n, <3>1, <4>1
      <4>2. CASE part' = part /\ lost' # lost
        BY <3>1, <4>2
      <4> QED  BY <3>2, <4>1, <4>2
    <3>4. answerAt' = "stream" => \A p \in 1..MaxParts : p > part' => copies'[p] <= lost'[p]
      BY <3>1, <3>2
    <3> QED  BY <2>f, <3>1, <3>3, <3>4 DEF Sent
  <2>2. CASE A!Stream
    <3>1. UNCHANGED <<copies, lost, confirmed>> /\ answerAt = "stream"
      BY <2>2 DEF A!Stream, A!said
    <3>2. (answerAt' = "text" /\ part' = part + 1) \/ answerAt' = "finish"
      <4>1. \A ok \in BOOLEAN : A!NextPart(ok) =>
              (answerAt' = "text" /\ part' = part + 1) \/ answerAt' = "finish"
        BY NextFits DEF AnswerInv
      <4> QED  BY <2>2, <4>1 DEF A!Stream
    <3>3. answerAt' = "text" => \A p \in 1..MaxParts : p >= part' => copies'[p] <= lost'[p]
      <4>1. \A p \in 1..MaxParts : p > part => copies[p] <= lost[p]
        BY <3>1 DEF AnswerInv, Sent
      <4> QED  BY <2>n, <3>1, <3>2, <4>1
    <3> QED  BY <2>f, <3>1, <3>2, <3>3 DEF AnswerInv, Sent, A!TypeOK
  <2> QED  BY <2>1, <2>2
<1>2. A!TypeOK'
  <2>1. answerFaults' \in 0..MaxSendFaults  BY <1>0, AnswerFaultsFit DEF AnswerInv
  <2>w. Words'  BY <1>0, <1>1, <2>1, TypeParts DEF AnswerInv, Words, A!Edits
  <2>b. Flags'  BY <1>0, <1>1, <2>1, TypeParts DEF AnswerInv, Flags
  <2>n. Counts'  BY <1>0, <1>1, <2>1, TypeParts DEF AnswerInv, Counts
  <2> QED  BY <2>w, <2>b, <2>n, TypeParts
<1>3. Control'
  <2>1. OutcomeFits'
    BY <1>0, TypeParts DEF AnswerInv, Control, OutcomeFits, Taken, A!Edits
  <2>2. CardFits'
    BY <1>0, TypeParts DEF AnswerInv, Control, OutcomeFits, CardFits, RevealFits, Taken,
       A!Edits
  <2>3. RevealFits'
    BY <1>0, TypeParts DEF AnswerInv, Control, RevealFits, OutcomeFits, A!Edits
  <2>4. CardOwned'
    BY <1>0, TypeParts DEF AnswerInv, Control, OutcomeFits, CardFits, RevealFits,
       CardOwned, Taken, Unsettled, A!Edits
  <2> QED  BY <2>1, <2>2, <2>3, <2>4 DEF Control
<1> QED  BY <1>1, <1>2, <1>3 DEF AnswerInv

-----------------------------------------------------------------------------
(* The deadline, the cancellation and the end *)

\* What is cut while an edit is under way: the card is somebody's.
LEMMA CutEditKeeps ==
  ASSUME A!AnswerAssumption, AnswerInv, NEW s \in {"finish", "cut"}, A!CutEdit(s),
         all' \in BOOLEAN
  PROVE  AnswerInv'
<1>0. /\ answerAt \in A!Edits /\ answerAt' = s /\ doubt' = FALSE
          /\ card' \in {card, "both", "answer"}
      /\ outcome' = "ambiguous" /\ ambiguous' = TRUE
      /\ (armed' = TRUE /\ confirms' = TRUE /\ UNCHANGED answerExcused)
         \/ (answerExcused' = TRUE /\ UNCHANGED <<armed, confirms>>)
      /\ UNCHANGED <<reveal, known, asReply, handed, parts, part, copies, lost, confirmed,
                     swept, ending>>
      /\ A!Fails
  BY DEF A!CutEdit, A!May, A!View, A!MarkAmbiguous, A!Spawn, A!task, A!mine
<1>1. A!TypeOK'
  <2>1. answerFaults' \in 0..MaxSendFaults  BY <1>0, AnswerFaultsFit DEF AnswerInv
  <2>w. Words'  BY <1>0, <2>1, TypeParts DEF AnswerInv, Words, A!Edits
  <2>b. Flags'  BY <1>0, <2>1, TypeParts DEF AnswerInv, Flags
  <2>n. Counts'  BY <1>0, <2>1, TypeParts DEF AnswerInv, Counts
  <2> QED  BY <2>w, <2>b, <2>n, TypeParts
<1>2. Control'
  <2>1. OutcomeFits'
    BY <1>0, TypeParts DEF AnswerInv, Control, OutcomeFits, Taken, A!Edits
  <2>2. CardFits'
    BY <1>0, TypeParts DEF AnswerInv, Control, OutcomeFits, CardFits, RevealFits, Taken,
       A!Edits
  <2>3. RevealFits'
    BY <1>0, TypeParts DEF AnswerInv, Control, RevealFits, OutcomeFits, A!Edits
  <2>4. CardOwned'
    BY <1>0, TypeParts DEF AnswerInv, Control, OutcomeFits, CardFits, RevealFits,
       CardOwned, Taken, Unsettled, A!Edits
  <2> QED  BY <2>1, <2>2, <2>3, <2>4 DEF Control
<1>3. Sent'
  BY <1>0, NothingSent DEF AnswerInv, Taken, A!Edits
<1> QED  BY <1>1, <1>2, <1>3 DEF AnswerInv

\* What is cut while a message is under way: it counts as lost.
LEMMA CutSendKeeps ==
  ASSUME A!AnswerAssumption, AnswerInv, NEW s \in {"finish", "cut"}, A!CutSend(s),
         all' \in BOOLEAN
  PROVE  AnswerInv'
<1>0. /\ answerAt \in {"text", "stream", "converge", "tidy"} /\ answerAt' = s
      /\ \/ answerAt = "converge" /\ card' \in {card, "answer"} /\ answerExcused' = TRUE
         \/ answerAt # "converge" /\ UNCHANGED <<card, answerExcused>>
      /\ UNCHANGED <<reveal, known, asReply, handed, outcome, doubt, parts, part, confirmed,
                     ambiguous, armed, confirms, swept, ending>>
      /\ A!Fails
  BY DEF A!CutSend, A!May, A!mine, A!said, A!task
<1>1. copies' \in [1..MaxParts -> Nat] /\ lost' \in [1..MaxParts -> Nat] /\ Sent'
  <2>1. CASE answerAt = "text"
    <3>1. PICK n \in {0, 1} : A!Delivered(n)  BY <2>1 DEF A!CutSend
    <3>2. lost' = [lost EXCEPT ![part] = @ + 1]  BY <2>1 DEF A!CutSend
    <3>3. /\ copies' \in [1..MaxParts -> Nat] /\ lost' \in [1..MaxParts -> Nat]
          /\ \A p \in 1..MaxParts : copies'[p] <= 1 + lost'[p]
          /\ ~confirmed' => \A p \in 1..MaxParts : copies'[p] <= lost'[p]
      BY <1>0, <2>1, <3>1, <3>2, CopiesFit DEF AnswerInv
    <3>4. ~Taken'  BY <1>0, <2>1 DEF AnswerInv, Control, OutcomeFits, Taken
    <3> QED  BY <1>0, <3>3, <3>4 DEF Sent, A!Edits
  <2>2. CASE answerAt # "text"
    <3>1. UNCHANGED <<copies, lost>>  BY <2>2 DEF A!CutSend
    <3> QED  BY <1>0, <3>1, NothingSent DEF AnswerInv, A!TypeOK, Taken, A!Edits
  <2> QED  BY <2>1, <2>2
<1>2. A!TypeOK'
  <2>1. answerFaults' \in 0..MaxSendFaults  BY <1>0, AnswerFaultsFit DEF AnswerInv
  <2>w. Words'  BY <1>0, <1>1, <2>1, TypeParts DEF AnswerInv, Words, A!Edits
  <2>b. Flags'  BY <1>0, <1>1, <2>1, TypeParts DEF AnswerInv, Flags
  <2>n. Counts'  BY <1>0, <1>1, <2>1, TypeParts DEF AnswerInv, Counts
  <2> QED  BY <2>w, <2>b, <2>n, TypeParts
<1>3. Control'
  <2>1. OutcomeFits'
    BY <1>0, TypeParts DEF AnswerInv, Control, OutcomeFits, Taken, A!Edits
  <2>2. CardFits'
    BY <1>0, TypeParts DEF AnswerInv, Control, OutcomeFits, CardFits, RevealFits, Taken,
       A!Edits
  <2>3. RevealFits'
    BY <1>0, TypeParts DEF AnswerInv, Control, RevealFits, OutcomeFits, A!Edits
  <2>4. CardOwned'
    BY <1>0, TypeParts DEF AnswerInv, Control, OutcomeFits, CardFits, RevealFits,
       CardOwned, Taken, Unsettled, A!Edits
  <2> QED  BY <2>1, <2>2, <2>3, <2>4 DEF Control
<1> QED  BY <1>1, <1>2, <1>3 DEF AnswerInv

\* The turn comes to its end, with an answer or without one.
LEMMA TurnEnds ==
  ASSUME A!AnswerAssumption, AnswerInv, A!CancelEarly \/ A!NoAnswer \/ A!Finish 
      PROVE AnswerInv'
<1>0. /\ \/ answerAt \in {"work", "combined", "text"} /\ answerAt' = "cut"
            /\ outcome \in {"none", "pending"} /\ ~doubt
         \/ answerAt = "work" /\ answerAt' = "dismiss"
         \/ answerAt = "finish" /\ answerAt' = (IF A!Owns THEN "over" ELSE "dismiss")
      /\ confirmed' \in {TRUE, confirmed} /\ ending' \in {"ok", "failed", "raised", ending}
      /\ UNCHANGED <<reveal, known, asReply, handed, card, outcome, doubt, parts, part, copies,
                     all, lost, ambiguous, armed, confirms, swept, answerExcused>>
      /\ A!Fine \/ A!Fails
  <2>1. CASE A!CancelEarly
    BY <2>1 DEF A!CancelEarly, A!mine, A!answer, A!said, A!task
  <2>2. CASE A!NoAnswer
    BY <2>2 DEF A!NoAnswer, A!mine, A!answer, A!said, A!task
  <2>3. CASE A!Finish
    BY <2>3 DEF A!Finish, A!Fine, A!AllSent, A!mine, A!answer, A!task, AnswerInv, A!TypeOK
  <2> QED  BY <2>1, <2>2, <2>3
<1>m. confirmed => confirmed'
  BY <1>0
<1>1. A!TypeOK'
  <2>1. answerFaults' \in 0..MaxSendFaults  BY <1>0, AnswerFaultsFit DEF AnswerInv
  <2>w. Words'  BY <1>0, <2>1, TypeParts DEF AnswerInv, Words, A!Edits
  <2>b. Flags'  BY <1>0, <2>1, TypeParts DEF AnswerInv, Flags
  <2>n. Counts'  BY <1>0, <2>1, TypeParts DEF AnswerInv, Counts
  <2> QED  BY <2>w, <2>b, <2>n, TypeParts
<1>2. Control'
  <2>1. OutcomeFits'
    BY <1>0, <1>m, TypeParts DEF AnswerInv, Control, OutcomeFits, Taken, A!Edits, A!Owns
  <2>2. CardFits'
    BY <1>0, TypeParts DEF AnswerInv, Control, OutcomeFits, CardFits, RevealFits, Taken,
       A!Edits, A!Owns
  <2>3. RevealFits'
    BY <1>0, TypeParts DEF AnswerInv, Control, RevealFits, OutcomeFits, A!Edits, A!Owns
  <2>4. CardOwned'
    BY <1>0, TypeParts DEF AnswerInv, Control, OutcomeFits, CardFits, RevealFits,
       CardOwned, Taken, Unsettled, A!Edits, A!Owns
  <2> QED  BY <2>1, <2>2, <2>3, <2>4 DEF Control
<1>3. Sent'
  <2>1. confirmed' \/ ~confirmed  BY <1>0
  <2> QED  BY <1>0, <2>1, NothingSent DEF AnswerInv, Taken, A!Edits
<1> QED  BY <1>1, <1>2, <1>3 DEF AnswerInv

\* The turn was cut: a card of its own says so.
LEMMA CardCut == ASSUME A!AnswerAssumption, AnswerInv, A!Cut  PROVE AnswerInv'
<1>0. /\ answerAt = "cut" /\ answerAt' \in {"over", "dismiss"} /\ ending' = "raised"
      /\ \/ answerAt' = "over" /\ ~A!Owns /\ known /\ card' = "terminal"
         \/ answerAt' = "dismiss" /\ ~A!Owns /\ known /\ card' \in {card, "terminal"}
         \/ answerAt' = (IF A!Owns THEN "over" ELSE "dismiss") /\ UNCHANGED card
            /\ UNCHANGED <<handed, swept>>
      /\ handed' \in {handed, TRUE} /\ (handed' = handed \/ known)
      /\ swept' \in BOOLEAN /\ confirmed' \in {TRUE, confirmed}
      /\ UNCHANGED <<reveal, known, asReply, outcome, doubt, parts, part, copies, all, lost,
                     ambiguous, armed, confirms, answerExcused>>
      /\ A!Fine \/ A!Fails
  BY DEF A!Cut, A!FinishTerminal, A!Shows, A!May, A!answer, A!task, AnswerInv, A!TypeOK
<1>h. (handed' => handed \/ known) /\ (handed => handed')
  <2>1. handed' = handed \/ (handed' = TRUE /\ known)  BY <1>0
  <2>2. CASE handed' = handed  BY <2>2
  <2>3. CASE handed' = TRUE /\ known  BY <2>3
  <2> QED  BY <2>1, <2>2, <2>3
<1>m. confirmed => confirmed'
  BY <1>0
<1>1. A!TypeOK'
  <2>1. answerFaults' \in 0..MaxSendFaults  BY <1>0, AnswerFaultsFit DEF AnswerInv
  <2>w. Words'  BY <1>0, <2>1, TypeParts DEF AnswerInv, Words, A!Edits
  <2>b. Flags'  BY <1>0, <2>1, TypeParts DEF AnswerInv, Flags
  <2>n. Counts'  BY <1>0, <2>1, TypeParts DEF AnswerInv, Counts
  <2> QED  BY <2>w, <2>b, <2>n, TypeParts
<1>2. Control'
  <2>1. OutcomeFits'
    BY <1>0, <1>m, TypeParts DEF AnswerInv, Control, OutcomeFits, Taken, A!Edits, A!Owns
  <2>2. CardFits'
    BY <1>0, TypeParts DEF AnswerInv, Control, OutcomeFits, CardFits, RevealFits, Taken,
       A!Edits, A!Owns
  <2>3. RevealFits'
    BY <1>0, <1>h, TypeParts DEF AnswerInv, Control, RevealFits, OutcomeFits, A!Edits, A!Owns
  <2>4. CardOwned'
    BY <1>0, TypeParts DEF AnswerInv, Control, OutcomeFits, CardFits, RevealFits,
       CardOwned, Taken, Unsettled, A!Edits, A!Owns
  <2> QED  BY <2>1, <2>2, <2>3, <2>4 DEF Control
<1>3. Sent'
  <2>1. confirmed' \/ ~confirmed  BY <1>0
  <2> QED  BY <1>0, <2>1, NothingSent DEF AnswerInv, Taken, A!Edits
<1> QED  BY <1>1, <1>2, <1>3 DEF AnswerInv

\* The card goes, or is ended and left to the cleanup.
LEMMA DismissKeeps ==
  ASSUME A!AnswerAssumption, AnswerInv, A!Dismiss \/ A!Expire  PROVE AnswerInv'
<1>1. CASE A!Dismiss
  <2>0. /\ answerAt = "dismiss" /\ reveal' = "over" /\ handed' = TRUE /\ known' = FALSE
        /\ \/ ~known /\ answerAt' = "over" /\ UNCHANGED <<card, answerExcused>>
           \/ answerAt' = "over" /\ card' = "gone" /\ UNCHANGED answerExcused
           \/ answerAt' = "expire" /\ card' \in {card, "gone"} /\ UNCHANGED answerExcused
           \/ answerAt' = "over" /\ card' \in {card, "gone"} /\ answerExcused' = TRUE
        /\ UNCHANGED <<asReply, outcome, doubt, parts, part, copies, all, lost, confirmed,
                       ambiguous, armed, confirms, swept, ending>>
        /\ A!Fine \/ A!Fails
    BY <1>1 DEF A!Dismiss, A!Shows, A!May, A!answer, A!said, A!task
  <2>1. A!TypeOK'
    <3>1. answerFaults' \in 0..MaxSendFaults  BY <2>0, AnswerFaultsFit DEF AnswerInv
    <3>w. Words'  BY <2>0, <3>1, TypeParts DEF AnswerInv, Words, A!Edits
    <3>b. Flags'  BY <2>0, <3>1, TypeParts DEF AnswerInv, Flags
    <3>n. Counts'  BY <2>0, <3>1, TypeParts DEF AnswerInv, Counts
    <3> QED  BY <3>w, <3>b, <3>n, TypeParts
  <2>2. Control'
    <3>1. OutcomeFits'
      BY <2>0, TypeParts DEF AnswerInv, Control, OutcomeFits, Taken, A!Edits
    <3>2. CardFits'
      BY <2>0, TypeParts DEF AnswerInv, Control, OutcomeFits, CardFits, RevealFits, Taken,
         A!Edits
    <3>3. RevealFits'
      BY <2>0, TypeParts DEF AnswerInv, Control, RevealFits, OutcomeFits, A!Edits
    <3>4. CardOwned'
      BY <2>0, TypeParts DEF AnswerInv, Control, OutcomeFits, CardFits, RevealFits,
         CardOwned, Taken, Unsettled, A!Edits
    <3> QED  BY <3>1, <3>2, <3>3, <3>4 DEF Control
  <2>3. Sent'
    BY <2>0, NothingSent DEF AnswerInv, Taken, A!Edits
  <2> QED  BY <2>1, <2>2, <2>3 DEF AnswerInv
<1>2. CASE A!Expire
  <2>0. /\ answerAt = "expire" /\ answerAt' = "over"
        /\ \/ card' \in {"gone", "terminal"} /\ swept' = TRUE /\ UNCHANGED answerExcused
           \/ swept' = TRUE /\ UNCHANGED <<card, answerExcused>>
           \/ answerExcused' = TRUE /\ UNCHANGED <<card, swept>>
        /\ UNCHANGED <<reveal, known, asReply, handed, outcome, doubt, parts, part, copies,
                       all,
                       lost, confirmed, ambiguous, armed, confirms, ending>>
        /\ A!Fine \/ A!Fails
    BY <1>2 DEF A!Expire, A!FinishTerminal, A!LeftToCleanup, A!Shows, A!mine, A!answer,
       A!said, A!task
  <2>1. A!TypeOK'
    <3>1. answerFaults' \in 0..MaxSendFaults  BY <2>0, AnswerFaultsFit DEF AnswerInv
    <3>w. Words'  BY <2>0, <3>1, TypeParts DEF AnswerInv, Words, A!Edits
    <3>b. Flags'  BY <2>0, <3>1, TypeParts DEF AnswerInv, Flags
    <3>n. Counts'  BY <2>0, <3>1, TypeParts DEF AnswerInv, Counts
    <3> QED  BY <3>w, <3>b, <3>n, TypeParts
  <2>2. Control'
    <3>1. OutcomeFits'
      BY <2>0, TypeParts DEF AnswerInv, Control, OutcomeFits, Taken, A!Edits
    <3>2. CardFits'
      BY <2>0, TypeParts DEF AnswerInv, Control, OutcomeFits, CardFits, RevealFits, Taken,
         A!Edits
    <3>3. RevealFits'
      BY <2>0, TypeParts DEF AnswerInv, Control, RevealFits, OutcomeFits, A!Edits
    <3>4. CardOwned'
      BY <2>0, TypeParts DEF AnswerInv, Control, OutcomeFits, CardFits, RevealFits,
         CardOwned, Taken, Unsettled, A!Edits
    <3> QED  BY <3>1, <3>2, <3>3, <3>4 DEF Control
  <2>3. Sent'
    BY <2>0, NothingSent DEF AnswerInv, Taken, A!Edits
  <2> QED  BY <2>1, <2>2, <2>3 DEF AnswerInv
<1> QED  BY <1>1, <1>2

-----------------------------------------------------------------------------
\* What the invariant says of a turn's answer and its card.
LEMMA AnswerRead ==
  ASSUME A!AnswerAssumption, AnswerInv  PROVE A!ReadOnce /\ A!RepeatedUnseen /\ A!CardSettled
<1>t. /\ parts \in 1..MaxParts /\ MaxParts \in Nat
      /\ \A p \in 1..MaxParts : copies[p] \in Nat /\ lost[p] \in Nat
  BY AnswerBounds DEF AnswerInv, A!TypeOK
<1>i. \A p \in 1..parts : p \in 1..MaxParts  BY <1>t
<1>o. A!OnCard \in {0, 1} /\ (A!OnCard = 1 => card \in {"both", "answer"})  BY DEF A!OnCard
<1>1. ASSUME NEW p \in 1..parts
  PROVE copies[p] + (IF p = 1 THEN A!OnCard ELSE 0) <= 1 + lost[p]
  <2>1. copies[p] <= 1 + lost[p] /\ copies[p] \in Nat /\ lost[p] \in Nat
    BY <1>t, <1>i DEF AnswerInv, Sent
  <2>2. CASE A!OnCard = 1
    <3>1. Taken \/ answerAt \in A!Edits  BY <1>o, <2>2 DEF AnswerInv, Control, CardFits
    <3>2. copies[p] = 0  BY <1>i, <3>1 DEF AnswerInv, Sent
    <3> QED  BY <2>1, <2>2, <3>2
  <2>3. CASE A!OnCard = 0
    BY <2>1, <2>3
  <2> QED  BY <1>o, <2>2, <2>3
<1>2. ASSUME answerAt = "over", ~confirmed, ~ambiguous
      PROVE  A!OnCard = 0 /\ \A p \in 1..parts : copies[p] <= lost[p]
  <2>1. ~Taken  BY <1>2 DEF AnswerInv, Control, OutcomeFits, Taken
  <2>2. A!OnCard # 1  BY <1>2, <1>o, <2>1 DEF AnswerInv, Control, CardFits, A!Edits
  <2>3. \A p \in 1..parts : copies[p] <= lost[p]  BY <1>2, <1>i DEF AnswerInv, Sent
  <2> QED  BY <1>o, <2>2, <2>3
<1>3. A!CardSettled
  BY DEF AnswerInv, A!TypeOK, Control, CardOwned, Unsettled, A!CardSettled
<1> QED  BY <1>1, <1>2, <1>3 DEF A!ReadOnce, A!RepeatedUnseen

\* The inductive invariant of a turn's answer: it is read once, a turn that is repeated has
\* shown nothing, and its card is settled, for any number of parts and of failed calls
\* (utils/telegram.py, services/reply_progress.py).
THEOREM AnswerInvariant ==
  ASSUME A!AnswerAssumption
  PROVE  A!Init /\ [][A!Next]_answerVars => [](AnswerInv /\ A!ReadOnce /\ A!RepeatedUnseen
      /\ A!CardSettled)
<1>1. A!Init => AnswerInv
  <2> SUFFICES ASSUME A!Init PROVE AnswerInv  OBVIOUS
  <2>1. /\ copies \in [1..MaxParts -> Nat] /\ lost \in [1..MaxParts -> Nat]
        /\ \A p \in 1..MaxParts : copies[p] = 0 /\ lost[p] = 0
    BY DEF A!Init
  <2>2. A!TypeOK  BY <2>1, AnswerBounds DEF A!Init, A!TypeOK
  <2>3. Control
    BY DEF A!Init, Control, OutcomeFits, CardFits, RevealFits, CardOwned, Taken, Unsettled,
       A!Edits
  <2>4. Sent  BY <2>1 DEF Sent
  <2> QED  BY <2>2, <2>3, <2>4 DEF AnswerInv
<1>2. AnswerInv /\ [A!Next]_answerVars => AnswerInv'
  <2> SUFFICES ASSUME AnswerInv, [A!Next]_answerVars PROVE AnswerInv'  OBVIOUS
  <2>1. CASE UNCHANGED answerVars
    BY <2>1 DEF answerVars, A!mine, A!answer, A!said, A!task, AnswerInv, A!TypeOK, Control,
       OutcomeFits,
       CardFits,
       RevealFits, CardOwned, Taken, Unsettled, Sent
  <2>2. CASE A!Deadline \/ A!Cancel
    <3>1. all' \in BOOLEAN  BY <2>2 DEF A!Deadline, A!Cancel, AnswerInv, A!TypeOK
    <3> QED  BY <2>2, <3>1, CutEditKeeps, CutSendKeeps DEF A!Deadline, A!Cancel
  <2>3. CASE A!Next /\ ~(A!Deadline \/ A!Cancel)
    BY <2>3, RevealKeeps, HandoffKeeps, TakenKeeps, EditKeeps, ConvergeKeeps, MessageKeeps,
       TurnEnds,
       CardCut, DismissKeeps DEF A!Next
  <2> QED  BY <2>1, <2>2, <2>3
<1>3. AnswerInv => A!ReadOnce /\ A!RepeatedUnseen /\ A!CardSettled  BY AnswerRead
<1> QED  BY <1>1, <1>2, <1>3, PTL

-----------------------------------------------------------------------------
(* The composition *)

\* A behaviour of the whole is, for each of the eight modules, a behaviour of the module.
LEMMA Projection ==
  Spec => /\ D!Init /\ [][D!Next]_deliveryVars
          /\ P!Init /\ [][P!Next]_laneVars
          /\ X!Init /\ [][X!Next]_lifeVars
          /\ M!Init /\ [][M!Next]_modelVars
          /\ L!Init /\ [][L!Next]_lockVars
          /\ H!Init /\ [][H!Next]_httpVars
          /\ R!Init /\ [][R!Next]_replyVars
          /\ A!Init /\ [][A!Next]_answerVars
<1>1. Init => D!Init /\ P!Init /\ X!Init /\ M!Init /\ L!Init /\ H!Init /\ R!Init /\ A!Init
  BY DEF Init
<1>2. [Next]_everything => /\ [D!Next]_deliveryVars /\ [P!Next]_laneVars /\ [X!Next]_lifeVars
                           /\ [M!Next]_modelVars /\ [L!Next]_lockVars /\ [H!Next]_httpVars
                           /\ [R!Next]_replyVars /\ [A!Next]_answerVars
  BY DEF Next, everything
<1> QED  BY <1>1, <1>2, PTL DEF Spec

\* Updates: Telegram forgets none that is not in the inbox, a receipt is settled only when
\* the operations it waits for are over, two of one key never run at the same time, and a
\* shutdown in order leaves none leased (services/update_delivery.py, privileged_tasks.py,
\* __main__.py).
THEOREM UpdatesHold == Spec => []UpdatesAccounted
<1>1. D!DeliveryAssumption /\ Finitely /\ X!LifeAssumption
  BY ServicesAssumption, SameFiniteness DEF P!LaneAssumption, Finitely
<1>2. DeliveryInv => D!NothingForgotten
  BY DEF DeliveryInv, Kept
<1>3. ASSUME LaneInv PROVE P!ReceiptsHonest /\ P!OneOperationPerKey
  BY <1>1, <1>3, LaneHonest, LaneExclusive
<1>4. D!NothingForgotten /\ P!ReceiptsHonest /\ P!OneOperationPerKey /\ X!LeasesGivenBack
        => UpdatesAccounted
  BY DEF UpdatesAccounted
<1> QED
  BY <1>1, <1>2, <1>3, <1>4, Projection, DeliveryInvariant, LaneInvariant, LifeInvariant, PTL

\* Resources: the calls in progress never exceed the permits and a circuit opens on failures
\* alone, the write lock is neither leaked nor doubled and covers SQLite's writer, a reset of
\* the connector cuts no exchange, and an exit in order closes what was opened
\* (services/llm.py, db/sqlite_session.py, services/telegram_session.py, __main__.py).
THEOREM ResourcesAreHeld == Spec => []ResourcesHeld
<1>1. M!ModelAssumption /\ L!WriteAssumption /\ H!HttpAssumption /\ X!LifeAssumption
  BY ServicesAssumption
<1>2. WriteInv => L!LockAccounted /\ L!WriterCovered
  BY LockCounted DEF WriteInv, LockWritten
<1>3. SessionInv => H!NobodyCut
  BY DEF SessionInv
<1>4. LifeInv => X!ClosedBehind
  BY DEF LifeInv
<1>5. ASSUME /\ M!RealCallsBounded /\ M!CircuitEarned /\ L!LockAccounted /\ L!WriterCovered
             /\ H!NobodyCut /\ X!ClosedBehind
      PROVE  ResourcesHeld
  BY <1>5 DEF ResourcesHeld
<1> QED
  BY <1>1, <1>2, <1>3, <1>4, <1>5, Projection, ModelInvariant, WriteInvariant,
     SessionInvariant, LifeInvariant, PTL

\* Answers: a batch is answered or told of a failure, a message is settled by the last of its
\* owners, repeated only for a named cause, never completed in silence when it was to the bot,
\* and read once; a turn that is repeated has shown nothing, and no card is left behind
\* (handlers/group.py, services/update_completion.py, utils/telegram.py, reply_progress.py).
THEOREM AnswersAreSettled == Spec => []AnswersSettled
<1>1. R!ReplyAssumption /\ A!AnswerAssumption
  BY ServicesAssumption
<1>2. ASSUME /\ R!OneVoice /\ R!SettledByOwners /\ R!RepeatsExplained /\ R!DirectHeard
             /\ A!ReadOnce /\ A!RepeatedUnseen /\ A!CardSettled
      PROVE  AnswersSettled
  BY <1>2 DEF AnswersSettled
<1> QED  BY <1>1, <1>2, Projection, RepliesInvariant, AnswerInvariant, PTL
=============================================================================
