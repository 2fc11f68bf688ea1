--------------------------- MODULE ServicesProofs ---------------------------
(***************************************************************************)
(* Theorems about the services that keep work and context, for any number   *)
(* of messages, processes, calls, failures and restarts.                    *)
(***************************************************************************)
EXTENDS Services, Integers, FiniteSetTheorems, TLAPS

-----------------------------------------------------------------------------
(* A call for the administrators: CallAdmin *)

\* A call whose message was sent no longer gives its claim back.
FreshKept == \A c \in Calls : fresh[c] => cooldown = c
    /\ callAt[c] \notin {"idle", "lookup", "send"}

\* Before its pin a call has left nothing behind in the chat.
Unpinned ==
  \A c \in Calls : callAt[c] \in {"idle", "lookup", "send", "pin"} =>
    ~pinned[c] /\ ~late[c] /\ ~button[c]

\* A call that still settles its pin has a round left.
RoundsLeft == \A c \in Calls : callAt[c] # "over" => tries[c] < PinTries

\* The inductive invariant.
CallInv == K!TypeOK /\ FreshKept /\ Unpinned /\ K!PinsOwned /\ RoundsLeft

-----------------------------------------------------------------------------
\* No call has been made at the start.
LEMMA CallInit == ASSUME K!CallAssumption, K!Init PROVE CallInv
<1>1. K!TypeOK  BY DEF K!CallAssumption, K!Init, K!TypeOK, K!No, K!Steps
<1>2. FreshKept /\ Unpinned /\ K!PinsOwned
  BY DEF K!Init, FreshKept, Unpinned, K!PinsOwned, K!No
<1>3. RoundsLeft  BY DEF K!CallAssumption, K!Init, RoundsLeft
<1>4. QED  BY <1>1, <1>2, <1>3 DEF CallInv

\* The steps before the pin: the claim, the lookup and the message.
LEMMA CallClaimKeeps ==
  ASSUME K!CallAssumption, CallInv, NEW c \in Calls,
         K!Claim(c) \/ K!Suppressed(c) \/ K!Lookup(c) \/ K!Send(c) \/ K!Cancelled(c)
  PROVE  CallInv'
<1>t. K!TypeOK  BY DEF CallInv
<1>p. UNCHANGED <<tries, sure, pinned, button, late, callExcused>>
  BY DEF K!Claim, K!Suppressed, K!Lookup, K!Send, K!Cancelled, K!Abandon, K!Release, K!pin
<1>a. /\ callAt[c] \in {"idle", "lookup", "send"}
      /\ \E s \in {"lookup", "send", "pin", "over"} : callAt' = [callAt EXCEPT ![c] = s]
  BY DEF K!Claim, K!Suppressed, K!Lookup, K!Send, K!Cancelled, K!Abandon, K!HandedOn, K!Go
<1>b. PICK s \in {"lookup", "send", "pin", "over"} : callAt' = [callAt EXCEPT ![c] = s]
  BY <1>a
<1>f. \/ UNCHANGED fresh /\ (cooldown' = cooldown \/ (cooldown = c /\ cooldown' = Nobody))
      \/ UNCHANGED fresh /\ cooldown = Nobody /\ cooldown' = c
      \/ /\ s \in {"pin", "over"} /\ cooldown' = cooldown
         /\ fresh' = [fresh EXCEPT ![c] = cooldown = c]
  <2>1. CASE K!Claim(c)  BY <2>1 DEF K!Claim, K!Stamp
  <2>2. CASE K!Suppressed(c) \/ K!Cancelled(c)  BY <2>2 DEF K!Suppressed, K!Cancelled
  <2>3. CASE K!Lookup(c)  BY <2>3 DEF K!Lookup, K!Abandon, K!Release
  <2>4. CASE K!Send(c)
    <3>1. CASE K!Abandon(c)  BY <3>1 DEF K!Abandon, K!Release
    <3>2. CASE K!HandedOn(c) /\ fresh' = [fresh EXCEPT ![c] = cooldown = c]
                   /\ UNCHANGED cooldown
      <4>1. callAt' = [callAt EXCEPT ![c] = "pin"] \/ callAt' = [callAt EXCEPT ![c] = "over"]
        BY <3>2 DEF K!HandedOn, K!Go
      <4>2. callAt'[c] \in {"pin", "over"} /\ callAt'[c] = s  BY <4>1, <1>b, <1>t DEF K!TypeOK
      <4>3. QED  BY <3>2, <4>2
    <3>3. QED  BY <2>4, <3>1, <3>2 DEF K!Send
  <2>5. QED  BY <2>1, <2>2, <2>3, <2>4
<1>e. callAt'[c] = s /\ \A d \in Calls \ {c} : callAt'[d] = callAt[d]
  BY <1>b, <1>t DEF K!TypeOK
<1>n. Nobody \notin Calls  BY DEF K!CallAssumption
<1>1. K!TypeOK'
  <2>1. callAt' \in [Calls -> K!Steps]  BY <1>b, <1>t DEF K!TypeOK, K!Steps
  <2>2. cooldown' \in Calls \cup {Nobody} /\ fresh' \in [Calls -> BOOLEAN]
    BY <1>f, <1>t DEF K!TypeOK
  <2>3. callFaults' \in 0..MaxCallFaults
    BY <1>t DEF K!CallAssumption, K!TypeOK, K!Claim, K!Suppressed, K!Lookup, K!Send,
       K!Cancelled, K!Fine, K!Fails
  <2>4. QED  BY <2>1, <2>2, <2>3, <1>p, <1>t DEF K!TypeOK
<1>2. FreshKept'
  <2>1. ASSUME NEW d \in Calls, fresh'[d]
        PROVE  cooldown' = d /\ callAt'[d] \notin {"idle", "lookup", "send"}
    <3>1. ~fresh[c]  BY <1>a DEF CallInv, FreshKept
    <3>2. CASE d = c
      <4>1. fresh' # fresh  BY <2>1, <3>1, <3>2
      <4>2. s \in {"pin", "over"} /\ cooldown' = cooldown
                /\ fresh' = [fresh EXCEPT ![c] = cooldown = c]
        BY <4>1, <1>f
      <4>3. cooldown = c  BY <2>1, <3>2, <4>2, <1>t DEF K!TypeOK
      <4>4. QED  BY <3>2, <4>2, <4>3, <1>e
    <3>3. CASE d # c
      <4>1. fresh[d]  BY <2>1, <3>3, <1>f, <1>t DEF K!TypeOK
      <4>2. cooldown = d /\ callAt[d] \notin {"idle", "lookup", "send"}
        BY <4>1 DEF CallInv, FreshKept
      <4>3. cooldown' = d  BY <4>2, <3>3, <1>f, <1>n
      <4>4. QED  BY <4>2, <4>3, <3>3, <1>e
    <3>4. QED  BY <3>2, <3>3
  <2>2. QED  BY <2>1 DEF FreshKept
<1>3. Unpinned'  BY <1>a, <1>e, <1>p DEF CallInv, Unpinned
<1>4. K!PinsOwned'  BY <1>a, <1>e, <1>p DEF CallInv, Unpinned, K!PinsOwned
<1>5. RoundsLeft'  BY <1>a, <1>e, <1>p DEF CallInv, RoundsLeft
<1>6. QED  BY <1>1, <1>2, <1>3, <1>4, <1>5 DEF CallInv

\* The pin and what settles it.
LEMMA CallPinKeeps ==
  ASSUME K!CallAssumption, CallInv, NEW c \in Calls, K!Pin(c) \/ K!Attach(c) \/ K!Unpin(c)
  PROVE  CallInv'
<1>t. K!TypeOK  BY DEF CallInv
<1>n. PinTries \in Nat \ {0} /\ MaxCallFaults \in Nat  BY DEF K!CallAssumption
<1>r. tries[c] \in 0..PinTries /\ (callAt[c] # "over" => tries[c] < PinTries)
  BY <1>t DEF K!TypeOK, CallInv, RoundsLeft
<1>o. ASSUME NEW r \in {"attach", "unpin"}, callAt[c] = r, K!Other(c, r)
      PROVE  /\ callAt' \in [Calls -> K!Steps] /\ tries' \in [Calls -> 0..PinTries]
             /\ callAt'[c] \in {"attach", "unpin", "over"} /\ callExcused' \subseteq Calls
             /\ callAt'[c] = "over" => c \in callExcused'
             /\ callAt'[c] # "over" => tries'[c] < PinTries
             /\ callExcused \subseteq callExcused'
             /\ \A d \in Calls \ {c} : callAt'[d] = callAt[d] /\ tries'[d] = tries[d]
  <2>0. K!First(c) \in {"attach", "unpin"}  BY DEF K!First
  <2>1. CASE r = K!First(c)
    BY <1>o, <1>r, <2>1, <1>t DEF K!Other, K!Go, K!TypeOK, K!Steps
  <2>2. CASE r # K!First(c)
    <3>1. tries' = [tries EXCEPT ![c] = @ + 1] /\ tries[c] + 1 \in 0..PinTries
      BY <1>o, <1>n, <1>r, <2>2 DEF K!Other
    <3>2. tries' \in [Calls -> 0..PinTries] /\ tries'[c] = tries[c] + 1
          /\ \A d \in Calls \ {c} : tries'[d] = tries[d]
      BY <3>1, <1>t DEF K!TypeOK
    <3>3. CASE tries[c] + 1 < PinTries
      BY <1>o, <2>0, <2>2, <3>2, <3>3, <1>t DEF K!Other, K!Go, K!TypeOK, K!Steps
    <3>4. CASE ~(tries[c] + 1 < PinTries)
      BY <1>o, <2>2, <3>2, <3>4, <1>t DEF K!Other, K!Go, K!TypeOK, K!Steps
    <3>5. QED  BY <3>3, <3>4
  <2>3. QED  BY <2>1, <2>2
<1>f. /\ K!Fine => callFaults' \in 0..MaxCallFaults
      /\ K!Fails => callFaults' \in 0..MaxCallFaults
  BY <1>n, <1>t DEF K!Fine, K!Fails, K!TypeOK
<1>1. CASE K!Pin(c)
  <2>1. /\ callAt' \in [Calls -> K!Steps] /\ callAt'[c] \in {"attach", "unpin"}
        /\ \A d \in Calls \ {c} : callAt'[d] = callAt[d]
        /\ sure' \in [Calls -> BOOLEAN]
    BY <1>1, <1>t DEF K!Pin, K!Established, K!Go, K!TypeOK, K!Steps
  <2>2. /\ pinned' \in [Calls -> BOOLEAN] /\ late' \in [Calls -> BOOLEAN]
        /\ \A d \in Calls \ {c} : pinned'[d] = pinned[d] /\ late'[d] = late[d]
    BY <1>1, <1>t DEF K!Pin, K!TypeOK
  <2>3. UNCHANGED <<cooldown, tries, button, fresh, callExcused>> /\ callAt[c] = "pin"
    BY <1>1 DEF K!Pin
  <2>4. K!TypeOK'  BY <1>1, <1>f, <1>t, <2>1, <2>2, <2>3 DEF K!Pin, K!TypeOK
  <2>5. FreshKept'  BY <2>1, <2>3 DEF CallInv, FreshKept
  <2>6. Unpinned'  BY <2>1, <2>2, <2>3 DEF CallInv, Unpinned
  <2>7. K!PinsOwned'  BY <2>1, <2>2, <2>3 DEF CallInv, K!PinsOwned
  <2>8. RoundsLeft'  BY <2>1, <2>3 DEF CallInv, RoundsLeft
  <2>9. QED  BY <2>4, <2>5, <2>6, <2>7, <2>8 DEF CallInv
<1>2. CASE K!Attach(c)
  <2>1. /\ callAt[c] = "attach" /\ UNCHANGED <<cooldown, sure, pinned, late, fresh>>
        /\ \E b \in BOOLEAN : button' = [button EXCEPT ![c] = b]
        /\ callFaults' \in 0..MaxCallFaults
    BY <1>2, <1>f, <1>t DEF K!Attach, K!Keyboard, K!TypeOK
  <2>2. /\ button' \in [Calls -> BOOLEAN] /\ \A d \in Calls \ {c} : button'[d] = button[d]
    BY <2>1, <1>t DEF K!TypeOK
  <2>3. /\ callAt' \in [Calls -> K!Steps] /\ tries' \in [Calls -> 0..PinTries]
        /\ callAt'[c] \in {"attach", "unpin", "over"} /\ callExcused' \subseteq Calls
        /\ callAt'[c] = "over" => c \in callExcused' \/ button'[c]
        /\ callAt'[c] # "over" => tries'[c] < PinTries
        /\ callExcused \subseteq callExcused'
        /\ \A d \in Calls \ {c} : callAt'[d] = callAt[d] /\ tries'[d] = tries[d]
    <3>1. CASE K!Keyboard(c, TRUE) /\ K!Go(c, "over") /\ UNCHANGED <<tries, callExcused>>
      BY <3>1, <1>t DEF K!Keyboard, K!Go, K!TypeOK, K!Steps
    <3>2. CASE K!Other(c, "attach")  BY <2>1, <3>2, <1>o
    <3>3. QED  BY <1>2, <3>1, <3>2 DEF K!Attach
  <2>4. K!TypeOK'  BY <2>1, <2>2, <2>3, <1>t DEF K!TypeOK
  <2>5. FreshKept'  BY <2>1, <2>3 DEF CallInv, FreshKept
  <2>6. Unpinned'  BY <2>1, <2>2, <2>3 DEF CallInv, Unpinned
  <2>7. K!PinsOwned'  BY <2>1, <2>2, <2>3 DEF CallInv, K!PinsOwned
  <2>8. RoundsLeft'  BY <2>1, <2>3 DEF CallInv, RoundsLeft
  <2>9. QED  BY <2>4, <2>5, <2>6, <2>7, <2>8 DEF CallInv
<1>3. CASE K!Unpin(c)
  <2>1. /\ callAt[c] = "unpin" /\ UNCHANGED <<cooldown, sure, button, late, fresh>>
        /\ \E b \in BOOLEAN : pinned' = [pinned EXCEPT ![c] = b]
        /\ callFaults' \in 0..MaxCallFaults
    BY <1>3, <1>f, <1>t DEF K!Unpin, K!TypeOK
  <2>2. /\ pinned' \in [Calls -> BOOLEAN] /\ \A d \in Calls \ {c} : pinned'[d] = pinned[d]
    BY <2>1, <1>t DEF K!TypeOK
  <2>3. /\ callAt' \in [Calls -> K!Steps] /\ tries' \in [Calls -> 0..PinTries]
        /\ callAt'[c] \in {"attach", "unpin", "over"} /\ callExcused' \subseteq Calls
        /\ callAt'[c] = "over" => c \in callExcused' \/ ~pinned'[c]
        /\ callAt'[c] # "over" => tries'[c] < PinTries
        /\ callExcused \subseteq callExcused'
        /\ \A d \in Calls \ {c} : callAt'[d] = callAt[d] /\ tries'[d] = tries[d]
    <3>1. CASE pinned' = [pinned EXCEPT ![c] = FALSE] /\ K!Go(c, "over")
                   /\ UNCHANGED <<tries, callExcused>>
      BY <3>1, <1>t DEF K!Go, K!TypeOK, K!Steps
    <3>2. CASE K!Other(c, "unpin")  BY <2>1, <3>2, <1>o
    <3>3. QED  BY <1>3, <3>1, <3>2 DEF K!Unpin
  <2>4. K!TypeOK'  BY <2>1, <2>2, <2>3, <1>t DEF K!TypeOK
  <2>5. FreshKept'  BY <2>1, <2>3 DEF CallInv, FreshKept
  <2>6. Unpinned'  BY <2>1, <2>2, <2>3 DEF CallInv, Unpinned
  <2>7. K!PinsOwned'  BY <2>1, <2>2, <2>3 DEF CallInv, K!PinsOwned
  <2>8. RoundsLeft'  BY <2>1, <2>3 DEF CallInv, RoundsLeft
  <2>9. QED  BY <2>4, <2>5, <2>6, <2>7, <2>8 DEF CallInv
<1>4. QED  BY <1>1, <1>2, <1>3

\* A late pin, the button, the end of the cooldown and a restart.
LEMMA CallOthersKeep ==
  ASSUME K!CallAssumption, CallInv,
         \/ \E c \in Calls : K!LatePin(c) \/ K!Resolve(c)
         \/ K!CooldownEnds \/ K!Restart
  PROVE  CallInv'
<1>t. K!TypeOK  BY DEF CallInv
<1>f. /\ K!Fine => callFaults' \in 0..MaxCallFaults
      /\ K!Fails => callFaults' \in 0..MaxCallFaults
  BY <1>t DEF K!CallAssumption, K!Fine, K!Fails, K!TypeOK
<1>1. ASSUME NEW c \in Calls, K!LatePin(c)  PROVE CallInv'
  <2>1. /\ late[c] /\ late' = [late EXCEPT ![c] = FALSE]
        /\ pinned' = [pinned EXCEPT ![c] = TRUE] /\ callExcused' = callExcused \cup {c}
        /\ UNCHANGED <<cooldown, callAt, tries, sure, button, fresh, callFaults>>
    BY <1>1 DEF K!LatePin
  <2>2. K!TypeOK'  BY <2>1, <1>t DEF K!TypeOK
  <2>3. FreshKept' /\ RoundsLeft'  BY <2>1 DEF CallInv, FreshKept, RoundsLeft
  <2>4. Unpinned'  BY <2>1, <1>t DEF CallInv, Unpinned, K!TypeOK
  <2>5. K!PinsOwned'  BY <2>1, <1>t DEF CallInv, K!PinsOwned, K!TypeOK
  <2>6. QED  BY <2>2, <2>3, <2>4, <2>5 DEF CallInv
<1>2. ASSUME NEW c \in Calls, K!Resolve(c)  PROVE CallInv'
  <2>1. /\ button[c] /\ UNCHANGED <<cooldown, callAt, tries, sure, late, fresh, callExcused>>
        /\ \/ pinned' = [pinned EXCEPT ![c] = FALSE] /\ button' = [button EXCEPT ![c] = FALSE]
           \/ button' = button /\ \E b \in {FALSE, pinned[c]} :
               pinned' = [pinned EXCEPT ![c] = b]
        /\ callFaults' \in 0..MaxCallFaults
    BY <1>2, <1>f DEF K!Resolve, K!Keyboard
  <2>2. /\ \A d \in Calls : pinned'[d] => pinned[d]
        /\ \A d \in Calls : button'[d] => button[d]
        /\ \A d \in Calls : pinned'[d] /\ button[d] => button'[d]
        /\ pinned' \in [Calls -> BOOLEAN] /\ button' \in [Calls -> BOOLEAN]
    BY <2>1, <1>t DEF K!TypeOK
  <2>3. K!TypeOK'  BY <2>1, <2>2, <1>t DEF K!TypeOK
  <2>4. FreshKept' /\ RoundsLeft'  BY <2>1 DEF CallInv, FreshKept, RoundsLeft
  <2>5. Unpinned' /\ K!PinsOwned'  BY <2>1, <2>2 DEF CallInv, Unpinned, K!PinsOwned
  <2>6. QED  BY <2>3, <2>4, <2>5 DEF CallInv
<1>3. CASE K!CooldownEnds
  <2>1. /\ cooldown \in Calls /\ cooldown' = Nobody
            /\ fresh' = [fresh EXCEPT ![cooldown] = FALSE]
        /\ UNCHANGED <<callAt, K!pin, callExcused, callFaults>>
    BY <1>3, <1>t DEF K!CooldownEnds, K!TypeOK
  <2>2. K!TypeOK'  BY <2>1, <1>t DEF K!TypeOK, K!pin
  <2>3. FreshKept'
    <3>1. \A d \in Calls : ~fresh'[d]  BY <2>1, <1>t DEF CallInv, FreshKept, K!TypeOK
    <3>2. QED  BY <3>1 DEF FreshKept
  <2>4. Unpinned' /\ K!PinsOwned' /\ RoundsLeft'
    BY <2>1 DEF CallInv, Unpinned, K!PinsOwned, RoundsLeft, K!pin
  <2>5. QED  BY <2>2, <2>3, <2>4 DEF CallInv
<1>4. CASE K!Restart
  <2>1. /\ cooldown' = Nobody /\ fresh' = K!No /\ late' = K!No
        /\ callExcused' = callExcused \cup {c \in Calls :
            callAt[c] \in {"attach", "unpin", "pin"}}
        /\ callAt' = [c \in Calls |-> IF callAt[c] = "idle" THEN "idle" ELSE "over"]
        /\ UNCHANGED <<tries, sure, pinned, button>> /\ callFaults' \in 0..MaxCallFaults
    BY <1>4, <1>f DEF K!Restart
  <2>2. \A c \in Calls : callAt[c] \in K!Steps  BY <1>t DEF K!TypeOK
  <2>3. K!TypeOK'  BY <2>1, <1>t DEF K!TypeOK, K!Steps, K!No
  <2>4. FreshKept'  BY <2>1 DEF FreshKept, K!No
  <2>5. Unpinned' /\ RoundsLeft'  BY <2>1 DEF CallInv, Unpinned, RoundsLeft, K!No
  <2>6. K!PinsOwned'  BY <2>1, <2>2 DEF CallInv, Unpinned, K!PinsOwned, K!Steps
  <2>7. QED  BY <2>3, <2>4, <2>5, <2>6 DEF CallInv
<1>5. QED  BY <1>1, <1>2, <1>3, <1>4

-----------------------------------------------------------------------------
(* The theorems *)

\* The inductive invariant of the calls.
THEOREM CallInvariant ==
  ASSUME K!CallAssumption
  PROVE  K!Init /\ [][K!Next]_callVars => []CallInv
<1>1. K!Init => CallInv  BY CallInit
<1>2. CallInv /\ [K!Next]_callVars => CallInv'
  <2>1. CASE UNCHANGED callVars
    BY <2>1 DEF callVars, CallInv, K!TypeOK, FreshKept, Unpinned, K!PinsOwned, RoundsLeft
  <2>2. QED  BY <2>1, CallClaimKeeps, CallPinKeeps, CallOthersKeep DEF K!Next
<1>3. QED  BY <1>1, <1>2, PTL

\* A call that was sent keeps the group quiet until its cooldown is over: no other call
\* takes its claim back (_release_call compares the stamp).
THEOREM QuietAfterCall ==
  ASSUME K!CallAssumption
  PROVE  K!Spec => []K!CooldownHeld
<1>1. CallInv => K!CooldownHeld  BY DEF CallInv, FreshKept, K!CooldownHeld
<1>2. QED  BY <1>1, CallInvariant, PTL DEF K!Spec, K!vars, callVars

\* A pinned call has the button that ends it, but for a pin that lands late, a restart and
\* rounds that all failed (_settle_call_admin_pin_ownership).
THEOREM EveryPinOwned ==
  ASSUME K!CallAssumption
  PROVE  K!Spec => []K!PinsOwned
<1>1. CallInv => K!PinsOwned  BY DEF CallInv
<1>2. QED  BY <1>1, CallInvariant, PTL DEF K!Spec, K!vars, callVars

-----------------------------------------------------------------------------
(* The durable deletion queue: CleanupQueue *)

\* What the row of a request may hold, the steps of a call and the fates of a request.
JobRow == [due : {"none", "now", "later"}, attempts : 0..MaxDeleteAttempts,
           holder : Cleaners \cup {NoCleaner}, lapsed : BOOLEAN]
CallSteps == {"none", "call", "drop", "retry", "orphan", "orphanDrop", "orphanRetry"}
Fates == {"unsent", "asked", "deleted", "refused", "abandoned", "lost"}

\* The type invariant, with its records named.
Typed ==
  /\ job \in [Msgs -> JobRow]
  /\ intake \in [Cleaners -> [Msgs -> {"no", "now", "later"}]]
  /\ call \in [Cleaners -> [Msgs -> CallSteps]]
  /\ fate \in [Msgs -> Fates]

\* A message nobody asked to delete has left no trace.
Untouched ==
  \A m \in Msgs : fate[m] = "unsent" =>
    /\ ~C!Queued(m) /\ \A w \in Cleaners : intake[w][m] = "no" /\ call[w][m] = "none"

\* A row is dropped only after its request was settled.
DropsSettled ==
  \A w \in Cleaners, m \in Msgs : call[w][m] \in {"drop", "orphanDrop"} => fate[m] # "asked"

\* A process that is off runs no call.
OffIdle == \A w \in Cleaners, m \in Msgs : proc[w] = "off" => call[w][m] = "none"

\* The inductive invariant.
QueueInv == C!TypeOK /\ Untouched /\ DropsSettled /\ C!RequestsKept /\ OffIdle /\ C!CallCovered

-----------------------------------------------------------------------------
\* The type invariant, in the parts the lemmas below speak of.
LEMMA TypeParts == ASSUME C!TypeOK PROVE Typed
  BY DEF C!TypeOK, Typed, JobRow, CallSteps, Fates

\* One call's step.
\* A call that moves on keeps its type.
LEMMA StepPart ==
  ASSUME Typed, NEW w \in Cleaners, NEW m \in Msgs, NEW s \in CallSteps, C!Step(w, m, s)
  PROVE  /\ call' \in [Cleaners -> [Msgs -> CallSteps]] /\ call'[w][m] = s
         /\ \A v \in Cleaners, n \in Msgs : v # w \/ n # m => call'[v][n] = call[v][n]
  BY DEF Typed, C!Step

\* What a settled request changes keeps its type.
LEMMA SettlePart ==
  ASSUME Typed, NEW m \in Msgs, NEW f \in Fates \ {"asked", "unsent"}, C!Settle(m, f)
  PROVE  /\ fate' \in [Msgs -> Fates] /\ fate'[m] # "asked"
         /\ \A n \in Msgs : fate'[n] = fate[n] \/ (fate[n] = "asked" /\ fate'[n] # "unsent")
         /\ \A n \in Msgs \ {m} : fate'[n] = fate[n]
<1>1. CASE fate[m] = "asked"
  <2>1. fate' = [fate EXCEPT ![m] = f]  BY <1>1 DEF C!Settle
  <2>2. QED  BY <1>1, <2>1 DEF Typed, Fates
<1>2. CASE fate[m] # "asked"
  <2>1. fate' = fate  BY <1>2 DEF C!Settle
  <2>2. QED  BY <1>2, <2>1 DEF Typed
<1>3. QED  BY <1>1, <1>2

\* What a write to one row changes keeps its type.
LEMMA RowPart ==
  ASSUME C!CleanupAssumption, Typed, NEW m \in Msgs, NEW due \in {"now", "later"}
  PROVE  /\ C!NoJob \in JobRow /\ C!NoJob.due = "none"
         /\ C!Merged(m, due) \in JobRow /\ C!Merged(m, due).due # "none"
         /\ C!Queued(m) => /\ C!Merged(m, due).holder = job[m].holder
                           /\ C!Merged(m, due).lapsed = job[m].lapsed
<1>0. MaxDeleteAttempts \in Nat  BY DEF C!CleanupAssumption
<1>1. C!NoJob \in JobRow /\ C!NoJob.due = "none"  BY <1>0 DEF C!NoJob, JobRow
<1>2. job[m] \in JobRow  BY DEF Typed
<1>3. CASE C!Queued(m)
  <2>1. C!Merged(m, due) = [job[m] EXCEPT !.due = C!Sooner(job[m].due, due)]
    BY <1>3 DEF C!Merged
  <2>2. C!Sooner(job[m].due, due) \in {"now", "later"}  BY DEF C!Sooner
  <2>3. QED  BY <1>1, <1>2, <2>1, <2>2 DEF JobRow
<1>4. CASE ~C!Queued(m)
  <2>1. C!Merged(m, due) = [C!NoJob EXCEPT !.due = due]  BY <1>4 DEF C!Merged
  <2>2. QED  BY <1>1, <1>4, <2>1 DEF JobRow
<1>5. QED  BY <1>3, <1>4

\* What a batch leaves in the table.
LEMMA FlushPart ==
  ASSUME C!CleanupAssumption, Typed, NEW w \in Cleaners
  PROVE  /\ C!Flushed(w) \in [Msgs -> JobRow]
         /\ \A m \in Msgs : C!Queued(m) \/ intake[w][m] # "no" => C!Flushed(w)[m].due # "none"
         /\ \A m \in Msgs : C!Queued(m) => /\ C!Flushed(w)[m].holder = job[m].holder
                                       /\ C!Flushed(w)[m].lapsed = job[m].lapsed
         /\ \A m \in Msgs : ~C!Queued(m) /\ intake[w][m] = "no" => C!Flushed(w)[m].due = "none"
<1>1. ASSUME NEW m \in Msgs
      PROVE  /\ C!Flushed(w)[m] \in JobRow
             /\ C!Queued(m) \/ intake[w][m] # "no" => C!Flushed(w)[m].due # "none"
             /\ C!Queued(m) => /\ C!Flushed(w)[m].holder = job[m].holder
                               /\ C!Flushed(w)[m].lapsed = job[m].lapsed
             /\ ~C!Queued(m) /\ intake[w][m] = "no" => C!Flushed(w)[m].due = "none"
  <2>1. CASE intake[w][m] = "no"
    <3>1. C!Flushed(w)[m] = job[m] /\ job[m] \in JobRow  BY <2>1 DEF C!Flushed, Typed
    <3>2. QED  BY <2>1, <3>1 DEF C!Queued
  <2>2. CASE intake[w][m] # "no"
    <3>1. intake[w][m] \in {"now", "later"}  BY <2>2 DEF Typed
    <3>2. C!Flushed(w)[m] = C!Merged(m, intake[w][m])  BY <2>2 DEF C!Flushed
    <3>3. QED  BY <2>2, <3>1, <3>2, RowPart
  <2>3. QED  BY <2>1, <2>2
<1>2. C!Flushed(w) = [m \in Msgs |-> C!Flushed(w)[m]]  BY DEF C!Flushed
<1>3. QED  BY <1>1, <1>2

-----------------------------------------------------------------------------
(* The counters *)

\* A fault counted against the bound keeps the bound.
LEMMA FaultPart ==
  ASSUME C!CleanupAssumption, C!TypeOK
  PROVE  /\ C!Fine \/ C!Fault => cleanupFaults' \in 0..MaxCleanupFaults
         /\ C!Stops => cleanupStops' \in 0..MaxCleanupStops
  BY DEF C!CleanupAssumption, C!TypeOK, C!Fine, C!Fault, C!Stops

\* The parts make up the type invariant again.
LEMMA TypeWhole ==
  ASSUME Typed', proc' \in [Cleaners -> {"off", "run", "failed", "stopping"}],
         cleanupFaults' \in 0..MaxCleanupFaults, cleanupStops' \in 0..MaxCleanupStops
  PROVE  C!TypeOK'
  BY DEF Typed, C!TypeOK, JobRow, CallSteps, Fates

-----------------------------------------------------------------------------
(* The invariant, action by action *)

\* A call stays covered while its row keeps its lease.
LEMMA CoverPart ==
  ASSUME C!CallCovered,
         \A v \in Cleaners, n \in Msgs : call'[v][n] = "call" /\ fate'[n] = "asked" =>
           call[v][n] = "call" /\ fate[n] = "asked",
         \A v \in Cleaners, n \in Msgs :
           call'[v][n] = "call" /\ fate'[n] = "asked" /\ C!Queued(n) /\ C!Held(v, n)
               /\ ~job[n].lapsed =>
             job'[n].due # "none" /\ job'[n].holder = job[n].holder
                 /\ job'[n].lapsed = job[n].lapsed
  PROVE  C!CallCovered'
  BY DEF C!CallCovered, C!Queued, C!Held

\* A new request is in the batch or in the table.
LEMMA EnqueueKeeps ==
  ASSUME C!CleanupAssumption, QueueInv, NEW w \in Cleaners, NEW m \in Msgs,
         NEW due \in {"now", "later"}, C!EnqueueDurable(w, m, due) \/ C!Enqueue(w, m, due)
  PROVE  QueueInv'
<1>t. C!TypeOK /\ Typed  BY TypeParts DEF QueueInv
<1>r. /\ fate[m] \in {"unsent", "asked"} /\ fate' = [fate EXCEPT ![m] = "asked"]
      /\ UNCHANGED <<proc, call, cleanupFaults, cleanupStops>>
  BY DEF C!EnqueueDurable, C!Enqueue, C!Request
<1>f. fate' \in [Msgs -> Fates] /\ fate'[m] = "asked" /\ \A n \in Msgs \ {m} :
          fate'[n] = fate[n]
  BY <1>t, <1>r DEF Typed, Fates
<1>j. /\ job' \in [Msgs -> JobRow]
          /\ intake' \in [Cleaners -> [Msgs -> {"no", "now", "later"}]]
      /\ \A n \in Msgs \ {m} : /\ job'[n] = job[n]
                             /\ \A v \in Cleaners : intake'[v][n] = intake[v][n]
      /\ job'[m].due # "none" \/ intake'[w][m] # "no"
      /\ C!Queued(m) => /\ job'[m].due # "none" /\ job'[m].holder = job[m].holder
                        /\ job'[m].lapsed = job[m].lapsed
  <2>1. CASE C!EnqueueDurable(w, m, due)
    <3>1. job' = [job EXCEPT ![m] = C!Merged(m, due)] /\ intake' = intake
      BY <2>1 DEF C!EnqueueDurable
    <3>2. job'[m] = C!Merged(m, due)  BY <3>1, <1>t DEF Typed
    <3>3. QED  BY <3>1, <3>2, <1>t, RowPart DEF Typed
  <2>2. CASE C!Enqueue(w, m, due)
    <3>1. job' = job /\ intake' = [intake EXCEPT ![w][m] = due]  BY <2>2 DEF C!Enqueue
    <3>2. QED  BY <3>1, <1>t DEF Typed, C!Queued
  <2>3. QED  BY <2>1, <2>2
<1>1. C!TypeOK'
  <2>1. Typed'  BY <1>f, <1>j, <1>r, <1>t DEF Typed
  <2>2. QED  BY <2>1, <1>r, <1>t, TypeWhole DEF C!TypeOK
<1>2. Untouched'  BY <1>f, <1>j, <1>r DEF QueueInv, Untouched, C!Queued
<1>3. DropsSettled'
  <2>1. fate[m] = "unsent" => \A v \in Cleaners : call[v][m] = "none"
    BY DEF QueueInv, Untouched
  <2>2. QED  BY <2>1, <1>f, <1>r DEF QueueInv, DropsSettled
<1>4. C!RequestsKept'  BY <1>f, <1>j DEF QueueInv, C!RequestsKept, C!Queued
<1>6. OffIdle'  BY <1>r DEF QueueInv, OffIdle
<1>7. C!CallCovered'
  <2>1. \A v \in Cleaners, n \in Msgs : call'[v][n] = "call" /\ fate'[n] = "asked" =>
          call[v][n] = "call" /\ fate[n] = "asked"
    BY <1>f, <1>r DEF QueueInv, Untouched
  <2>2. \A n \in Msgs : C!Queued(n) =>
          job'[n].due # "none" /\ job'[n].holder = job[n].holder
              /\ job'[n].lapsed = job[n].lapsed
    BY <1>j DEF C!Queued
  <2>3. QED  BY <2>1, <2>2, CoverPart DEF QueueInv
<1>5. QED  BY <1>1, <1>2, <1>3, <1>4, <1>6, <1>7 DEF QueueInv

\* A batch that is persisted moves its requests into the table; one that fails stays.
LEMMA PersistKeeps ==
  ASSUME C!CleanupAssumption, QueueInv, NEW w \in Cleaners, C!Persist(w)
  PROVE  QueueInv'
<1>t. C!TypeOK /\ Typed  BY TypeParts DEF QueueInv
<1>f. cleanupFaults' \in 0..MaxCleanupFaults /\ UNCHANGED <<call, fate, cleanupStops>>
  BY <1>t, FaultPart DEF C!Persist
<1>1. CASE job' = C!Flushed(w) /\ intake' = [intake EXCEPT ![w] = C!Empty] /\ UNCHANGED proc
  <2>1. /\ intake' \in [Cleaners -> [Msgs -> {"no", "now", "later"}]]
        /\ \A n \in Msgs : intake'[w][n] = "no"
        /\ \A v \in Cleaners \ {w} : intake'[v] = intake[v]
    BY <1>1, <1>t DEF Typed, C!Empty
  <2>2. C!TypeOK'
    <3>1. Typed'  BY <1>1, <1>f, <1>t, <2>1, FlushPart DEF Typed
    <3>2. QED  BY <1>1, <3>1, <1>f, <1>t, TypeWhole DEF C!TypeOK
  <2>3. Untouched'  BY <1>1, <1>f, <1>t, <2>1, FlushPart DEF QueueInv, Untouched, C!Queued
  <2>4. DropsSettled'  BY <1>f DEF QueueInv, DropsSettled
  <2>5. C!RequestsKept'
    <3>1. ASSUME NEW n \in Msgs, fate[n] = "asked"
          PROVE  job'[n].due # "none" \/ \E v \in Cleaners : intake'[v][n] # "no"
      <4>1. C!Queued(n) \/ \E v \in Cleaners : intake[v][n] # "no"
        BY <3>1 DEF QueueInv, C!RequestsKept
      <4>2. CASE C!Queued(n) \/ intake[w][n] # "no"
        <5>1. C!Flushed(w)[n].due # "none"  BY <4>2, <1>t, FlushPart
        <5>2. QED  BY <1>1, <5>1
      <4>3. CASE \E v \in Cleaners \ {w} : intake[v][n] # "no"  BY <4>3, <2>1
      <4>4. QED  BY <4>1, <4>2, <4>3
    <3>2. QED  BY <3>1, <1>f DEF C!RequestsKept, C!Queued
  <2>7. OffIdle'  BY <1>1, <1>f DEF QueueInv, OffIdle
  <2>8. C!CallCovered'
    <3>1. \A n \in Msgs : C!Queued(n) =>
            job'[n].due # "none" /\ job'[n].holder = job[n].holder
                /\ job'[n].lapsed = job[n].lapsed
      BY <1>1, <1>t, FlushPart
    <3>2. QED  BY <3>1, <1>f, CoverPart DEF QueueInv
  <2>6. QED  BY <2>2, <2>3, <2>4, <2>5, <2>7, <2>8 DEF QueueInv
<1>2. CASE proc' = [proc EXCEPT ![w] = "failed"] /\ UNCHANGED <<job, intake>>
  <2>1. C!TypeOK'
    <3>1. Typed'  BY <1>2, <1>f, <1>t DEF Typed
    <3>2. QED  BY <1>2, <3>1, <1>f, <1>t, TypeWhole DEF C!TypeOK
  <2>2. Untouched' /\ DropsSettled' /\ C!RequestsKept'
    BY <1>2, <1>f DEF QueueInv, Untouched, DropsSettled, C!RequestsKept, C!Queued
  <2>4. OffIdle' /\ C!CallCovered'
    BY <1>2, <1>f, <1>t DEF QueueInv, C!TypeOK, OffIdle, C!CallCovered, C!Queued, C!Held
  <2>3. QED  BY <2>1, <2>2, <2>4 DEF QueueInv
<1>3. QED  BY <1>1, <1>2 DEF C!Persist

\* A claim takes a row that is due and leaves the requests where they are.
LEMMA ClaimKeeps ==
  ASSUME C!CleanupAssumption, QueueInv, NEW w \in Cleaners, NEW m \in Msgs, C!Claim(w, m)
  PROVE  QueueInv'
<1>t. C!TypeOK /\ Typed  BY TypeParts DEF QueueInv
<1>u. UNCHANGED <<proc, intake, fate, cleanupFaults, cleanupStops>>  BY DEF C!Claim
<1>c. /\ call' \in [Cleaners -> [Msgs -> CallSteps]] /\ call'[w][m] = "call"
      /\ \A v \in Cleaners, n \in Msgs : v # w \/ n # m => call'[v][n] = call[v][n]
  BY <1>t, StepPart DEF C!Claim, CallSteps
<1>j. /\ job' \in [Msgs -> JobRow] /\ \A n \in Msgs : job'[n].due = job[n].due
      /\ job'[m].holder = w /\ ~job'[m].lapsed /\ \A n \in Msgs \ {m} : job'[n] = job[n]
  <2>1. MaxDeleteAttempts \in Nat  BY DEF C!CleanupAssumption
  <2>2. job[m] \in JobRow /\ job[m].attempts \in 0..MaxDeleteAttempts
    BY <1>t DEF Typed, JobRow
  <2>3. C!Counted(job[m].attempts) \in 0..MaxDeleteAttempts  BY <2>1, <2>2 DEF C!Counted
  <2>4. job' = [job EXCEPT ![m].attempts = C!Counted(@), ![m].holder = w, ![m].lapsed = FALSE]
    BY DEF C!Claim
  <2>5. /\ job'[m] = [job[m] EXCEPT !.attempts = C!Counted(job[m].attempts), !.holder = w,
                                    !.lapsed = FALSE]
        /\ DOMAIN job' = Msgs /\ job' = [n \in Msgs |-> job'[n]]
        /\ \A n \in Msgs \ {m} : job'[n] = job[n]
    BY <2>4, <1>t DEF Typed
  <2>6. /\ job'[m] \in JobRow /\ job'[m].due = job[m].due
        /\ job'[m].holder = w /\ ~job'[m].lapsed
    BY <2>2, <2>3, <2>5 DEF JobRow
  <2>7. \A n \in Msgs : job'[n] \in JobRow /\ job'[n].due = job[n].due
    BY <2>5, <2>6, <1>t DEF Typed
  <2>8. QED  BY <2>5, <2>6, <2>7
<1>1. C!TypeOK'
  <2>1. Typed'  BY <1>c, <1>j, <1>u, <1>t DEF Typed
  <2>2. QED  BY <2>1, <1>u, <1>t, TypeWhole DEF C!TypeOK
<1>2. Untouched'
  <2>1. fate[m] # "unsent"  BY DEF QueueInv, Untouched, C!Claim, C!Available, C!Queued
  <2>2. QED  BY <2>1, <1>c, <1>j, <1>u DEF QueueInv, Untouched, C!Queued
<1>3. DropsSettled'
  <2>1. ASSUME NEW v \in Cleaners, NEW n \in Msgs, call'[v][n] \in {"drop", "orphanDrop"}
        PROVE  fate[n] # "asked"
    <3>1. v # w \/ n # m  BY <2>1, <1>c
    <3>2. call'[v][n] = call[v][n]  BY <3>1, <1>c
    <3>3. QED  BY <2>1, <3>2 DEF QueueInv, DropsSettled
  <2>2. QED  BY <2>1, <1>u DEF DropsSettled
<1>4. C!RequestsKept'  BY <1>j, <1>u DEF QueueInv, C!RequestsKept, C!Queued
<1>6. OffIdle'
  <2>1. proc[w] = "run"  BY DEF C!Claim
  <2>2. QED  BY <2>1, <1>c, <1>u DEF QueueInv, OffIdle
<1>7. C!CallCovered'
  <2>1. ASSUME NEW v \in Cleaners, NEW n \in Msgs, call'[v][n] = "call", fate[n] = "asked"
        PROVE  job'[n].due # "none" /\ job'[n].holder = v /\ ~job'[n].lapsed
    <3>0. C!Available(w, m) /\ NoCleaner \notin Cleaners  BY DEF C!Claim, C!CleanupAssumption
    <3>1. CASE n = m /\ v = w  BY <3>0, <3>1, <1>j DEF C!Available
    <3>2. CASE v # w \/ n # m
      <4>1. call[v][n] = "call"  BY <2>1, <3>2, <1>c
      <4>2. C!Queued(n) /\ C!Held(v, n) /\ ~job[n].lapsed
        BY <2>1, <4>1 DEF QueueInv, C!CallCovered
      <4>3. n # m  BY <3>0, <3>2, <4>2 DEF C!Available, C!Held
      <4>4. QED  BY <4>2, <4>3, <1>j DEF C!Queued, C!Held
    <3>3. QED  BY <3>1, <3>2
  <2>2. QED  BY <2>1, <1>u DEF C!CallCovered, C!Queued, C!Held
<1>5. QED  BY <1>1, <1>2, <1>3, <1>4, <1>6, <1>7 DEF QueueInv

\* What Telegram answers to a call.
LEMMA AnswerPart ==
  ASSUME C!CleanupAssumption, QueueInv, NEW w \in Cleaners, NEW m \in Msgs,
         NEW done \in {"drop", "orphanDrop"}, NEW again \in {"retry", "orphanRetry"},
         call[w][m] # "none", C!Answer(w, m, done, again), UNCHANGED <<job, proc, intake,
                                                                       cleanupStops>>
  PROVE  QueueInv'
<1>t. C!TypeOK /\ Typed  BY TypeParts DEF QueueInv
<1>f. cleanupFaults' \in 0..MaxCleanupFaults  BY <1>t, FaultPart DEF C!Answer
<1>c. /\ call' \in [Cleaners -> [Msgs -> CallSteps]] /\ call'[w][m] \in {done, again}
      /\ \A v \in Cleaners, n \in Msgs : v # w \/ n # m => call'[v][n] = call[v][n]
  <2>1. C!Step(w, m, done) \/ C!Step(w, m, again)  BY DEF C!Answer
  <2>2. done \in CallSteps /\ again \in CallSteps  BY DEF CallSteps
  <2>3. QED  BY <2>1, <2>2, <1>t, StepPart
<1>d. call'[w][m] = done => fate'[m] # "asked"
  <2>1. done # again  OBVIOUS
  <2>2. C!Step(w, m, again) => call'[w][m] = again  BY <1>t, StepPart DEF CallSteps
  <2>3. CASE C!Settle(m, "deleted") \/ C!Settle(m, "refused")
    BY <2>3, <1>t, SettlePart DEF Fates
  <2>4. CASE fate[m] # "asked" /\ UNCHANGED fate  BY <2>4
  <2>5. CASE C!Step(w, m, again)  BY <2>1, <2>2, <2>5
  <2>6. QED  BY <2>3, <2>4, <2>5 DEF C!Answer
<1>s. /\ fate' \in [Msgs -> Fates]
      /\ \A n \in Msgs : fate'[n] = fate[n] \/ (fate[n] = "asked"
          /\ fate'[n] \notin {"asked", "unsent"})
  <2>1. UNCHANGED fate \/ C!Settle(m, "deleted") \/ C!Settle(m, "refused")  BY DEF C!Answer
  <2>2. CASE UNCHANGED fate  BY <2>2, <1>t DEF Typed
  <2>3. ASSUME NEW f \in {"deleted", "refused"}, C!Settle(m, f)
        PROVE  /\ fate' \in [Msgs -> Fates]
               /\ \A n \in Msgs : fate'[n] = fate[n]
                                 \/ (fate[n] = "asked" /\ fate'[n] \notin {"asked", "unsent"})
    <3>1. f \in Fates \ {"asked", "unsent"}  BY DEF Fates
    <3>2. QED  BY <2>3, <3>1, <1>t, SettlePart
  <2>4. QED  BY <2>1, <2>2, <2>3
<1>1. C!TypeOK'
  <2>1. Typed'  BY <1>c, <1>s, <1>t DEF Typed
  <2>2. QED  BY <2>1, <1>f, <1>t, TypeWhole DEF C!TypeOK
<1>2. Untouched'
  <2>1. fate[m] = "unsent" => call[w][m] = "none"  BY DEF QueueInv, Untouched
  <2>2. fate'[m] # "unsent"  BY <2>1, <1>s
  <2>3. QED  BY <2>2, <1>c, <1>s DEF QueueInv, Untouched, C!Queued
<1>3. DropsSettled'
  <2>1. ASSUME NEW v \in Cleaners, NEW n \in Msgs, call'[v][n] \in {"drop", "orphanDrop"}
        PROVE  fate'[n] # "asked"
    <3>1. CASE v = w /\ n = m  BY <2>1, <3>1, <1>c, <1>d
    <3>2. CASE v # w \/ n # m
      <4>1. call'[v][n] = call[v][n]  BY <3>2, <1>c
      <4>2. fate[n] # "asked"  BY <2>1, <4>1 DEF QueueInv, DropsSettled
      <4>3. QED  BY <4>2, <1>s
    <3>3. QED  BY <3>1, <3>2
  <2>2. QED  BY <2>1 DEF DropsSettled
<1>4. C!RequestsKept'  BY <1>s DEF QueueInv, C!RequestsKept, C!Queued
<1>6. OffIdle'
  <2>1. proc[w] # "off"  BY DEF QueueInv, OffIdle
  <2>2. QED  BY <2>1, <1>c DEF QueueInv, OffIdle
<1>7. C!CallCovered'
  <2>1. \A v \in Cleaners, n \in Msgs : call'[v][n] = "call" /\ fate'[n] = "asked" =>
          call[v][n] = "call" /\ fate[n] = "asked"
    BY <1>c, <1>s
  <2>2. \A n \in Msgs : C!Queued(n) =>
          job'[n].due # "none" /\ job'[n].holder = job[n].holder
              /\ job'[n].lapsed = job[n].lapsed
    BY DEF C!Queued
  <2>3. C!CallCovered  BY DEF QueueInv
  <2>4. QED  BY <2>1, <2>2, <2>3, CoverPart
<1>5. QED  BY <1>1, <1>2, <1>3, <1>4, <1>6, <1>7 DEF QueueInv

\* A call that moves on without an answer.
LEMMA MoveOnKeeps ==
  ASSUME C!CleanupAssumption, QueueInv, NEW w \in Cleaners, NEW m \in Msgs,
         NEW s \in {"none", "orphan"}, call[w][m] # "none", C!Step(w, m, s), C!Fault,
         UNCHANGED <<job, proc, intake, fate, cleanupStops>>
  PROVE  QueueInv'
<1>t. C!TypeOK /\ Typed  BY TypeParts DEF QueueInv
<1>f. cleanupFaults' \in 0..MaxCleanupFaults  BY <1>t, FaultPart
<1>c. /\ call' \in [Cleaners -> [Msgs -> CallSteps]] /\ call'[w][m] = s
      /\ \A v \in Cleaners, n \in Msgs : v # w \/ n # m => call'[v][n] = call[v][n]
  BY <1>t, StepPart DEF CallSteps
<1>1. C!TypeOK'
  <2>1. Typed'  BY <1>c, <1>t DEF Typed
  <2>2. QED  BY <2>1, <1>f, <1>t, TypeWhole DEF C!TypeOK
<1>2. Untouched'
  <2>1. fate[m] # "unsent"  BY DEF QueueInv, Untouched
  <2>2. QED  BY <2>1, <1>c DEF QueueInv, Untouched, C!Queued
<1>3. DropsSettled'
  <2>1. ASSUME NEW v \in Cleaners, NEW n \in Msgs, call'[v][n] \in {"drop", "orphanDrop"}
        PROVE  fate[n] # "asked"
    <3>1. v # w \/ n # m  BY <2>1, <1>c
    <3>2. call'[v][n] = call[v][n]  BY <3>1, <1>c
    <3>3. QED  BY <2>1, <3>2 DEF QueueInv, DropsSettled
  <2>2. QED  BY <2>1 DEF DropsSettled
<1>4. C!RequestsKept'  BY DEF QueueInv, C!RequestsKept, C!Queued
<1>6. OffIdle'
  <2>1. proc[w] # "off"  BY DEF QueueInv, OffIdle
  <2>2. QED  BY <2>1, <1>c DEF QueueInv, OffIdle
<1>7. C!CallCovered'
  <2>1. \A v \in Cleaners, n \in Msgs : call'[v][n] = "call" /\ fate'[n] = "asked" =>
          call[v][n] = "call" /\ fate[n] = "asked"
    BY <1>c
  <2>2. \A n \in Msgs : C!Queued(n) =>
          job'[n].due # "none" /\ job'[n].holder = job[n].holder
              /\ job'[n].lapsed = job[n].lapsed
    BY DEF C!Queued
  <2>3. C!CallCovered  BY DEF QueueInv
  <2>4. QED  BY <2>1, <2>2, <2>3, CoverPart
<1>5. QED  BY <1>1, <1>2, <1>3, <1>4, <1>6, <1>7 DEF QueueInv

\* Delete calls, in the worker and as orphans.
LEMMA DeleteKeeps ==
  ASSUME C!CleanupAssumption, QueueInv, NEW w \in Cleaners, NEW m \in Msgs,
         C!Delete(w, m) \/ C!OrphanEnds(w, m) \/ C!CancelWorker(w, m)
  PROVE  QueueInv'
<1>1. CASE C!Delete(w, m)
  <2>1. call[w][m] # "none" /\ UNCHANGED <<job, proc, intake, cleanupStops>>
    BY <1>1 DEF C!Delete
  <2>2. CASE C!Answer(w, m, "drop", "retry")  BY <2>1, <2>2, AnswerPart
  <2>3. CASE C!Fault /\ C!Step(w, m, "orphan") /\ UNCHANGED fate  BY <2>1, <2>3, MoveOnKeeps
  <2>4. QED  BY <1>1, <2>2, <2>3 DEF C!Delete
<1>2. CASE C!OrphanEnds(w, m)
  <2>1. call[w][m] # "none" /\ UNCHANGED <<job, proc, intake, cleanupStops>>
    BY <1>2 DEF C!OrphanEnds
  <2>2. C!Answer(w, m, "orphanDrop", "orphanRetry")  BY <1>2 DEF C!OrphanEnds
  <2>3. QED  BY <2>1, <2>2, AnswerPart
<1>3. CASE C!CancelWorker(w, m)
  <2>1. /\ call[w][m] # "none" /\ C!Fault
            /\ UNCHANGED <<job, proc, intake, fate, cleanupStops>>
        /\ C!Step(w, m, "orphan") \/ C!Step(w, m, "none")
    BY <1>3 DEF C!CancelWorker
  <2>2. QED  BY <2>1, MoveOnKeeps
<1>4. QED  BY <1>1, <1>2, <1>3

\* _remove_job and _retry_or_drop: a row goes only when its request is settled.
LEMMA SettleKeeps ==
  ASSUME C!CleanupAssumption, QueueInv, NEW w \in Cleaners, NEW m \in Msgs,
         C!Remove(w, m) \/ C!Retry(w, m)
  PROVE  QueueInv'
<1>t. C!TypeOK /\ Typed  BY TypeParts DEF QueueInv
<1>u. UNCHANGED <<proc, intake, cleanupFaults, cleanupStops>>  BY DEF C!Remove, C!Retry
<1>n. call[w][m] # "none" /\ fate[m] # "unsent"
  <2>1. call[w][m] # "none"  BY DEF C!Remove, C!Retry
  <2>2. QED  BY <2>1 DEF QueueInv, Untouched
<1>c. /\ call' \in [Cleaners -> [Msgs -> CallSteps]] /\ call'[w][m] = "none"
      /\ \A v \in Cleaners, n \in Msgs : v # w \/ n # m => call'[v][n] = call[v][n]
  BY <1>t, StepPart DEF C!Remove, C!Retry, CallSteps
<1>g. C!Gone(m) => /\ job' \in [Msgs -> JobRow] /\ job'[m].due = "none"
                   /\ \A n \in Msgs \ {m} : job'[n] = job[n]
  <2>1. C!NoJob \in JobRow /\ C!NoJob.due = "none"  BY <1>t, RowPart
  <2>2. QED  BY <2>1, <1>t DEF C!Gone, Typed
<1>l. C!Later(m) => /\ job' \in [Msgs -> JobRow] /\ job'[m].due = "later"
                    /\ \A n \in Msgs \ {m} : job'[n] = job[n]
  <2> DEFINE row == [job[m] EXCEPT !.due = "later", !.holder = NoCleaner, !.lapsed = FALSE]
  <2>1. job[m] \in JobRow  BY <1>t DEF Typed
  <2>2. row \in JobRow /\ row.due = "later"  BY <2>1 DEF JobRow
  <2>3. C!Later(m) => job' = [job EXCEPT ![m] = row]  BY DEF C!Later
  <2> HIDE DEF row
  <2>4. QED  BY <2>2, <2>3, <1>t DEF Typed
<1>s. C!Settle(m, "abandoned") =>
        /\ fate' \in [Msgs -> Fates] /\ fate'[m] # "asked"
        /\ \A n \in Msgs : fate'[n] = fate[n] \/ (fate[n] = "asked" /\ fate'[n] # "unsent")
        /\ \A n \in Msgs \ {m} : fate'[n] = fate[n]
  BY <1>t, SettlePart DEF Fates
<1>1. /\ job' \in [Msgs -> JobRow] /\ fate' \in [Msgs -> Fates]
      /\ \A n \in Msgs \ {m} : job'[n] = job[n] /\ fate'[n] = fate[n]
      /\ fate'[m] # "unsent" /\ (fate'[m] = "asked" => fate[m] = "asked")
      /\ fate'[m] = "asked" => job'[m].due = job[m].due \/ job'[m].due = "later"
  <2>1. CASE C!Remove(w, m)
    <3>1. fate' = fate /\ fate[m] # "asked" /\ (C!Gone(m) \/ job' = job)
      BY <2>1 DEF C!Remove, QueueInv, DropsSettled
    <3>2. QED  BY <3>1, <1>g, <1>n, <1>t DEF Typed
  <2>2. CASE C!Retry(w, m)
    <3>1. CASE job' = job /\ fate' = fate  BY <3>1, <1>n, <1>t DEF Typed
    <3>2. CASE C!Gone(m) /\ C!Settle(m, "abandoned")  BY <3>2, <1>g, <1>s, <1>n
    <3>3. CASE C!Later(m) /\ fate' = fate  BY <3>3, <1>l, <1>n, <1>t DEF Typed
    <3>4. QED  BY <2>2, <3>1, <3>2, <3>3 DEF C!Retry
  <2>3. QED  BY <2>1, <2>2
<1>2. C!TypeOK'
  <2>1. Typed'  BY <1>c, <1>1, <1>u, <1>t DEF Typed
  <2>2. QED  BY <2>1, <1>u, <1>t, TypeWhole DEF C!TypeOK
<1>3. Untouched'  BY <1>c, <1>1, <1>u DEF QueueInv, Untouched, C!Queued
<1>4. DropsSettled'
  <2>1. ASSUME NEW v \in Cleaners, NEW n \in Msgs, call'[v][n] \in {"drop", "orphanDrop"}
        PROVE  fate'[n] # "asked"
    <3>1. v # w \/ n # m  BY <2>1, <1>c
    <3>2. call'[v][n] = call[v][n]  BY <3>1, <1>c
    <3>3. fate[n] # "asked"  BY <2>1, <3>2 DEF QueueInv, DropsSettled
    <3>4. QED  BY <3>3, <1>1
  <2>2. QED  BY <2>1 DEF DropsSettled
<1>5. C!RequestsKept'
  <2>1. ASSUME NEW n \in Msgs, fate'[n] = "asked"
        PROVE  job'[n].due # "none" \/ \E v \in Cleaners : intake[v][n] # "no"
    <3>1. fate[n] = "asked"  BY <2>1, <1>1
    <3>2. job[n].due # "none" \/ \E v \in Cleaners : intake[v][n] # "no"
      BY <3>1 DEF QueueInv, C!RequestsKept, C!Queued
    <3>3. QED  BY <2>1, <3>2, <1>1
  <2>2. QED  BY <2>1, <1>u DEF C!RequestsKept, C!Queued
<1>7. OffIdle'  BY <1>c, <1>u DEF QueueInv, OffIdle
<1>8. C!CallCovered'
  <2>1. \A v \in Cleaners, n \in Msgs : call'[v][n] = "call" /\ fate'[n] = "asked" =>
          call[v][n] = "call" /\ fate[n] = "asked"
    BY <1>c, <1>1
  <2>2. ASSUME NEW v \in Cleaners, NEW n \in Msgs, call'[v][n] = "call", C!Held(v, n)
        PROVE  job'[n] = job[n]
    <3>1. CASE n # m  BY <3>1, <1>1
    <3>2. CASE n = m
      <4>1. v # w /\ ~C!Held(w, m)  BY <2>2, <3>2, <1>c DEF C!Held
      <4>2. QED  BY <3>2, <4>1 DEF C!Remove, C!Retry
    <3>3. QED  BY <3>1, <3>2
  <2>3. QED  BY <2>1, <2>2, CoverPart DEF QueueInv, C!Queued
<1>6. QED  BY <1>2, <1>3, <1>4, <1>5, <1>7, <1>8 DEF QueueInv

\* Clocks: a row stays a row.
LEMMA ClockKeeps ==
  ASSUME C!CleanupAssumption, QueueInv, NEW m \in Msgs, C!DueComes(m) \/ C!LeaseLapses(m)
  PROVE  QueueInv'
<1>t. C!TypeOK /\ Typed  BY TypeParts DEF QueueInv
<1>u. UNCHANGED <<proc, intake, call, fate, cleanupStops>>  BY DEF C!DueComes, C!LeaseLapses
<1>f. cleanupFaults' \in 0..MaxCleanupFaults
  <2>1. C!Fine \/ C!Fault  BY DEF C!DueComes, C!LeaseLapses, C!Fine
  <2>2. QED  BY <2>1, <1>t, FaultPart
<1>j. job' \in [Msgs -> JobRow] /\ \A n \in Msgs :
          (job'[n].due = "none") = (job[n].due = "none")
  <2>1. job[m] \in JobRow  BY <1>t DEF Typed
  <2>2. CASE C!DueComes(m)
    <3>1. job[m].due = "later" /\ job' = [job EXCEPT ![m].due = "now"]  BY <2>2 DEF C!DueComes
    <3>2. job' = [job EXCEPT ![m] = [job[m] EXCEPT !.due = "now"]]  BY <3>1
    <3>3. [job[m] EXCEPT !.due = "now"] \in JobRow /\ [job[m] EXCEPT !.due = "now"].due = "now"
      BY <2>1 DEF JobRow
    <3>4. QED  BY <3>1, <3>2, <3>3, <1>t DEF Typed
  <2>3. CASE C!LeaseLapses(m)
    <3>1. job' = [job EXCEPT ![m].lapsed = TRUE]  BY <2>3 DEF C!LeaseLapses
    <3>2. job' = [job EXCEPT ![m] = [job[m] EXCEPT !.lapsed = TRUE]]  BY <3>1
    <3>3. [job[m] EXCEPT !.lapsed = TRUE] \in JobRow
              /\ [job[m] EXCEPT !.lapsed = TRUE].due = job[m].due
      BY <2>1 DEF JobRow
    <3>4. QED  BY <3>2, <3>3, <1>t DEF Typed
  <2>4. QED  BY <2>2, <2>3
<1>1. C!TypeOK'
  <2>1. Typed'  BY <1>j, <1>u, <1>t DEF Typed
  <2>2. QED  BY <2>1, <1>f, <1>u, <1>t, TypeWhole DEF C!TypeOK
<1>2. Untouched' /\ DropsSettled' /\ C!RequestsKept'
  BY <1>j, <1>u DEF QueueInv, Untouched, DropsSettled, C!RequestsKept, C!Queued
<1>4. OffIdle'  BY <1>u DEF QueueInv, OffIdle
<1>5. C!CallCovered'
  <2>1. ASSUME NEW v \in Cleaners, NEW n \in Msgs, call[v][n] = "call", C!Held(v, n)
        PROVE  job'[n].holder = job[n].holder /\ job'[n].lapsed = job[n].lapsed
    <3>1. job[n] \in JobRow /\ job[m] \in JobRow  BY <1>t DEF Typed
    <3>2. CASE C!DueComes(m)
      <4>1. job' = [job EXCEPT ![m] = [job[m] EXCEPT !.due = "now"]]  BY <3>2 DEF C!DueComes
      <4>2. /\ [job[m] EXCEPT !.due = "now"].holder = job[m].holder
            /\ [job[m] EXCEPT !.due = "now"].lapsed = job[m].lapsed
        BY <3>1 DEF JobRow
      <4>3. QED  BY <4>1, <4>2, <1>t DEF Typed
    <3>3. CASE C!LeaseLapses(m)
      <4>1. v = job[n].holder /\ call[v][n] # "none" /\ proc[v] # "off"
        BY <2>1 DEF QueueInv, OffIdle, C!Held
      <4>2. n # m  BY <2>1, <3>3, <4>1 DEF C!LeaseLapses
      <4>3. job' = [job EXCEPT ![m].lapsed = TRUE]  BY <3>3 DEF C!LeaseLapses
      <4>4. QED  BY <4>2, <4>3, <1>t DEF Typed
    <3>4. QED  BY <3>2, <3>3
  <2>2. QED  BY <2>1, <1>j, <1>u, CoverPart DEF QueueInv, C!Queued
<1>3. QED  BY <1>1, <1>2, <1>4, <1>5 DEF QueueInv

\* A start gives up the spent rows together with their requests.
LEMMA StartKeeps ==
  ASSUME C!CleanupAssumption, QueueInv, NEW w \in Cleaners, C!Start(w)
  PROVE  QueueInv'
<1>t. C!TypeOK /\ Typed  BY TypeParts DEF QueueInv
<1>u. /\ UNCHANGED <<intake, call, cleanupFaults, cleanupStops>>
      /\ proc' \in [Cleaners -> {"off", "run", "failed", "stopping"}]
  BY <1>t DEF C!Start, C!TypeOK
<1>1. ASSUME NEW n \in Msgs
      PROVE  /\ n \in C!Spent => /\ job'[n].due = "none" /\ job'[n] \in JobRow
                              /\ fate'[n] = IF fate[n] = "asked" THEN "abandoned" ELSE fate[n]
             /\ n \notin C!Spent => job'[n] = job[n] /\ fate'[n] = fate[n]
             /\ job'[n] \in JobRow /\ fate'[n] \in Fates
             /\ fate[n] = "unsent" <=> fate'[n] = "unsent"
  <2>1. C!NoJob \in JobRow /\ C!NoJob.due = "none"  BY <1>t, RowPart
  <2>2. job[n] \in JobRow /\ fate[n] \in Fates  BY <1>t DEF Typed
  <2>3. CASE n \in C!Spent  BY <2>1, <2>2, <2>3 DEF C!Start, Fates
  <2>4. CASE n \notin C!Spent  BY <2>2, <2>4 DEF C!Start
  <2>5. QED  BY <2>3, <2>4
<1>2. C!TypeOK'
  <2>1. job' \in [Msgs -> JobRow] /\ fate' \in [Msgs -> Fates]  BY <1>1 DEF C!Start
  <2>2. Typed'  BY <2>1, <1>u, <1>t DEF Typed
  <2>3. QED  BY <2>2, <1>u, <1>t, TypeWhole DEF C!TypeOK
<1>3. Untouched'  BY <1>1, <1>u DEF QueueInv, Untouched, C!Queued
<1>4. DropsSettled'  BY <1>1, <1>u DEF QueueInv, DropsSettled
<1>5. C!RequestsKept'  BY <1>1, <1>u DEF QueueInv, C!RequestsKept, C!Queued
<1>7. OffIdle'
  <2>1. \A v \in Cleaners : proc'[v] = "off" => proc[v] = "off"  BY <1>t DEF C!Start, C!TypeOK
  <2>2. QED  BY <2>1, <1>u DEF QueueInv, OffIdle
<1>8. C!CallCovered'
  <2>1. \A n \in Msgs : fate'[n] = "asked" => fate[n] = "asked" /\ job'[n] = job[n]  BY <1>1
  <2>2. QED  BY <2>1, <1>u, CoverPart DEF QueueInv, C!Queued
<1>6. QED  BY <1>2, <1>3, <1>4, <1>5, <1>7, <1>8 DEF QueueInv

\* The end of a process: a batch that is lost is lost with its requests.
LEMMA EndKeeps ==
  ASSUME C!CleanupAssumption, QueueInv, NEW w \in Cleaners, C!Stop(w) \/ C!Crash(w)
  PROVE  QueueInv'
<1>t. C!TypeOK /\ Typed  BY TypeParts DEF QueueInv
<1>e. /\ proc' \in [Cleaners -> {"off", "run", "failed", "stopping"}]
      /\ call' \in [Cleaners -> [Msgs -> CallSteps]]
      /\ intake' \in [Cleaners -> [Msgs -> {"no", "now", "later"}]]
      /\ \A v \in Cleaners \ {w} : call'[v] = call[v] /\ intake'[v] = intake[v]
      /\ \A n \in Msgs : call'[w][n] = "none" /\ intake'[w][n] = "no"
  <2>1. C!Ended(w)  BY DEF C!Stop, C!Crash
  <2>2. C!Idle \in [Msgs -> CallSteps] /\ \A n \in Msgs : C!Idle[n] = "none"
    BY DEF C!Idle, CallSteps
  <2>3. C!Empty \in [Msgs -> {"no", "now", "later"}] /\ \A n \in Msgs : C!Empty[n] = "no"
    BY DEF C!Empty
  <2>4. QED  BY <2>1, <2>2, <2>3, <1>t DEF C!Ended, C!TypeOK, Typed
<1>f. cleanupFaults' \in 0..MaxCleanupFaults /\ cleanupStops' \in 0..MaxCleanupStops
  <2>1. CASE C!Stop(w)  BY <2>1, <1>t, FaultPart DEF C!Stop, C!TypeOK
  <2>2. CASE C!Crash(w)  BY <2>2, <1>t, FaultPart DEF C!Crash, C!TypeOK
  <2>3. QED  BY <2>1, <2>2
<1>1. /\ job' \in [Msgs -> JobRow] /\ fate' \in [Msgs -> Fates]
      /\ \A n \in Msgs :
           /\ fate'[n] = "unsent" => fate[n] = "unsent"
           /\ fate'[n] = "asked" => fate[n] = "asked"
           /\ C!Queued(n) => /\ job'[n].due # "none" /\ job'[n].holder = job[n].holder
                             /\ job'[n].lapsed = job[n].lapsed
           /\ ~C!Queued(n) /\ intake[w][n] = "no" => job'[n].due = "none"
           /\ fate'[n] = "asked" /\ intake[w][n] # "no" => job'[n].due # "none"
  <2>1. CASE C!Stop(w)
    <3>1. CASE job' = C!Flushed(w) /\ UNCHANGED fate  BY <3>1, <1>t, FlushPart DEF Typed
    <3>2. CASE /\ UNCHANGED job
               /\ fate' = [m \in Msgs |-> IF intake[w][m] # "no" /\ fate[m] = "asked"
                   /\ ~C!Queued(m)
                                          THEN "lost" ELSE fate[m]]
      BY <3>2, <1>t DEF Typed, Fates, C!Queued
    <3>3. QED  BY <2>1, <3>1, <3>2 DEF C!Stop
  <2>2. CASE C!Crash(w)
    <3>1. job' = job /\ fate' \in [Msgs -> Fates]  BY <2>2 DEF C!Crash, Fates
    <3>2. \A n \in Msgs :
            fate'[n] \in IF fate[n] # "asked" THEN {fate[n]}
                        ELSE IF intake[w][n] # "no" /\ ~C!Queued(n) THEN {"lost"}
                        ELSE IF call[w][n] \in {"call", "orphan"} THEN {"asked", "deleted"}
                        ELSE {"asked"}
      BY <2>2 DEF C!Crash
    <3>3. QED  BY <3>1, <3>2, <1>t DEF Typed, C!Queued
  <2>3. QED  BY <2>1, <2>2
<1>2. C!TypeOK'
  <2>1. Typed'  BY <1>e, <1>1 DEF Typed
  <2>2. QED  BY <2>1, <1>e, <1>f, TypeWhole
<1>3. Untouched'
  <2>1. ASSUME NEW n \in Msgs, fate'[n] = "unsent"
        PROVE  job'[n].due = "none" /\ \A v \in Cleaners : intake'[v][n] = "no"
            /\ call'[v][n] = "none"
    <3>1. /\ ~C!Queued(n) /\ \A v \in Cleaners : intake[v][n] = "no" /\ call[v][n] = "none"
      BY <2>1, <1>1 DEF QueueInv, Untouched
    <3>2. QED  BY <3>1, <1>1, <1>e
  <2>2. QED  BY <2>1 DEF Untouched, C!Queued
<1>4. DropsSettled'  BY <1>e, <1>1 DEF QueueInv, DropsSettled
<1>5. C!RequestsKept'
  <2>1. ASSUME NEW n \in Msgs, fate'[n] = "asked"
        PROVE  job'[n].due # "none" \/ \E v \in Cleaners : intake'[v][n] # "no"
    <3>1. C!Queued(n) \/ \E v \in Cleaners : intake[v][n] # "no"
      BY <2>1, <1>1 DEF QueueInv, C!RequestsKept
    <3>2. CASE C!Queued(n) \/ intake[w][n] # "no"
      <4>1. job'[n].due # "none"  BY <2>1, <3>2, <1>1
      <4>2. QED  BY <4>1
    <3>3. CASE \E v \in Cleaners \ {w} : intake[v][n] # "no"  BY <3>3, <1>e
    <3>4. QED  BY <3>1, <3>2, <3>3
  <2>2. QED  BY <2>1 DEF C!RequestsKept, C!Queued
<1>7. OffIdle'
  <2>1. \A v \in Cleaners \ {w} : proc'[v] = proc[v]
    BY <1>t DEF C!Stop, C!Crash, C!Ended, C!TypeOK
  <2>2. QED  BY <2>1, <1>e DEF QueueInv, OffIdle
<1>8. C!CallCovered'
  <2>1. \A v \in Cleaners, n \in Msgs : call'[v][n] = "call" /\ fate'[n] = "asked" =>
          call[v][n] = "call" /\ fate[n] = "asked"
    BY <1>e, <1>1
  <2>2. QED  BY <2>1, <1>1, CoverPart DEF QueueInv
<1>6. QED  BY <1>2, <1>3, <1>4, <1>5, <1>7, <1>8 DEF QueueInv

\* The beginning of a stop leaves batch, rows and calls alone.
LEMMA BeginStopKeeps ==
  ASSUME C!CleanupAssumption, QueueInv, NEW w \in Cleaners, C!BeginStop(w)
  PROVE  QueueInv'
<1>t. C!TypeOK /\ Typed  BY TypeParts DEF QueueInv
<1>1. UNCHANGED <<job, intake, call, fate, cleanupFaults>>  BY DEF C!BeginStop
<1>2. proc' \in [Cleaners -> {"off", "run", "failed", "stopping"}]
  BY <1>t DEF C!BeginStop, C!TypeOK
<1>3. cleanupStops' \in 0..MaxCleanupStops  BY <1>t, FaultPart DEF C!BeginStop, C!TypeOK
<1>4. C!TypeOK'
  <2>1. Typed'  BY <1>1, <1>t DEF Typed
  <2>2. QED  BY <2>1, <1>1, <1>2, <1>3, <1>t, TypeWhole DEF C!TypeOK
<1>5. Untouched' /\ DropsSettled' /\ C!RequestsKept'
  BY <1>1 DEF QueueInv, Untouched, DropsSettled, C!RequestsKept, C!Queued
<1>7. OffIdle' /\ C!CallCovered'
  <2>1. \A v \in Cleaners : proc'[v] = "off" => proc[v] = "off"
    BY <1>t DEF C!BeginStop, C!TypeOK
  <2>2. QED  BY <2>1, <1>1 DEF QueueInv, OffIdle, C!CallCovered, C!Queued, C!Held
<1>6. QED  BY <1>4, <1>5, <1>7 DEF QueueInv

\* Nothing has been requested at the start.
LEMMA QueueInit == ASSUME C!CleanupAssumption, C!Init PROVE QueueInv
<1>0. {MaxCleanupFaults, MaxCleanupStops, MaxDeleteAttempts} \subseteq Nat
  BY DEF C!CleanupAssumption
<1>1. C!NoJob \in JobRow /\ C!NoJob.due = "none"  BY <1>0 DEF C!NoJob, JobRow
<1>2. Typed  BY <1>1 DEF C!Init, Typed, C!Empty, C!Idle, CallSteps, Fates
<1>3. C!TypeOK
  <2>1. proc \in [Cleaners -> {"off", "run", "failed", "stopping"}]  BY DEF C!Init
  <2>2. cleanupFaults \in 0..MaxCleanupFaults /\ cleanupStops \in 0..MaxCleanupStops
    BY <1>0 DEF C!Init
  <2>3. QED  BY <1>2, <2>1, <2>2 DEF Typed, C!TypeOK, JobRow, CallSteps, Fates
<1>4. Untouched /\ DropsSettled /\ C!RequestsKept /\ OffIdle /\ C!CallCovered
  BY <1>1
  DEF C!Init, Untouched, DropsSettled, C!RequestsKept, OffIdle, C!CallCovered, C!Queued,
  C!Empty, C!Idle
<1>5. QED  BY <1>3, <1>4 DEF QueueInv

-----------------------------------------------------------------------------
(* The theorems *)

\* The inductive invariant of the queue.
THEOREM QueueInvariant ==
  ASSUME C!CleanupAssumption
  PROVE  C!Init /\ [][C!Next]_cleanupVars => []QueueInv
<1>1. C!Init => QueueInv  BY QueueInit
<1>2. QueueInv /\ [C!Next]_cleanupVars => QueueInv'
  <2>1. CASE UNCHANGED cleanupVars
    BY <2>1
    DEF cleanupVars, QueueInv, C!TypeOK, Untouched, DropsSettled, C!RequestsKept, OffIdle,
    C!CallCovered,
        C!Queued, C!Held
  <2>2. QED
    BY <2>1, EnqueueKeeps, PersistKeeps, ClaimKeeps, DeleteKeeps, SettleKeeps, ClockKeeps,
       StartKeeps, EndKeeps, BeginStopKeeps DEF C!Next
<1>3. QED  BY <1>1, <1>2, PTL

\* An acknowledged request that is not settled has a row or waits in the memory of a
\* process, whatever fails, stops or restarts (stop() writes a failed batch again).
THEOREM NoRequestLost ==
  ASSUME C!CleanupAssumption
  PROVE  C!Spec => []C!RequestsKept
<1>1. QueueInv => C!RequestsKept  BY DEF QueueInv
<1>2. QED  BY <1>1, QueueInvariant, PTL DEF C!Spec, C!cleanupVars, cleanupVars

\* The call of a worker for an open request is covered by its lease to the end, whatever
\* stale orphans, other processes and starts write.
THEOREM CallsCovered ==
  ASSUME C!CleanupAssumption
  PROVE  C!Spec => []C!CallCovered
<1>1. QueueInv => C!CallCovered  BY DEF QueueInv
<1>2. QED  BY <1>1, QueueInvariant, PTL DEF C!Spec, C!cleanupVars, cleanupVars

\* A process never has two calls for one message: the claim passes over its orphans.
THEOREM NoSecondCall ==
  ASSUME C!CleanupAssumption
  PROVE  C!Spec => C!OneCallEach
<1>1. ASSUME QueueInv, NEW w \in Cleaners, NEW m \in Msgs, C!Claim(w, m)
      PROVE  call[w][m] = "none"
  <2>1. call[w][m] \in CallSteps  BY <1>1, TypeParts DEF QueueInv, Typed
  <2>2. QED  BY <1>1, <2>1 DEF C!Claim, C!Working, C!Available, C!Orphans, CallSteps
<1>2. QueueInv => [\A w \in Cleaners, m \in Msgs : C!Claim(w, m)
          => call[w][m] = "none"]_cleanupVars
  BY <1>1
<1>3. QED  BY <1>2, QueueInvariant, PTL DEF C!Spec, C!cleanupVars, cleanupVars, C!OneCallEach

-----------------------------------------------------------------------------
(* Scheduled messages: ScheduledMessages *)

\* A process whose lease on the occurrence of a day stands.
Owns(w, d) == occ[d].row /\ occ[d].holder = w /\ ~occ[d].lapsed

\* Processes about to publish the message of a day without its lease.
Strays(d) == {w \in Posters : S!At(w, "deliver") /\ postPass[w].cur = d /\ ~Owns(w, d)}

\* The occurrence is published and its owner about to complete it.
Posted(d) == \E w \in Posters : Owns(w, d) /\ S!At(w, "complete") /\ postPass[w].cur = d

\* An occurrence that is still to be published, by its owner or by whoever claims it.
Owed(d) == IF occ[d].row /\ ~Posted(d) THEN 1 ELSE 0

\* A process past its claim works on the occurrence of a day.
Aimed == \A w \in Posters :
  postPass[w].st \in {"chosen", "deliver", "complete", "retry"} => postPass[w].cur \in S!Days

\* An occurrence that is gone has no holder.
Blank == \A d \in S!Days : ~occ[d].row => occ[d] = S!NoRow

\* What is published, and what is still going to be, is paid for;
Accounted == \A d \in S!Days :
  postSent[d] + Cardinality(Strays(d)) + Owed(d) <= 1 + postFaults + reborn[d]

\* so is whoever has lost a lease, as long as occurrences can be created again.
Excused == \A d \in S!Days : entry.exists => Cardinality(Strays(d)) <= postFaults + reborn[d]

\* The inductive invariant.
ScheduleInv == S!TypeOK /\ Aimed /\ Blank /\ Accounted /\ Excused

\* What the row of an occurrence and the state of a process may be.
Rows   == [row : BOOLEAN, holder : Posters \cup {Nobody}, lapsed : BOOLEAN, wait : BOOLEAN]
Passes == [st : {"idle", "read", "claim", "chosen", "deliver", "complete", "retry"},
           now : 0..MaxDays, due : SUBSET S!Days, cur : 0..MaxDays]

\* The composed module speaks of the same finiteness.
LEMMA FiniteAlike == \A N : S!IsFiniteSet(N) <=> IsFiniteSet(N)
BY DEF S!IsFiniteSet, IsFiniteSet

\* Days are numbers, and nobody is no process.
LEMMA DaysFacts ==
  ASSUME S!ScheduleAssumption
  PROVE  /\ MaxDays \in Nat /\ MaxPasses \in Nat /\ MaxPostFaults \in Nat /\ MaxEdits \in Nat
         /\ S!Days \subseteq Nat /\ S!Days \subseteq 0..MaxDays /\ 0 \notin S!Days
         /\ Nobody \notin Posters /\ IsFiniteSet(Posters)
BY FiniteAlike DEF S!ScheduleAssumption, S!Days

\* The invariant with its records named.
LEMMA ScheduleParts ==
  ASSUME S!TypeOK
  PROVE  /\ occ \in [S!Days -> Rows] /\ postPass \in [Posters -> Passes]
         /\ postSent \in [S!Days -> Nat] /\ reborn \in [S!Days -> Nat]
         /\ postDay \in 0..MaxDays /\ anchored \in 0..MaxDays
         /\ entry \in [exists : BOOLEAN, enabled : BOOLEAN, lastRun : 0..MaxDays]
         /\ postPasses \in 0..MaxPasses /\ postFaults \in 0..MaxPostFaults
             /\ edits \in 0..MaxEdits
BY DEF S!TypeOK, Rows, Passes

\* Strays are finitely many.
LEMMA StraysCounted ==
  ASSUME S!ScheduleAssumption, NEW d
  PROVE  IsFiniteSet(Strays(d)) /\ Cardinality(Strays(d)) \in Nat
<1>1. Strays(d) \subseteq Posters /\ IsFiniteSet(Posters)
  BY DaysFacts DEF Strays
<1> QED  BY <1>1, FS_Subset, FS_CardinalityType

\* A set within another has no more elements,
LEMMA CardWithin ==
  ASSUME NEW N0, NEW N, IsFiniteSet(N), N0 \subseteq N
  PROVE  Cardinality(N0) \in Nat /\ Cardinality(N) \in Nat /\ Cardinality(N0) <= Cardinality(N)
BY FS_Subset, FS_CardinalityType

\* one more if one is added,
LEMMA CardMore ==
  ASSUME NEW N0, NEW N, NEW x, IsFiniteSet(N), N0 \subseteq N \cup {x}
  PROVE  Cardinality(N0) \in Nat /\ Cardinality(N) \in Nat
         /\ Cardinality(N0) <= Cardinality(N) + 1
<1>1. IsFiniteSet(N \cup {x}) /\ Cardinality(N) \in Nat
      /\ (Cardinality(N \cup {x}) = Cardinality(N) \/ Cardinality(N
          \cup {x}) = Cardinality(N) + 1)
  BY FS_AddElement, FS_CardinalityType
<1>2. Cardinality(N0) \in Nat /\ Cardinality(N0) <= Cardinality(N \cup {x})
  BY <1>1, CardWithin
<1> QED  BY <1>1, <1>2

\* and one less if one of them is missing.
LEMMA CardLess ==
  ASSUME NEW N0, NEW N, NEW x \in N, IsFiniteSet(N), N0 \subseteq N \ {x}
  PROVE  Cardinality(N0) \in Nat /\ Cardinality(N) \in Nat
         /\ Cardinality(N0) + 1 <= Cardinality(N)
<1>1. IsFiniteSet(N \ {x}) /\ Cardinality(N \ {x}) = Cardinality(N) - 1
  BY FS_RemoveElement
<1>2. Cardinality(N0) \in Nat /\ Cardinality(N0) <= Cardinality(N \ {x})
          /\ Cardinality(N) \in Nat
  BY <1>1, CardWithin, FS_CardinalityType
<1> QED  BY <1>1, <1>2

\* A step of a process moves that process alone.
LEMMA GoForm ==
  ASSUME postPass \in [Posters -> Passes], NEW w \in Posters,
         NEW s \in {"idle", "read", "claim", "chosen", "deliver", "complete", "retry"},
         S!Go(w, s)
  PROVE  /\ postPass' \in [Posters -> Passes]
         /\ postPass'[w].st = s /\ postPass'[w].cur = postPass[w].cur
             /\ postPass'[w].now = postPass[w].now
         /\ \A v \in Posters \ {w} : postPass'[v] = postPass[v]
<1>1. [postPass[w] EXCEPT !.st = s] \in Passes
  BY DEF Passes
<1>2. [postPass[w] EXCEPT !.st = s].st = s
          /\ [postPass[w] EXCEPT !.st = s].cur = postPass[w].cur
      /\ [postPass[w] EXCEPT !.st = s].now = postPass[w].now
  BY DEF Passes
<1>3. postPass' = [postPass EXCEPT ![w] = [postPass[w] EXCEPT !.st = s]]
  BY DEF S!Go
<1> QED  BY <1>1, <1>2, <1>3

\* What a set of rows is after one of them changed.
LEMMA RowForm ==
  ASSUME occ \in [S!Days -> Rows], NEW d \in S!Days, NEW r \in Rows,
         occ' = [occ EXCEPT ![d] = r]
  PROVE  /\ occ' \in [S!Days -> Rows] /\ occ'[d] = r
         /\ \A e \in S!Days \ {d} : occ'[e] = occ[e]
OBVIOUS

\* The rows that steps write:
LEMMA RowKinds ==
  /\ S!NoRow \in Rows /\ ~S!NoRow.row /\ S!NoRow.holder = Nobody
  /\ [S!NoRow EXCEPT !.row = TRUE] \in Rows /\ [S!NoRow EXCEPT !.row = TRUE].row
  /\ [S!NoRow EXCEPT !.row = TRUE].holder = Nobody
  /\ [S!NoRow EXCEPT !.row = TRUE, !.wait = TRUE] \in Rows
  /\ [S!NoRow EXCEPT !.row = TRUE, !.wait = TRUE].row
  /\ [S!NoRow EXCEPT !.row = TRUE, !.wait = TRUE].holder = Nobody
BY DEF S!NoRow, Rows

\* one that is claimed,
LEMMA ClaimedRow ==
  ASSUME NEW r \in Rows, NEW w \in Posters
  PROVE  /\ [r EXCEPT !.holder = w, !.lapsed = FALSE] \in Rows
         /\ [r EXCEPT !.holder = w, !.lapsed = FALSE].row = r.row
         /\ [r EXCEPT !.holder = w, !.lapsed = FALSE].holder = w
         /\ ~[r EXCEPT !.holder = w, !.lapsed = FALSE].lapsed
BY DEF Rows

\* that may be tried again,
LEMMA FreshRow ==
  ASSUME NEW r \in Rows
  PROVE  /\ [r EXCEPT !.wait = FALSE] \in Rows /\ [r EXCEPT !.wait = FALSE].row = r.row
         /\ [r EXCEPT !.wait = FALSE].holder = r.holder
         /\ [r EXCEPT !.wait = FALSE].lapsed = r.lapsed
BY DEF Rows

\* or whose lease has ended.
LEMMA LapsedRow ==
  ASSUME NEW r \in Rows
  PROVE  /\ [r EXCEPT !.lapsed = TRUE] \in Rows /\ [r EXCEPT !.lapsed = TRUE].row = r.row
         /\ [r EXCEPT !.lapsed = TRUE].holder = r.holder /\ [r EXCEPT !.lapsed = TRUE].lapsed
BY DEF Rows

\* A pass begins.
LEMMA ReadKeeps ==
  ASSUME S!ScheduleAssumption, ScheduleInv, NEW w \in Posters, S!Read(w)
  PROVE  ScheduleInv'
<1>t. /\ occ \in [S!Days -> Rows] /\ postPass \in [Posters -> Passes]
      /\ postSent \in [S!Days -> Nat] /\ reborn \in [S!Days -> Nat]
      /\ postDay \in 0..MaxDays /\ anchored \in 0..MaxDays
      /\ entry \in [exists : BOOLEAN, enabled : BOOLEAN, lastRun : 0..MaxDays]
      /\ postPasses \in 0..MaxPasses /\ postFaults \in 0..MaxPostFaults
          /\ edits \in 0..MaxEdits
      /\ Aimed /\ Blank
  BY ScheduleParts DEF ScheduleInv
<1>c. /\ MaxDays \in Nat /\ MaxPasses \in Nat /\ MaxPostFaults \in Nat /\ MaxEdits \in Nat
      /\ S!Days \subseteq 0..MaxDays /\ Nobody \notin Posters
  BY DaysFacts
<1>a. LET r == [st |-> "read", now |-> postDay, due |-> S!Due, cur |-> 0]
      IN  r \in Passes /\ r.st = "read" /\ r.cur = 0
  BY <1>t, <1>c, SMTT(30) DEF S!Due, Passes, S!Days
<1>1. /\ postPass' \in [Posters -> Passes] /\ postPass'[w].st = "read"
          /\ postPass[w].st = "idle"
      /\ \A v \in Posters \ {w} : postPass'[v] = postPass[v]
  BY <1>t, <1>a DEF S!Read, S!At
<1>6. S!TypeOK'
  BY <1>t, <1>c, <1>1 DEF S!Read, S!Fine, S!Fault, S!Edit, S!TypeOK, Rows, Passes
<1>7. Aimed'
  BY <1>t, <1>c, <1>1 DEF S!Read, Aimed, S!At
<1>8. Blank'
  BY <1>t, <1>c, <1>1 DEF S!Read, Blank
<1>9. ASSUME NEW d \in S!Days
      PROVE  /\ postSent'[d] + Cardinality(Strays(d)') + Owed(d)'
                  <= 1 + postFaults' + reborn'[d]
             /\ entry'.exists => Cardinality(Strays(d)') <= postFaults' + reborn'[d]
  <2>1. Strays(d)' = Strays(d) /\ Owed(d)' = Owed(d)
    BY <1>t, <1>1, <1>c DEF S!Read, Strays, Owed, Posted, Owns, S!At
  <2>2. /\ postSent'[d] = postSent[d] /\ reborn'[d] = reborn[d] /\ postFaults' = postFaults
        /\ entry'.exists => entry.exists
    BY <1>t DEF S!Read, S!Edit
  <2> QED  BY <1>t, <2>1, <2>2 DEF ScheduleInv, Accounted, Excused
<1> QED  BY <1>6, <1>7, <1>8, <1>9 DEF ScheduleInv, Accounted, Excused

\* Its occurrences are stored; one that is stored again is a rebirth.
LEMMA PersistDueKeeps ==
  ASSUME S!ScheduleAssumption, ScheduleInv, NEW w \in Posters, S!PersistDue(w)
  PROVE  ScheduleInv'
<1>t. /\ occ \in [S!Days -> Rows] /\ postPass \in [Posters -> Passes]
      /\ postSent \in [S!Days -> Nat] /\ reborn \in [S!Days -> Nat]
      /\ postDay \in 0..MaxDays /\ anchored \in 0..MaxDays
      /\ entry \in [exists : BOOLEAN, enabled : BOOLEAN, lastRun : 0..MaxDays]
      /\ postPasses \in 0..MaxPasses /\ postFaults \in 0..MaxPostFaults
          /\ edits \in 0..MaxEdits
      /\ Aimed /\ Blank
  BY ScheduleParts DEF ScheduleInv
<1>c. /\ MaxDays \in Nat /\ MaxPasses \in Nat /\ MaxPostFaults \in Nat /\ MaxEdits \in Nat
      /\ S!Days \subseteq 0..MaxDays /\ Nobody \notin Posters
  BY DaysFacts
<1>1. /\ postPass' \in [Posters -> Passes] /\ postPass'[w].st = "claim"
          /\ postPass[w].st = "read"
      /\ \A v \in Posters \ {w} : postPass'[v] = postPass[v]
  BY <1>t, GoForm DEF S!PersistDue, S!At
<1>2. \A d \in S!Days :
        \/ occ'[d] = occ[d] /\ reborn'[d] = reborn[d]
        \/ /\ ~occ[d].row /\ entry.exists /\ occ'[d] = [S!NoRow EXCEPT !.row = TRUE]
           /\ reborn'[d] = (IF postSent[d] > 0 THEN reborn[d] + 1 ELSE reborn[d])
  BY <1>t DEF S!PersistDue
<1>3. occ' \in [S!Days -> Rows] /\ reborn' \in [S!Days -> Nat]
  <2>1. ASSUME NEW d \in S!Days
        PROVE  occ'[d] \in Rows /\ reborn'[d] \in Nat
    <3>1. occ[d] \in Rows /\ reborn[d] \in Nat /\ [S!NoRow EXCEPT !.row = TRUE] \in Rows
      BY <1>t, RowKinds
    <3>2. occ'[d] \in {occ[d], [S!NoRow EXCEPT !.row = TRUE]}
              /\ reborn'[d] \in {reborn[d], reborn[d] + 1}
      BY <1>2
    <3> DEFINE row0 == [S!NoRow EXCEPT !.row = TRUE]
    <3> HIDE DEF row0
    <3>3. occ'[d] \in {occ[d], row0} /\ occ[d] \in Rows /\ row0 \in Rows
      BY <3>1, <3>2 DEF row0
    <3>4. occ'[d] \in Rows
      BY <3>3
    <3>5. reborn'[d] \in Nat
      BY <3>1, <3>2
    <3> QED  BY <3>4, <3>5
  <2> QED  BY <1>t, <2>1 DEF S!PersistDue
<1>6. S!TypeOK'
  BY <1>t, <1>c, <1>1, <1>3 DEF S!PersistDue, S!Fine, S!Fault, S!Edit, S!TypeOK, Rows, Passes
<1>7. Aimed'
  BY <1>t, <1>c, <1>1 DEF S!PersistDue, Aimed, S!At
<1>8. Blank'
  BY <1>t, <1>c, <1>1, <1>2, RowKinds DEF S!PersistDue, Blank
<1>9. ASSUME NEW d \in S!Days
      PROVE  /\ postSent'[d] + Cardinality(Strays(d)') + Owed(d)'
                  <= 1 + postFaults' + reborn'[d]
             /\ entry'.exists => Cardinality(Strays(d)') <= postFaults' + reborn'[d]
  <2>0. /\ postSent'[d] = postSent[d] /\ postFaults' = postFaults /\ entry' = entry
        /\ postSent[d] \in Nat /\ reborn[d] \in Nat /\ postFaults \in Nat
    BY <1>t, <1>c DEF S!PersistDue
  <2>1. CASE occ'[d] = occ[d] /\ reborn'[d] = reborn[d]
    <3>1. Strays(d)' = Strays(d) /\ Owed(d)' = Owed(d)
      BY <1>t, <1>1, <2>1 DEF Strays, Owed, Posted, Owns, S!At
    <3> QED  BY <2>0, <2>1, <3>1 DEF ScheduleInv, Accounted, Excused
  <2>2. CASE /\ ~occ[d].row /\ entry.exists /\ occ'[d] = [S!NoRow EXCEPT !.row = TRUE]
             /\ reborn'[d] = (IF postSent[d] > 0 THEN reborn[d] + 1 ELSE reborn[d])
    <3>1. ~occ[d].row /\ occ'[d].holder = Nobody
      BY <2>2, RowKinds
    <3>2. Strays(d)' = Strays(d) /\ Owed(d) = 0 /\ Owed(d)' \in {0, 1}
      BY <1>t, <1>1, <1>c, <3>1 DEF Strays, Owed, Owns, S!At
    <3>3. Cardinality(Strays(d)) \in Nat
          /\ postSent[d] + Cardinality(Strays(d)) + Owed(d) <= 1 + postFaults + reborn[d]
          /\ Cardinality(Strays(d)) <= postFaults + reborn[d]
      BY <2>2, StraysCounted DEF ScheduleInv, Accounted, Excused
    <3> QED  BY <2>0, <2>2, <3>2, <3>3
  <2> QED  BY <1>2, <2>1, <2>2
<1> QED  BY <1>6, <1>7, <1>8, <1>9 DEF ScheduleInv, Accounted, Excused

\* The oldest is chosen.
LEMMA ChooseKeeps ==
  ASSUME S!ScheduleAssumption, ScheduleInv, NEW w \in Posters, S!Choose(w)
  PROVE  ScheduleInv'
<1>t. /\ occ \in [S!Days -> Rows] /\ postPass \in [Posters -> Passes]
      /\ postSent \in [S!Days -> Nat] /\ reborn \in [S!Days -> Nat]
      /\ postDay \in 0..MaxDays /\ anchored \in 0..MaxDays
      /\ entry \in [exists : BOOLEAN, enabled : BOOLEAN, lastRun : 0..MaxDays]
      /\ postPasses \in 0..MaxPasses /\ postFaults \in 0..MaxPostFaults
          /\ edits \in 0..MaxEdits
      /\ Aimed /\ Blank
  BY ScheduleParts DEF ScheduleInv
<1>c. /\ MaxDays \in Nat /\ MaxPasses \in Nat /\ MaxPostFaults \in Nat /\ MaxEdits \in Nat
      /\ S!Days \subseteq 0..MaxDays /\ Nobody \notin Posters
  BY DaysFacts
<1>a. S!NoPass \in Passes /\ S!NoPass.st = "idle"
  BY <1>c DEF S!NoPass, Passes
<1>b. ASSUME NEW d \in S!Days
      PROVE  LET r == [postPass[w] EXCEPT !.st = "chosen", !.cur = d]
             IN  r \in Passes /\ r.st = "chosen" /\ r.cur = d
  BY <1>t, <1>c DEF Passes
<1>1. /\ postPass' \in [Posters -> Passes] /\ postPass[w].st = "claim"
      /\ postPass'[w].st = "idle" \/ (postPass'[w].st = "chosen"
          /\ postPass'[w].cur \in S!Days)
      /\ \A v \in Posters \ {w} : postPass'[v] = postPass[v]
  <2>1. CASE S!Candidates = {}
    BY <1>t, <1>a, <2>1 DEF S!Choose, S!At
  <2>2. CASE S!Candidates # {}
    <3>1. PICK d \in S!Days : postPass' = [postPass EXCEPT ![w].st = "chosen", ![w].cur = d]
      BY <2>2 DEF S!Choose, S!Candidates
    <3>2. postPass' = [postPass EXCEPT ![w] = [postPass[w] EXCEPT !.st = "chosen", !.cur = d]]
      BY <1>t, <3>1
    <3> QED  BY <1>t, <1>b, <3>2 DEF S!Choose, S!At
  <2> QED  BY <2>1, <2>2
<1>6. S!TypeOK'
  BY <1>t, <1>c, <1>1 DEF S!Choose, S!Fine, S!Fault, S!Edit, S!TypeOK, Rows, Passes
<1>7. Aimed'
  BY <1>t, <1>c, <1>1 DEF S!Choose, Aimed, S!At
<1>8. Blank'
  BY <1>t, <1>c, <1>1 DEF S!Choose, Blank
<1>9. ASSUME NEW d \in S!Days
      PROVE  /\ postSent'[d] + Cardinality(Strays(d)') + Owed(d)'
                  <= 1 + postFaults' + reborn'[d]
             /\ entry'.exists => Cardinality(Strays(d)') <= postFaults' + reborn'[d]
  <2>1. Strays(d)' = Strays(d) /\ Owed(d)' = Owed(d)
    BY <1>t, <1>1, <1>c DEF S!Choose, Strays, Owed, Posted, Owns, S!At
  <2>2. /\ postSent'[d] = postSent[d] /\ reborn'[d] = reborn[d] /\ postFaults' = postFaults
        /\ entry'.exists => entry.exists
    BY <1>t DEF S!Choose, S!Edit
  <2> QED  BY <1>t, <2>1, <2>2 DEF ScheduleInv, Accounted, Excused
<1> QED  BY <1>6, <1>7, <1>8, <1>9 DEF ScheduleInv, Accounted, Excused

\* It is claimed, or dropped with its entry disabled.
LEMMA ClaimPostKeeps ==
  ASSUME S!ScheduleAssumption, ScheduleInv, NEW w \in Posters, S!Claim(w)
  PROVE  ScheduleInv'
<1>t. /\ occ \in [S!Days -> Rows] /\ postPass \in [Posters -> Passes]
      /\ postSent \in [S!Days -> Nat] /\ reborn \in [S!Days -> Nat]
      /\ postDay \in 0..MaxDays /\ anchored \in 0..MaxDays
      /\ entry \in [exists : BOOLEAN, enabled : BOOLEAN, lastRun : 0..MaxDays]
      /\ postPasses \in 0..MaxPasses /\ postFaults \in 0..MaxPostFaults
          /\ edits \in 0..MaxEdits
      /\ Aimed /\ Blank
  BY ScheduleParts DEF ScheduleInv
<1>c. /\ MaxDays \in Nat /\ MaxPasses \in Nat /\ MaxPostFaults \in Nat /\ MaxEdits \in Nat
      /\ S!Days \subseteq 0..MaxDays /\ Nobody \notin Posters
  BY DaysFacts
<1>a. postPass[w].st = "chosen" /\ postPass[w].cur \in S!Days
  BY <1>t DEF S!Claim, S!At, Aimed
<1>d. PICK d \in S!Days : d = postPass[w].cur
  BY <1>a
<1>1. /\ postPass' \in [Posters -> Passes] /\ postPass'[w].st \in {"claim", "deliver"}
      /\ postPass'[w].cur = d /\ \A v \in Posters \ {w} : postPass'[v] = postPass[v]
      /\ \/ postPass'[w].st = "claim" /\ occ' = occ
         \/ postPass'[w].st = "claim" /\ S!Available(d) /\ occ' = [occ EXCEPT ![d] = S!NoRow]
         \/ /\ postPass'[w].st = "deliver" /\ S!Available(d)
            /\ occ' = [occ EXCEPT ![d] = [occ[d] EXCEPT !.holder = w, !.lapsed = FALSE]]
  <2>1. CASE S!Go(w, "claim") /\ occ' = occ
    BY <1>t, <1>d, <2>1, GoForm
  <2>2. CASE S!Go(w, "claim") /\ S!Available(d) /\ occ' = [occ EXCEPT ![d] = S!NoRow]
    BY <1>t, <1>d, <2>2, GoForm
  <2>3. CASE /\ S!Go(w, "deliver") /\ S!Available(d)
             /\ occ' = [occ EXCEPT ![d] = [occ[d] EXCEPT !.holder = w, !.lapsed = FALSE]]
    BY <1>t, <1>d, <2>3, GoForm
  <2> QED  BY <1>t, <1>d, <2>1, <2>2, <2>3 DEF S!Claim
<1>2. /\ occ' \in [S!Days -> Rows] /\ \A e \in S!Days \ {d} : occ'[e] = occ[e]
      /\ \/ postPass'[w].st = "claim" /\ occ'[d] = occ[d]
         \/ postPass'[w].st = "claim" /\ S!Available(d) /\ occ'[d] = S!NoRow
         \/ /\ postPass'[w].st = "deliver" /\ S!Available(d) /\ occ'[d].row
            /\ occ'[d].holder = w /\ ~occ'[d].lapsed
  <2>1. CASE postPass'[w].st = "claim" /\ occ' = occ
    BY <1>t, <2>1
  <2>2. CASE postPass'[w].st = "claim" /\ S!Available(d) /\ occ' = [occ EXCEPT ![d] = S!NoRow]
    <3>1. occ' \in [S!Days -> Rows] /\ occ'[d] = S!NoRow /\ \A e \in S!Days \ {d} :
              occ'[e] = occ[e]
      BY <1>t, <2>2, RowKinds, RowForm
    <3> QED  BY <2>2, <3>1
  <2>3. CASE /\ postPass'[w].st = "deliver" /\ S!Available(d)
             /\ occ' = [occ EXCEPT ![d] = [occ[d] EXCEPT !.holder = w, !.lapsed = FALSE]]
    <3> DEFINE r == [occ[d] EXCEPT !.holder = w, !.lapsed = FALSE]
    <3>1. r \in Rows /\ r.row = occ[d].row /\ r.holder = w /\ ~r.lapsed
      BY <1>t, ClaimedRow
    <3>2. occ' \in [S!Days -> Rows] /\ occ'[d] = r /\ \A e \in S!Days \ {d} : occ'[e] = occ[e]
      BY <1>t, <2>3, <3>1, RowForm
    <3> QED  BY <2>3, <3>1, <3>2 DEF S!Available
  <2> QED  BY <1>1, <2>1, <2>2, <2>3
<1>6. S!TypeOK'
  BY <1>t, <1>c, <1>1, <1>2 DEF S!Claim, S!Fine, S!Fault, S!Edit, S!TypeOK, Rows, Passes
<1>7. Aimed'
  BY <1>t, <1>c, <1>1, <1>a, <1>d DEF S!Claim, Aimed, S!At
<1>8. Blank'
  BY <1>t, <1>c, <1>1, <1>2 DEF S!Claim, Blank
<1>9. ASSUME NEW e \in S!Days
      PROVE  /\ postSent'[e] + Cardinality(Strays(e)') + Owed(e)'
                  <= 1 + postFaults' + reborn'[e]
             /\ entry'.exists => Cardinality(Strays(e)') <= postFaults' + reborn'[e]
  <2>1. /\ postSent'[e] = postSent[e] /\ reborn'[e] = reborn[e] /\ postFaults' = postFaults
        /\ entry' = entry /\ postSent[e] \in Nat /\ reborn[e] \in Nat /\ postFaults \in Nat
    BY <1>t, <1>c DEF S!Claim
  <2>2. Strays(e)' = Strays(e)
    <3>1. CASE e # d
      BY <1>t, <1>1, <1>2, <1>a, <1>d, <3>1 DEF Strays, Owns, S!At
    <3>2. CASE e = d /\ occ'[d] = occ[d] /\ postPass'[w].st = "claim"
      BY <1>t, <1>1, <1>2, <1>a, <1>d, <3>2 DEF Strays, Owns, S!At
    <3>3. CASE e = d /\ S!Available(d) /\ (occ'[d] = S!NoRow \/ occ'[d].holder = w)
      <4>1. \A v \in Posters : ~Owns(v, d)
        BY <1>c, <3>3 DEF S!Available, Owns
      <4>2. \A v \in Posters \ {w} : ~Owns(v, d)'
        BY <1>c, <3>3, RowKinds DEF Owns
      <4>3. S!At(w, "deliver")' => Owns(w, d)'
        BY <1>2, <3>3, <1>c DEF Owns, S!At
      <4>4. ~S!At(w, "deliver")
        BY <1>a DEF S!At
      <4>5. \A v \in Posters \ {w} : S!At(v, "deliver")' <=> S!At(v, "deliver")
        BY <1>1 DEF S!At
      <4>6. \A v \in Posters \ {w} : postPass'[v].cur = postPass[v].cur
        BY <1>1
      <4>7. \A v \in Posters : v \in Strays(d)' <=> v \in Strays(d)
        BY <4>1, <4>2, <4>3, <4>4, <4>5, <4>6 DEF Strays
      <4>8. Strays(d)' \subseteq Posters /\ Strays(d) \subseteq Posters
        BY DEF Strays
      <4> QED  BY <3>3, <4>7, <4>8
    <3> QED  BY <1>2, <3>1, <3>2, <3>3
  <2>3. Owed(e)' <= Owed(e) /\ Owed(e) \in Nat /\ Owed(e)' \in Nat
    <3>0. Owed(e) \in {0, 1} /\ Owed(e)' \in {0, 1}
      BY DEF Owed
    <3>1. CASE e # d
      <4>1. Posted(e)' <=> Posted(e)
        BY <1>t, <1>1, <1>2, <1>a, <1>d, <3>1 DEF Posted, Owns, S!At
      <4> QED  BY <1>2, <3>0, <3>1, <4>1 DEF Owed
    <3>2. CASE e = d /\ occ'[d] = occ[d] /\ postPass'[w].st = "claim"
      <4>1. Posted(e)' <=> Posted(e)
        BY <1>t, <1>1, <1>2, <1>a, <1>d, <3>2 DEF Posted, Owns, S!At
      <4> QED  BY <3>0, <3>2, <4>1 DEF Owed
    <3>3. CASE e = d /\ S!Available(d)
      <4>1. occ[d].row /\ ~Posted(d)
        BY <1>c, <3>3 DEF S!Available, Owns, Posted
      <4>2. Owed(e) = 1
        BY <3>3, <4>1 DEF Owed
      <4> QED  BY <3>0, <4>2
    <3> QED  BY <1>2, <3>1, <3>2, <3>3
  <2>4. Cardinality(Strays(e)) \in Nat
        /\ postSent[e] + Cardinality(Strays(e)) + Owed(e) <= 1 + postFaults + reborn[e]
        /\ (entry.exists => Cardinality(Strays(e)) <= postFaults + reborn[e])
    BY StraysCounted DEF ScheduleInv, Accounted, Excused
  <2> QED  BY <2>1, <2>2, <2>3, <2>4
<1> QED  BY <1>6, <1>7, <1>8, <1>9 DEF ScheduleInv, Accounted, Excused

\* It is published, or may have been.
LEMMA DeliverKeeps ==
  ASSUME S!ScheduleAssumption, ScheduleInv, NEW w \in Posters, S!Deliver(w)
  PROVE  ScheduleInv'
<1>t. /\ occ \in [S!Days -> Rows] /\ postPass \in [Posters -> Passes]
      /\ postSent \in [S!Days -> Nat] /\ reborn \in [S!Days -> Nat]
      /\ postDay \in 0..MaxDays /\ anchored \in 0..MaxDays
      /\ entry \in [exists : BOOLEAN, enabled : BOOLEAN, lastRun : 0..MaxDays]
      /\ postPasses \in 0..MaxPasses /\ postFaults \in 0..MaxPostFaults
          /\ edits \in 0..MaxEdits
      /\ Aimed /\ Blank
  BY ScheduleParts DEF ScheduleInv
<1>c. /\ MaxDays \in Nat /\ MaxPasses \in Nat /\ MaxPostFaults \in Nat /\ MaxEdits \in Nat
      /\ S!Days \subseteq 0..MaxDays /\ Nobody \notin Posters
  BY DaysFacts
<1>a. postPass[w].st = "deliver" /\ postPass[w].cur \in S!Days
  BY <1>t DEF S!Deliver, S!At, Aimed
<1>d. PICK d \in S!Days : d = postPass[w].cur
  BY <1>a
<1>1. /\ postPass' \in [Posters -> Passes] /\ postPass'[w].st \in {"complete", "retry"}
      /\ postPass'[w].cur = d /\ \A v \in Posters \ {w} : postPass'[v] = postPass[v]
      /\ \/ postPass'[w].st = "complete" /\ postFaults' = postFaults
          /\ postSent'[d] = postSent[d] + 1
         \/ /\ postPass'[w].st = "retry" /\ postFaults' = postFaults + 1
            /\ postFaults < MaxPostFaults /\ postSent'[d] \in {postSent[d], postSent[d] + 1}
      /\ postSent' \in [S!Days -> Nat] /\ \A e \in S!Days \ {d} : postSent'[e] = postSent[e]
  <2>1. CASE S!Fine /\ S!Go(w, "complete") /\ postSent' = [postSent EXCEPT ![d] = @ + 1]
    BY <1>t, <1>d, <2>1, GoForm DEF S!Fine
  <2>2. CASE S!Fault /\ S!Go(w, "retry")
                 /\ postSent' \in {postSent, [postSent EXCEPT ![d] = @ + 1]}
    BY <1>t, <1>d, <2>2, GoForm DEF S!Fault
  <2> QED  BY <1>t, <1>d, <2>1, <2>2 DEF S!Deliver
<1>2. occ' = occ /\ reborn' = reborn /\ entry' = entry
  BY DEF S!Deliver
<1>6. S!TypeOK'
  BY <1>t, <1>c, <1>1, <1>2 DEF S!Deliver, S!Fine, S!Fault, S!Edit, S!TypeOK, Rows, Passes
<1>7. Aimed'
  BY <1>t, <1>c, <1>1, <1>a, <1>d DEF S!Deliver, Aimed, S!At
<1>8. Blank'
  BY <1>t, <1>c, <1>1, <1>2 DEF S!Deliver, Blank
<1>9. ASSUME NEW e \in S!Days
      PROVE  /\ postSent'[e] + Cardinality(Strays(e)') + Owed(e)'
                  <= 1 + postFaults' + reborn'[e]
             /\ entry'.exists => Cardinality(Strays(e)') <= postFaults' + reborn'[e]
  <2>9. /\ postFaults' \in Nat /\ postFaults \in Nat /\ reborn'[e] = reborn[e]
            /\ reborn[e] \in Nat
        /\ postSent[e] \in Nat /\ Owed(e) \in {0, 1} /\ Owed(e)' \in {0, 1}
        /\ Cardinality(Strays(e)) \in Nat /\ IsFiniteSet(Strays(e))
    BY <1>t, <1>c, StraysCounted DEF S!Deliver, S!Fine, S!Fault, Owed
  <2>1. CASE e # d
    <3>1. Strays(e)' = Strays(e)
      BY <1>t, <1>1, <1>2, <1>a, <1>d, <2>1 DEF Strays, Owns, S!At
    <3>2. Posted(e)' <=> Posted(e)
      BY <1>t, <1>1, <1>2, <1>a, <1>d, <2>1 DEF Posted, Owns, S!At
    <3>3. Owed(e)' = Owed(e) /\ postSent'[e] = postSent[e]
      BY <1>1, <1>2, <2>1, <3>2 DEF Owed
    <3>4. postFaults' >= postFaults
      BY <1>1, <2>9
    <3> QED  BY <1>2, <2>9, <3>1, <3>3, <3>4 DEF ScheduleInv, Accounted, Excused
  <2>2. CASE e = d /\ ~Owns(w, d)
    <3>1. w \in Strays(d)
      BY <1>a, <1>d, <2>2 DEF Strays, S!At
    <3>2. Strays(d)' \subseteq Strays(d) \ {w}
      BY <1>1, <1>2 DEF Strays, Owns, S!At
    <3>3. Cardinality(Strays(d)') \in Nat
              /\ Cardinality(Strays(d)') + 1 <= Cardinality(Strays(d))
      BY <2>2, <2>9, <3>1, <3>2, CardLess
    <3>4. Posted(d)' <=> Posted(d)
      BY <1>1, <1>2, <1>a, <2>2 DEF Posted, Owns, S!At
    <3>5. Owed(d)' = Owed(d)
      BY <1>2, <3>4 DEF Owed
    <3>6. postFaults' >= postFaults /\ postSent'[d] <= postSent[d] + 1 /\ postSent'[d] \in Nat
      BY <1>1, <2>9
    <3> QED  BY <1>2, <2>2, <2>9, <3>3, <3>5, <3>6 DEF ScheduleInv, Accounted, Excused
  <2>3. CASE e = d /\ Owns(w, d)
    <3>1. Strays(d)' = Strays(d)
      <4>1. w \notin Strays(d) /\ w \notin Strays(d)'
        BY <1>1, <2>3 DEF Strays, S!At
      <4>2. \A v \in Posters \ {w} : v \in Strays(d)' <=> v \in Strays(d)
        BY <1>1, <1>2 DEF Strays, Owns, S!At
      <4>3. Strays(d) \subseteq Posters /\ Strays(d)' \subseteq Posters
        BY DEF Strays
      <4> QED  BY <4>1, <4>2, <4>3
    <3>2. ~Posted(d)
      BY <1>a, <2>3 DEF Posted, Owns, S!At
    <3>3. Owed(d) = 1
      BY <2>3, <3>2 DEF Owed, Owns
    <3>4. CASE postPass'[w].st = "complete"
      <4>1. Owns(w, d)' /\ S!At(w, "complete")' /\ postPass'[w].cur = d
        BY <1>1, <1>2, <2>3, <3>4 DEF Owns, S!At
      <4>2. Posted(d)'
        BY <4>1 DEF Posted
      <4>3. Owed(d)' = 0
        BY <4>2 DEF Owed
      <4>4. postSent'[d] = postSent[d] + 1 /\ postFaults' = postFaults
        BY <1>1, <3>4
      <4> QED  BY <1>2, <2>3, <2>9, <3>1, <3>3, <4>3, <4>4 DEF ScheduleInv, Accounted, Excused
    <3>5. CASE postPass'[w].st = "retry"
      <4>1. postSent'[d] \in {postSent[d], postSent[d] + 1} /\ postFaults' = postFaults + 1
        BY <1>1, <3>5
      <4> QED  BY <1>2, <2>3, <2>9, <3>1, <3>3, <4>1 DEF ScheduleInv, Accounted, Excused
    <3> QED  BY <1>1, <3>4, <3>5
  <2> QED  BY <2>1, <2>2, <2>3
<1> QED  BY <1>6, <1>7, <1>8, <1>9 DEF ScheduleInv, Accounted, Excused

\* The owner completes it and moves the entry along; a failure leaves the row.
LEMMA CompleteKeeps ==
  ASSUME S!ScheduleAssumption, ScheduleInv, NEW w \in Posters, S!Complete(w)
  PROVE  ScheduleInv'
<1>t. /\ occ \in [S!Days -> Rows] /\ postPass \in [Posters -> Passes]
      /\ postSent \in [S!Days -> Nat] /\ reborn \in [S!Days -> Nat]
      /\ postDay \in 0..MaxDays /\ anchored \in 0..MaxDays
      /\ entry \in [exists : BOOLEAN, enabled : BOOLEAN, lastRun : 0..MaxDays]
      /\ postPasses \in 0..MaxPasses /\ postFaults \in 0..MaxPostFaults
          /\ edits \in 0..MaxEdits
      /\ Aimed /\ Blank
  BY ScheduleParts DEF ScheduleInv
<1>c. /\ MaxDays \in Nat /\ MaxPasses \in Nat /\ MaxPostFaults \in Nat /\ MaxEdits \in Nat
      /\ S!Days \subseteq 0..MaxDays /\ Nobody \notin Posters
  BY DaysFacts
<1>a. postPass[w].st = "complete" /\ postPass[w].cur \in S!Days
  BY <1>t DEF S!Complete, S!At, Aimed
<1>d. PICK d \in S!Days : d = postPass[w].cur
  BY <1>a
<1>1. /\ postPass' \in [Posters -> Passes] /\ postPass'[w].st = "claim" /\ postPass'[w].cur = d
      /\ \A v \in Posters \ {w} : postPass'[v] = postPass[v]
      /\ entry' \in [exists : BOOLEAN, enabled : BOOLEAN, lastRun : 0..MaxDays]
      /\ entry'.exists = entry.exists
      /\ \/ S!Held(w) /\ occ' = [occ EXCEPT ![d] = S!NoRow] /\ postFaults' = postFaults
         \/ /\ S!Held(w) /\ occ' = occ /\ postFaults' = postFaults + 1
            /\ postFaults < MaxPostFaults
         \/ ~S!Held(w) /\ occ' = occ /\ postFaults' = postFaults
  <2>1. S!Go(w, "claim")
    BY DEF S!Complete
  <2>2. postPass[w].now \in 0..MaxDays
    BY <1>t DEF Passes
  <2>3. entry' = entry \/ entry' = [entry EXCEPT !.lastRun = postPass[w].now]
    BY DEF S!Complete
  <2>4. /\ entry' \in [exists : BOOLEAN, enabled : BOOLEAN, lastRun : 0..MaxDays]
        /\ entry'.exists = entry.exists
    BY <1>t, <2>2, <2>3
  <2>5. \/ S!Held(w) /\ occ' = [occ EXCEPT ![d] = S!NoRow] /\ postFaults' = postFaults
        \/ /\ S!Held(w) /\ occ' = occ /\ postFaults' = postFaults + 1
           /\ postFaults < MaxPostFaults
        \/ ~S!Held(w) /\ occ' = occ /\ postFaults' = postFaults
    BY <1>d DEF S!Complete, S!Fine, S!Fault
  <2> QED  BY <1>t, <1>d, <2>1, <2>4, <2>5, GoForm
<1>2. /\ occ' \in [S!Days -> Rows] /\ \A e \in S!Days \ {d} : occ'[e] = occ[e]
      /\ occ'[d] = occ[d] \/ (S!Held(w) /\ occ'[d] = S!NoRow)
  <2>1. CASE occ' = occ
    BY <1>t, <2>1
  <2>2. CASE S!Held(w) /\ occ' = [occ EXCEPT ![d] = S!NoRow]
    <3>1. occ' \in [S!Days -> Rows] /\ occ'[d] = S!NoRow /\ \A e \in S!Days \ {d} :
              occ'[e] = occ[e]
      BY <1>t, <2>2, RowKinds, RowForm
    <3> QED  BY <2>2, <3>1
  <2> QED  BY <1>1, <2>1, <2>2
<1>3. postSent' = postSent /\ reborn' = reborn
  BY DEF S!Complete
<1>6. S!TypeOK'
  BY <1>t, <1>c, <1>1, <1>2 DEF S!Complete, S!Fine, S!Fault, S!Edit, S!TypeOK, Rows, Passes
<1>7. Aimed'
  BY <1>t, <1>c, <1>1 DEF S!Complete, Aimed, S!At
<1>8. Blank'
  BY <1>t, <1>c, <1>1, <1>2 DEF S!Complete, Blank
<1>9. ASSUME NEW e \in S!Days
      PROVE  /\ postSent'[e] + Cardinality(Strays(e)') + Owed(e)'
                  <= 1 + postFaults' + reborn'[e]
             /\ entry'.exists => Cardinality(Strays(e)') <= postFaults' + reborn'[e]
  <2>9. /\ postFaults' \in Nat /\ postFaults \in Nat /\ reborn'[e] = reborn[e]
            /\ reborn[e] \in Nat
        /\ postSent[e] \in Nat /\ Owed(e) \in {0, 1} /\ Owed(e)' \in {0, 1}
        /\ Cardinality(Strays(e)) \in Nat /\ IsFiniteSet(Strays(e))
    BY <1>t, <1>c, StraysCounted DEF S!Complete, S!Fine, S!Fault, Owed
  <2>0. postSent'[e] = postSent[e] /\ reborn'[e] = reborn[e] /\ entry'.exists = entry.exists
    BY <1>3, <1>1
  <2>1. CASE e # d
    <3>1. Strays(e)' = Strays(e)
      BY <1>t, <1>1, <1>2, <1>a, <1>d, <2>1 DEF Strays, Owns, S!At
    <3>2. Posted(e)' <=> Posted(e)
      BY <1>t, <1>1, <1>2, <1>a, <1>d, <2>1 DEF Posted, Owns, S!At
    <3>3. Owed(e)' = Owed(e)
      BY <1>1, <1>2, <2>1, <3>2 DEF Owed
    <3>4. postFaults' >= postFaults
      BY <1>1, <2>9
    <3> QED  BY <2>0, <2>9, <3>1, <3>3, <3>4 DEF ScheduleInv, Accounted, Excused
  <2>2. CASE e = d
    <3>1. Strays(d)' = Strays(d)
      <4>1. w \notin Strays(d) /\ w \notin Strays(d)'
        BY <1>1, <1>a DEF Strays, S!At
      <4>2. ASSUME NEW v \in Posters \ {w}
            PROVE  Owns(v, d)' <=> Owns(v, d)
        BY <1>1, <1>2, <1>d, <1>c, RowKinds DEF Owns, S!Held
      <4>3. \A v \in Posters \ {w} : v \in Strays(d)' <=> v \in Strays(d)
        BY <1>1, <4>2 DEF Strays, S!At
      <4>4. Strays(d) \subseteq Posters /\ Strays(d)' \subseteq Posters
        BY DEF Strays
      <4> QED  BY <4>1, <4>3, <4>4
    <3>2. Owed(d)' <= Owed(d) + (postFaults' - postFaults)
      <4>1. CASE S!Held(w) /\ occ' = [occ EXCEPT ![d] = S!NoRow] /\ postFaults' = postFaults
        <5>1. ~occ'[d].row
          BY <1>t, <4>1, RowKinds
        <5>2. Owed(d)' = 0
          BY <5>1 DEF Owed
        <5> QED  BY <2>2, <2>9, <4>1, <5>2
      <4>2. CASE postFaults' = postFaults + 1
        BY <2>2, <2>9, <4>2
      <4>3. CASE ~S!Held(w) /\ occ' = occ /\ postFaults' = postFaults
        <5>1. ~Owns(w, d)
          BY <1>d, <4>3 DEF Owns, S!Held
        <5>2. Posted(d)' <=> Posted(d)
          BY <1>1, <4>3, <5>1 DEF Posted, Owns, S!At
        <5>3. Owed(d)' = Owed(d)
          BY <4>3, <5>2 DEF Owed
        <5> QED  BY <2>2, <2>9, <4>3, <5>3
      <4> QED  BY <1>1, <4>1, <4>2, <4>3
    <3>3. postFaults' >= postFaults
      BY <1>1, <2>9
    <3> QED  BY <2>0, <2>2, <2>9, <3>1, <3>2, <3>3 DEF ScheduleInv, Accounted, Excused
  <2> QED  BY <2>1, <2>2
<1> QED  BY <1>6, <1>7, <1>8, <1>9 DEF ScheduleInv, Accounted, Excused

\* A failed one waits for its owner or another.
LEMMA RetryKeeps ==
  ASSUME S!ScheduleAssumption, ScheduleInv, NEW w \in Posters, S!Retry(w)
  PROVE  ScheduleInv'
<1>t. /\ occ \in [S!Days -> Rows] /\ postPass \in [Posters -> Passes]
      /\ postSent \in [S!Days -> Nat] /\ reborn \in [S!Days -> Nat]
      /\ postDay \in 0..MaxDays /\ anchored \in 0..MaxDays
      /\ entry \in [exists : BOOLEAN, enabled : BOOLEAN, lastRun : 0..MaxDays]
      /\ postPasses \in 0..MaxPasses /\ postFaults \in 0..MaxPostFaults
          /\ edits \in 0..MaxEdits
      /\ Aimed /\ Blank
  BY ScheduleParts DEF ScheduleInv
<1>c. /\ MaxDays \in Nat /\ MaxPasses \in Nat /\ MaxPostFaults \in Nat /\ MaxEdits \in Nat
      /\ S!Days \subseteq 0..MaxDays /\ Nobody \notin Posters
  BY DaysFacts
<1>a. postPass[w].st = "retry" /\ postPass[w].cur \in S!Days
  BY <1>t DEF S!Retry, S!At, Aimed
<1>d. PICK d \in S!Days : d = postPass[w].cur
  BY <1>a
<1>1. /\ postPass' \in [Posters -> Passes] /\ postPass'[w].st = "claim" /\ postPass'[w].cur = d
      /\ \A v \in Posters \ {w} : postPass'[v] = postPass[v]
      /\ \/ S!Held(w)
          /\ occ' = [occ EXCEPT ![d] = [S!NoRow EXCEPT !.row = TRUE, !.wait = TRUE]]
         \/ ~S!Held(w) /\ occ' = occ
  <2>1. S!Go(w, "claim")
    BY DEF S!Retry
  <2>2. \/ S!Held(w) /\ occ' = [occ EXCEPT ![d] = [S!NoRow EXCEPT !.row = TRUE, !.wait = TRUE]]
        \/ ~S!Held(w) /\ occ' = occ
    BY <1>d DEF S!Retry
  <2> QED  BY <1>t, <1>d, <2>1, <2>2, GoForm
<1>2. /\ occ' \in [S!Days -> Rows] /\ \A e \in S!Days \ {d} : occ'[e] = occ[e]
      /\ \/ S!Held(w) /\ occ'[d].row /\ occ'[d].holder = Nobody
         \/ ~S!Held(w) /\ occ'[d] = occ[d]
  <2>1. CASE ~S!Held(w) /\ occ' = occ
    BY <1>t, <2>1
  <2>2. CASE S!Held(w) /\ occ' = [occ EXCEPT ![d] = [S!NoRow EXCEPT !.row = TRUE,
  !.wait = TRUE]]
    <3> DEFINE r == [S!NoRow EXCEPT !.row = TRUE, !.wait = TRUE]
    <3>1. r \in Rows /\ r.row /\ r.holder = Nobody
      BY RowKinds
    <3>2. occ' \in [S!Days -> Rows] /\ occ'[d] = r /\ \A e \in S!Days \ {d} : occ'[e] = occ[e]
      BY <1>t, <2>2, <3>1, RowForm
    <3> QED  BY <2>2, <3>1, <3>2
  <2> QED  BY <1>1, <2>1, <2>2
<1>3. postSent' = postSent /\ reborn' = reborn /\ entry' = entry /\ postFaults' = postFaults
  BY DEF S!Retry
<1>6. S!TypeOK'
  BY <1>t, <1>c, <1>1, <1>2 DEF S!Retry, S!Fine, S!Fault, S!Edit, S!TypeOK, Rows, Passes
<1>7. Aimed'
  BY <1>t, <1>c, <1>1 DEF S!Retry, Aimed, S!At
<1>8. Blank'
  BY <1>t, <1>c, <1>1, <1>2 DEF S!Retry, Blank
<1>9. ASSUME NEW e \in S!Days
      PROVE  /\ postSent'[e] + Cardinality(Strays(e)') + Owed(e)'
                  <= 1 + postFaults' + reborn'[e]
             /\ entry'.exists => Cardinality(Strays(e)') <= postFaults' + reborn'[e]
  <2>9. /\ postFaults' \in Nat /\ postFaults \in Nat /\ reborn'[e] = reborn[e]
            /\ reborn[e] \in Nat
        /\ postSent[e] \in Nat /\ Owed(e) \in {0, 1} /\ Owed(e)' \in {0, 1}
        /\ Cardinality(Strays(e)) \in Nat /\ IsFiniteSet(Strays(e))
    BY <1>t, <1>c, StraysCounted DEF S!Retry, S!Fine, S!Fault, Owed
  <2>1. CASE e # d
    <3>1. Strays(e)' = Strays(e)
      BY <1>t, <1>1, <1>2, <1>a, <1>d, <2>1 DEF Strays, Owns, S!At
    <3>2. Posted(e)' <=> Posted(e)
      BY <1>t, <1>1, <1>2, <1>a, <1>d, <2>1 DEF Posted, Owns, S!At
    <3>3. Owed(e)' = Owed(e)
      BY <1>1, <1>2, <2>1, <3>2 DEF Owed
    <3> QED  BY <1>3, <2>9, <3>1, <3>3 DEF ScheduleInv, Accounted, Excused
  <2>2. CASE e = d
    <3>1. Strays(d)' = Strays(d)
      <4>1. w \notin Strays(d) /\ w \notin Strays(d)'
        BY <1>1, <1>a DEF Strays, S!At
      <4>2. ASSUME NEW v \in Posters \ {w}
            PROVE  Owns(v, d)' <=> Owns(v, d)
        BY <1>1, <1>2, <1>d, <1>c DEF Owns, S!Held
      <4>3. \A v \in Posters \ {w} : v \in Strays(d)' <=> v \in Strays(d)
        BY <1>1, <4>2 DEF Strays, S!At
      <4>4. Strays(d) \subseteq Posters /\ Strays(d)' \subseteq Posters
        BY DEF Strays
      <4> QED  BY <4>1, <4>3, <4>4
    <3>2. Owed(d)' <= Owed(d)
      <4>1. CASE S!Held(w)
        <5>1. ~Posted(d) /\ occ[d].row
          BY <1>a, <1>d, <4>1 DEF Posted, Owns, S!Held, S!At
        <5>2. Owed(d) = 1
          BY <5>1 DEF Owed
        <5> QED  BY <2>2, <2>9, <5>2
      <4>2. CASE ~S!Held(w)
        <5>1. Posted(d)' <=> Posted(d)
          BY <1>1, <1>2, <1>a, <4>2 DEF Posted, Owns, S!At
        <5>2. Owed(d)' = Owed(d)
          BY <1>2, <4>2, <5>1 DEF Owed
        <5> QED  BY <2>2, <2>9, <5>2
      <4> QED  BY <4>1, <4>2
    <3> QED  BY <1>3, <2>2, <2>9, <3>1, <3>2 DEF ScheduleInv, Accounted, Excused
  <2> QED  BY <2>1, <2>2
<1> QED  BY <1>6, <1>7, <1>8, <1>9 DEF ScheduleInv, Accounted, Excused

\* A pass is cut off.
LEMMA CutOffKeeps ==
  ASSUME S!ScheduleAssumption, ScheduleInv, NEW w \in Posters, S!CutOff(w)
  PROVE  ScheduleInv'
<1>t. /\ occ \in [S!Days -> Rows] /\ postPass \in [Posters -> Passes]
      /\ postSent \in [S!Days -> Nat] /\ reborn \in [S!Days -> Nat]
      /\ postDay \in 0..MaxDays /\ anchored \in 0..MaxDays
      /\ entry \in [exists : BOOLEAN, enabled : BOOLEAN, lastRun : 0..MaxDays]
      /\ postPasses \in 0..MaxPasses /\ postFaults \in 0..MaxPostFaults
          /\ edits \in 0..MaxEdits
      /\ Aimed /\ Blank
  BY ScheduleParts DEF ScheduleInv
<1>c. /\ MaxDays \in Nat /\ MaxPasses \in Nat /\ MaxPostFaults \in Nat /\ MaxEdits \in Nat
      /\ S!Days \subseteq 0..MaxDays /\ Nobody \notin Posters
  BY DaysFacts
<1>a. S!NoPass \in Passes /\ S!NoPass.st = "idle"
  BY <1>c DEF S!NoPass, Passes
<1>1. /\ postPass' \in [Posters -> Passes] /\ postPass'[w].st = "idle"
      /\ \A v \in Posters \ {w} : postPass'[v] = postPass[v]
      /\ postFaults' = postFaults + 1 /\ postFaults < MaxPostFaults
      /\ occ' = occ /\ postSent' = postSent /\ reborn' = reborn /\ entry' = entry
  BY <1>t, <1>a DEF S!CutOff, S!Fault
<1>6. S!TypeOK'
  BY <1>t, <1>c, <1>1 DEF S!CutOff, S!Fine, S!Fault, S!Edit, S!TypeOK, Rows, Passes
<1>7. Aimed'
  BY <1>t, <1>c, <1>1 DEF S!CutOff, Aimed, S!At
<1>8. Blank'
  BY <1>t, <1>c, <1>1 DEF S!CutOff, Blank
<1>9. ASSUME NEW e \in S!Days
      PROVE  /\ postSent'[e] + Cardinality(Strays(e)') + Owed(e)'
                  <= 1 + postFaults' + reborn'[e]
             /\ entry'.exists => Cardinality(Strays(e)') <= postFaults' + reborn'[e]
  <2>9. /\ postFaults' \in Nat /\ postFaults \in Nat /\ reborn'[e] = reborn[e]
            /\ reborn[e] \in Nat
        /\ postSent[e] \in Nat /\ Owed(e) \in {0, 1} /\ Owed(e)' \in {0, 1}
        /\ Cardinality(Strays(e)) \in Nat /\ IsFiniteSet(Strays(e))
    BY <1>t, <1>c, StraysCounted DEF S!CutOff, S!Fine, S!Fault, Owed
  <2>1. Strays(e)' \subseteq Strays(e)
    BY <1>1 DEF Strays, Owns, S!At
  <2>2. Cardinality(Strays(e)') \in Nat /\ Cardinality(Strays(e)') <= Cardinality(Strays(e))
    BY <2>1, <2>9, CardWithin
  <2> QED  BY <1>1, <2>2, <2>9 DEF ScheduleInv, Accounted, Excused
<1> QED  BY <1>6, <1>7, <1>8, <1>9 DEF ScheduleInv, Accounted, Excused

\* A day passes.
LEMMA NextDayKeeps ==
  ASSUME S!ScheduleAssumption, ScheduleInv, S!NextDay
  PROVE  ScheduleInv'
<1>t. /\ occ \in [S!Days -> Rows] /\ postPass \in [Posters -> Passes]
      /\ postSent \in [S!Days -> Nat] /\ reborn \in [S!Days -> Nat]
      /\ postDay \in 0..MaxDays /\ anchored \in 0..MaxDays
      /\ entry \in [exists : BOOLEAN, enabled : BOOLEAN, lastRun : 0..MaxDays]
      /\ postPasses \in 0..MaxPasses /\ postFaults \in 0..MaxPostFaults
          /\ edits \in 0..MaxEdits
      /\ Aimed /\ Blank
  BY ScheduleParts DEF ScheduleInv
<1>c. /\ MaxDays \in Nat /\ MaxPasses \in Nat /\ MaxPostFaults \in Nat /\ MaxEdits \in Nat
      /\ S!Days \subseteq 0..MaxDays /\ Nobody \notin Posters
  BY DaysFacts
<1>1. postDay' \in 0..MaxDays
  BY <1>t, <1>c DEF S!NextDay
<1>6. S!TypeOK'
  BY <1>t, <1>c, <1>1 DEF S!NextDay, S!Fine, S!Fault, S!Edit, S!TypeOK, Rows, Passes
<1>7. Aimed'
  BY <1>t, <1>c, <1>1 DEF S!NextDay, Aimed, S!At
<1>8. Blank'
  BY <1>t, <1>c, <1>1 DEF S!NextDay, Blank
<1>9. ASSUME NEW d \in S!Days
      PROVE  /\ postSent'[d] + Cardinality(Strays(d)') + Owed(d)'
                  <= 1 + postFaults' + reborn'[d]
             /\ entry'.exists => Cardinality(Strays(d)') <= postFaults' + reborn'[d]
  <2>1. Strays(d)' = Strays(d) /\ Owed(d)' = Owed(d)
    BY <1>t, <1>1, <1>c DEF S!NextDay, Strays, Owed, Posted, Owns, S!At
  <2>2. /\ postSent'[d] = postSent[d] /\ reborn'[d] = reborn[d] /\ postFaults' = postFaults
        /\ entry'.exists => entry.exists
    BY <1>t DEF S!NextDay, S!Edit
  <2> QED  BY <1>t, <2>1, <2>2 DEF ScheduleInv, Accounted, Excused
<1> QED  BY <1>6, <1>7, <1>8, <1>9 DEF ScheduleInv, Accounted, Excused

\* A failed occurrence may be tried again.
LEMMA BackoffEndsKeeps ==
  ASSUME S!ScheduleAssumption, ScheduleInv, NEW b \in S!Days, S!BackoffEnds(b)
  PROVE  ScheduleInv'
<1>t. /\ occ \in [S!Days -> Rows] /\ postPass \in [Posters -> Passes]
      /\ postSent \in [S!Days -> Nat] /\ reborn \in [S!Days -> Nat]
      /\ postDay \in 0..MaxDays /\ anchored \in 0..MaxDays
      /\ entry \in [exists : BOOLEAN, enabled : BOOLEAN, lastRun : 0..MaxDays]
      /\ postPasses \in 0..MaxPasses /\ postFaults \in 0..MaxPostFaults
          /\ edits \in 0..MaxEdits
      /\ Aimed /\ Blank
  BY ScheduleParts DEF ScheduleInv
<1>c. /\ MaxDays \in Nat /\ MaxPasses \in Nat /\ MaxPostFaults \in Nat /\ MaxEdits \in Nat
      /\ S!Days \subseteq 0..MaxDays /\ Nobody \notin Posters
  BY DaysFacts
<1>1. /\ occ' \in [S!Days -> Rows]
      /\ \A d \in S!Days : /\ occ'[d].row = occ[d].row /\ occ'[d].holder = occ[d].holder
                           /\ occ'[d].lapsed = occ[d].lapsed
      /\ \A d \in S!Days \ {b} : occ'[d] = occ[d]
  <2> DEFINE r == [occ[b] EXCEPT !.wait = FALSE]
  <2>1. occ' = [occ EXCEPT ![b] = r]
    BY DEF S!BackoffEnds
  <2>2. r \in Rows /\ r.row = occ[b].row /\ r.holder = occ[b].holder
        /\ r.lapsed = occ[b].lapsed
    BY <1>t, FreshRow
  <2>3. occ' \in [S!Days -> Rows] /\ occ'[b] = r /\ \A d \in S!Days \ {b} : occ'[d] = occ[d]
    BY <1>t, <2>1, <2>2, RowForm
  <2> QED  BY <2>2, <2>3
<1>2. occ[b].row
  BY <1>t DEF S!BackoffEnds, Blank, S!NoRow
<1>6. S!TypeOK'
  BY <1>t, <1>c, <1>1 DEF S!BackoffEnds, S!Fine, S!Fault, S!Edit, S!TypeOK, Rows, Passes
<1>7. Aimed'
  BY <1>t, <1>c, <1>1 DEF S!BackoffEnds, Aimed, S!At
<1>8. Blank'
  BY <1>t, <1>c, <1>1, <1>2 DEF S!BackoffEnds, Blank
<1>9. ASSUME NEW d \in S!Days
      PROVE  /\ postSent'[d] + Cardinality(Strays(d)') + Owed(d)'
                  <= 1 + postFaults' + reborn'[d]
             /\ entry'.exists => Cardinality(Strays(d)') <= postFaults' + reborn'[d]
  <2>1. Strays(d)' = Strays(d) /\ Owed(d)' = Owed(d)
    BY <1>t, <1>1, <1>c DEF S!BackoffEnds, Strays, Owed, Posted, Owns, S!At
  <2>2. /\ postSent'[d] = postSent[d] /\ reborn'[d] = reborn[d] /\ postFaults' = postFaults
        /\ entry'.exists => entry.exists
    BY <1>t DEF S!BackoffEnds, S!Edit
  <2> QED  BY <1>t, <2>1, <2>2 DEF ScheduleInv, Accounted, Excused
<1> QED  BY <1>6, <1>7, <1>8, <1>9 DEF ScheduleInv, Accounted, Excused

\* A lease ends.
LEMMA LeaseLapsesKeeps ==
  ASSUME S!ScheduleAssumption, ScheduleInv, NEW b \in S!Days, S!LeaseLapses(b)
  PROVE  ScheduleInv'
<1>t. /\ occ \in [S!Days -> Rows] /\ postPass \in [Posters -> Passes]
      /\ postSent \in [S!Days -> Nat] /\ reborn \in [S!Days -> Nat]
      /\ postDay \in 0..MaxDays /\ anchored \in 0..MaxDays
      /\ entry \in [exists : BOOLEAN, enabled : BOOLEAN, lastRun : 0..MaxDays]
      /\ postPasses \in 0..MaxPasses /\ postFaults \in 0..MaxPostFaults
          /\ edits \in 0..MaxEdits
      /\ Aimed /\ Blank
  BY ScheduleParts DEF ScheduleInv
<1>c. /\ MaxDays \in Nat /\ MaxPasses \in Nat /\ MaxPostFaults \in Nat /\ MaxEdits \in Nat
      /\ S!Days \subseteq 0..MaxDays /\ Nobody \notin Posters
  BY DaysFacts
<1>a. occ[b].holder \in Posters /\ occ[b].row
  BY <1>t DEF S!LeaseLapses, Blank, S!NoRow, Rows
<1>w. PICK w \in Posters : w = occ[b].holder
  BY <1>a
<1>1. /\ occ' \in [S!Days -> Rows] /\ \A d \in S!Days \ {b} : occ'[d] = occ[d]
      /\ occ'[b].row /\ occ'[b].holder = w /\ occ'[b].lapsed /\ ~occ[b].lapsed
  <2>1. occ' = [occ EXCEPT ![b] = [occ[b] EXCEPT !.lapsed = TRUE]] /\ ~occ[b].lapsed
    BY DEF S!LeaseLapses
  <2>2. occ[b] \in Rows
    BY <1>t
  <2> DEFINE r == [occ[b] EXCEPT !.lapsed = TRUE]
  <2>3. r \in Rows /\ r.row = occ[b].row /\ r.holder = occ[b].holder /\ r.lapsed
    BY <2>2, LapsedRow
  <2>4. occ' = [occ EXCEPT ![b] = r]
    BY <2>1
  <2>5. occ' \in [S!Days -> Rows] /\ occ'[b] = r /\ \A d \in S!Days \ {b} : occ'[d] = occ[d]
    BY <1>t, <2>3, <2>4, RowForm
  <2> QED  BY <1>a, <1>w, <2>1, <2>3, <2>5
<1>2. /\ postPass' = postPass /\ postSent' = postSent /\ reborn' = reborn /\ entry' = entry
      /\ IF postPass[w].st \in {"deliver", "complete", "retry"} /\ postPass[w].cur = b
         THEN postFaults < MaxPostFaults /\ postFaults' = postFaults + 1
         ELSE postFaults' = postFaults
  BY <1>w DEF S!LeaseLapses, S!Fault, S!Fine
<1>6. S!TypeOK'
  BY <1>t, <1>c, <1>1, <1>2 DEF S!LeaseLapses, S!Fine, S!Fault, S!Edit, S!TypeOK, Rows, Passes
<1>7. Aimed'
  BY <1>t, <1>c, <1>1, <1>2 DEF S!LeaseLapses, Aimed, S!At
<1>8. Blank'
  BY <1>t, <1>c, <1>1 DEF S!LeaseLapses, Blank
<1>9. ASSUME NEW e \in S!Days
      PROVE  /\ postSent'[e] + Cardinality(Strays(e)') + Owed(e)'
                  <= 1 + postFaults' + reborn'[e]
             /\ entry'.exists => Cardinality(Strays(e)') <= postFaults' + reborn'[e]
  <2>9. /\ postFaults' \in Nat /\ postFaults \in Nat /\ reborn'[e] = reborn[e]
            /\ reborn[e] \in Nat
        /\ postSent[e] \in Nat /\ Owed(e) \in {0, 1} /\ Owed(e)' \in {0, 1}
        /\ Cardinality(Strays(e)) \in Nat /\ IsFiniteSet(Strays(e))
    BY <1>t, <1>c, <1>2, StraysCounted DEF S!LeaseLapses, S!Fine, S!Fault, Owed
  <2>1. CASE e # b
    <3>1. Strays(e)' = Strays(e) /\ (Posted(e)' <=> Posted(e))
      BY <1>1, <1>2, <2>1 DEF Strays, Posted, Owns, S!At
    <3>2. Owed(e)' = Owed(e)
      BY <1>1, <2>1, <3>1 DEF Owed
    <3>3. postFaults' >= postFaults
      BY <1>2, <2>9
    <3> QED  BY <1>2, <2>9, <3>1, <3>2, <3>3 DEF ScheduleInv, Accounted, Excused
  <2>2. CASE e = b /\ postPass[w].st = "deliver" /\ postPass[w].cur = b
    <3>1. Strays(b)' \subseteq Strays(b) \cup {w}
      BY <1>1, <1>2, <1>w DEF Strays, Owns, S!At
    <3>2. Cardinality(Strays(b)') \in Nat
              /\ Cardinality(Strays(b)') <= Cardinality(Strays(b)) + 1
      BY <2>2, <2>9, <3>1, CardMore
    <3>3. ~Posted(b)
      BY <1>w, <2>2 DEF Posted, Owns, S!At
    <3>4. Owed(b) = 1
      BY <1>a, <3>3 DEF Owed
    <3>5. postFaults' = postFaults + 1
      BY <1>2, <2>2
    <3> QED  BY <1>2, <2>2, <2>9, <3>2, <3>4, <3>5 DEF ScheduleInv, Accounted, Excused
  <2>3. CASE e = b /\ ~(postPass[w].st = "deliver" /\ postPass[w].cur = b)
    <3>1. Strays(b)' = Strays(b)
      <4>1. \A v \in Posters \ {w} : ~Owns(v, b) /\ ~Owns(v, b)'
        BY <1>1, <1>w DEF Owns
      <4>2. \A v \in Posters : v \in Strays(b)' <=> v \in Strays(b)
        BY <1>2, <2>3, <4>1 DEF Strays, S!At
      <4>3. Strays(b)' \subseteq Posters /\ Strays(b) \subseteq Posters
        BY DEF Strays
      <4> QED  BY <4>2, <4>3
    <3>2. Owed(b)' <= Owed(b) + (postFaults' - postFaults)
      <4>1. CASE postPass[w].st = "complete" /\ postPass[w].cur = b
        <5>1. postFaults' = postFaults + 1
          BY <1>2, <4>1
        <5> QED  BY <2>3, <2>9, <5>1
      <4>2. CASE ~(postPass[w].st = "complete" /\ postPass[w].cur = b)
        <5>1. ~Posted(b)
          BY <1>w, <4>2 DEF Posted, Owns, S!At
        <5>2. Owed(b) = 1
          BY <1>a, <5>1 DEF Owed
        <5>3. postFaults' >= postFaults
          BY <1>2, <2>9
        <5> QED  BY <2>3, <2>9, <5>2, <5>3
      <4> QED  BY <4>1, <4>2
    <3>3. postFaults' >= postFaults
      BY <1>2, <2>9
    <3> QED  BY <1>2, <2>3, <2>9, <3>1, <3>2, <3>3 DEF ScheduleInv, Accounted, Excused
  <2> QED  BY <2>1, <2>2, <2>3
<1> QED  BY <1>6, <1>7, <1>8, <1>9 DEF ScheduleInv, Accounted, Excused

\* The entry is disabled,
LEMMA DisableKeeps ==
  ASSUME S!ScheduleAssumption, ScheduleInv, S!Disable
  PROVE  ScheduleInv'
<1>t. /\ occ \in [S!Days -> Rows] /\ postPass \in [Posters -> Passes]
      /\ postSent \in [S!Days -> Nat] /\ reborn \in [S!Days -> Nat]
      /\ postDay \in 0..MaxDays /\ anchored \in 0..MaxDays
      /\ entry \in [exists : BOOLEAN, enabled : BOOLEAN, lastRun : 0..MaxDays]
      /\ postPasses \in 0..MaxPasses /\ postFaults \in 0..MaxPostFaults
          /\ edits \in 0..MaxEdits
      /\ Aimed /\ Blank
  BY ScheduleParts DEF ScheduleInv
<1>c. /\ MaxDays \in Nat /\ MaxPasses \in Nat /\ MaxPostFaults \in Nat /\ MaxEdits \in Nat
      /\ S!Days \subseteq 0..MaxDays /\ Nobody \notin Posters
  BY DaysFacts
<1>1. /\ entry' \in [exists : BOOLEAN, enabled : BOOLEAN, lastRun : 0..MaxDays]
      /\ entry'.exists = entry.exists
  BY <1>t DEF S!Disable
<1>6. S!TypeOK'
  BY <1>t, <1>c, <1>1 DEF S!Disable, S!Fine, S!Fault, S!Edit, S!TypeOK, Rows, Passes
<1>7. Aimed'
  BY <1>t, <1>c, <1>1 DEF S!Disable, Aimed, S!At
<1>8. Blank'
  BY <1>t, <1>c, <1>1 DEF S!Disable, Blank
<1>9. ASSUME NEW d \in S!Days
      PROVE  /\ postSent'[d] + Cardinality(Strays(d)') + Owed(d)'
                  <= 1 + postFaults' + reborn'[d]
             /\ entry'.exists => Cardinality(Strays(d)') <= postFaults' + reborn'[d]
  <2>1. Strays(d)' = Strays(d) /\ Owed(d)' = Owed(d)
    BY <1>t, <1>1, <1>c DEF S!Disable, Strays, Owed, Posted, Owns, S!At
  <2>2. /\ postSent'[d] = postSent[d] /\ reborn'[d] = reborn[d] /\ postFaults' = postFaults
        /\ entry'.exists => entry.exists
    BY <1>t DEF S!Disable, S!Edit
  <2> QED  BY <1>t, <2>1, <2>2 DEF ScheduleInv, Accounted, Excused
<1> QED  BY <1>6, <1>7, <1>8, <1>9 DEF ScheduleInv, Accounted, Excused

\* enabled again
LEMMA EnableKeeps ==
  ASSUME S!ScheduleAssumption, ScheduleInv, S!Enable
  PROVE  ScheduleInv'
<1>t. /\ occ \in [S!Days -> Rows] /\ postPass \in [Posters -> Passes]
      /\ postSent \in [S!Days -> Nat] /\ reborn \in [S!Days -> Nat]
      /\ postDay \in 0..MaxDays /\ anchored \in 0..MaxDays
      /\ entry \in [exists : BOOLEAN, enabled : BOOLEAN, lastRun : 0..MaxDays]
      /\ postPasses \in 0..MaxPasses /\ postFaults \in 0..MaxPostFaults
          /\ edits \in 0..MaxEdits
      /\ Aimed /\ Blank
  BY ScheduleParts DEF ScheduleInv
<1>c. /\ MaxDays \in Nat /\ MaxPasses \in Nat /\ MaxPostFaults \in Nat /\ MaxEdits \in Nat
      /\ S!Days \subseteq 0..MaxDays /\ Nobody \notin Posters
  BY DaysFacts
<1>1. /\ entry' \in [exists : BOOLEAN, enabled : BOOLEAN, lastRun : 0..MaxDays]
      /\ entry'.exists = entry.exists
  BY <1>t DEF S!Enable
<1>6. S!TypeOK'
  BY <1>t, <1>c, <1>1 DEF S!Enable, S!Fine, S!Fault, S!Edit, S!TypeOK, Rows, Passes
<1>7. Aimed'
  BY <1>t, <1>c, <1>1 DEF S!Enable, Aimed, S!At
<1>8. Blank'
  BY <1>t, <1>c, <1>1 DEF S!Enable, Blank
<1>9. ASSUME NEW d \in S!Days
      PROVE  /\ postSent'[d] + Cardinality(Strays(d)') + Owed(d)'
                  <= 1 + postFaults' + reborn'[d]
             /\ entry'.exists => Cardinality(Strays(d)') <= postFaults' + reborn'[d]
  <2>1. Strays(d)' = Strays(d) /\ Owed(d)' = Owed(d)
    BY <1>t, <1>1, <1>c DEF S!Enable, Strays, Owed, Posted, Owns, S!At
  <2>2. /\ postSent'[d] = postSent[d] /\ reborn'[d] = reborn[d] /\ postFaults' = postFaults
        /\ entry'.exists => entry.exists
    BY <1>t DEF S!Enable, S!Edit
  <2> QED  BY <1>t, <2>1, <2>2 DEF ScheduleInv, Accounted, Excused
<1> QED  BY <1>6, <1>7, <1>8, <1>9 DEF ScheduleInv, Accounted, Excused

\* or deleted with its occurrences.
LEMMA DeleteEntryKeeps ==
  ASSUME S!ScheduleAssumption, ScheduleInv, S!Delete
  PROVE  ScheduleInv'
<1>t. /\ occ \in [S!Days -> Rows] /\ postPass \in [Posters -> Passes]
      /\ postSent \in [S!Days -> Nat] /\ reborn \in [S!Days -> Nat]
      /\ postDay \in 0..MaxDays /\ anchored \in 0..MaxDays
      /\ entry \in [exists : BOOLEAN, enabled : BOOLEAN, lastRun : 0..MaxDays]
      /\ postPasses \in 0..MaxPasses /\ postFaults \in 0..MaxPostFaults
          /\ edits \in 0..MaxEdits
      /\ Aimed /\ Blank
  BY ScheduleParts DEF ScheduleInv
<1>c. /\ MaxDays \in Nat /\ MaxPasses \in Nat /\ MaxPostFaults \in Nat /\ MaxEdits \in Nat
      /\ S!Days \subseteq 0..MaxDays /\ Nobody \notin Posters
  BY DaysFacts
<1>1. /\ entry' \in [exists : BOOLEAN, enabled : BOOLEAN, lastRun : 0..MaxDays]
      /\ ~entry'.exists
  BY <1>t DEF S!Delete
<1>2. /\ occ' \in [S!Days -> Rows] /\ \A d \in S!Days : occ'[d] = S!NoRow /\ ~occ'[d].row
  BY RowKinds DEF S!Delete
<1>3. postSent' = postSent /\ reborn' = reborn /\ postFaults' = postFaults
          /\ postPass' = postPass
  BY DEF S!Delete
<1>6. S!TypeOK'
  BY <1>t, <1>c, <1>1, <1>2 DEF S!Delete, S!Fine, S!Fault, S!Edit, S!TypeOK, Rows, Passes
<1>7. Aimed'
  BY <1>t, <1>c, <1>1 DEF S!Delete, Aimed, S!At
<1>8. Blank'
  BY <1>t, <1>c, <1>1, <1>2 DEF S!Delete, Blank
<1>9. ASSUME NEW e \in S!Days
      PROVE  /\ postSent'[e] + Cardinality(Strays(e)') + Owed(e)'
                  <= 1 + postFaults' + reborn'[e]
             /\ entry'.exists => Cardinality(Strays(e)') <= postFaults' + reborn'[e]
  <2>9. /\ postFaults' \in Nat /\ postFaults \in Nat /\ reborn'[e] = reborn[e]
            /\ reborn[e] \in Nat
        /\ postSent[e] \in Nat /\ Owed(e) \in {0, 1} /\ Owed(e)' \in {0, 1}
        /\ Cardinality(Strays(e)) \in Nat /\ IsFiniteSet(Strays(e))
    BY <1>t, <1>c, StraysCounted DEF S!Delete, S!Fine, S!Fault, Owed
  <2>1. Owed(e)' = 0
    BY <1>2 DEF Owed
  <2>2. CASE \E w \in Posters : Owns(w, e) /\ S!At(w, "deliver")
    <3>1. PICK w \in Posters : Owns(w, e) /\ S!At(w, "deliver")
      BY <2>2
    <3>2. Strays(e)' \subseteq Strays(e) \cup {w}
      BY <1>3, <3>1 DEF Strays, Owns, S!At
    <3>3. Cardinality(Strays(e)') \in Nat
              /\ Cardinality(Strays(e)') <= Cardinality(Strays(e)) + 1
      BY <2>9, <3>2, CardMore
    <3>4. ~Posted(e) /\ occ[e].row
      BY <3>1 DEF Posted, Owns, S!At
    <3>5. Owed(e) = 1
      BY <3>4 DEF Owed
    <3> QED  BY <1>1, <1>3, <2>1, <2>9, <3>3, <3>5 DEF ScheduleInv, Accounted
  <2>3. CASE ~\E w \in Posters : Owns(w, e) /\ S!At(w, "deliver")
    <3>1. Strays(e)' \subseteq Strays(e)
      BY <1>3, <2>3 DEF Strays, S!At
    <3>2. Cardinality(Strays(e)') \in Nat /\ Cardinality(Strays(e)') <= Cardinality(Strays(e))
      BY <2>9, <3>1, CardWithin
    <3> QED  BY <1>1, <1>3, <2>1, <2>9, <3>2 DEF ScheduleInv, Accounted
  <2> QED  BY <2>2, <2>3
<1> QED  BY <1>6, <1>7, <1>8, <1>9 DEF ScheduleInv, Accounted, Excused

\* Every step of a schedule keeps the invariant.
LEMMA ScheduleKept ==
  ASSUME S!ScheduleAssumption, ScheduleInv, S!Next
  PROVE  ScheduleInv'
<1> QED
  BY ReadKeeps, PersistDueKeeps, ChooseKeeps, ClaimPostKeeps, DeliverKeeps, CompleteKeeps,
     RetryKeeps, CutOffKeeps, NextDayKeeps, BackoffEndsKeeps, LeaseLapsesKeeps, DisableKeeps,
     EnableKeeps, DeleteEntryKeeps
     DEF S!Next

\* In every state the messages published for a day, those about to be and what is still owed
\* are paid for by failures and by occurrences created again
\* (bot/services/scheduled_messages.py).
THEOREM ScheduleInvariant ==
  ASSUME S!ScheduleAssumption
  PROVE  S!Init /\ [][S!Next]_postVars => []ScheduleInv
<1> USE DEF S!ScheduleAssumption
<1>1. S!Init => ScheduleInv
  <2> SUFFICES ASSUME S!Init PROVE ScheduleInv
    OBVIOUS
  <2>c. /\ MaxDays \in Nat /\ MaxPasses \in Nat /\ MaxPostFaults \in Nat /\ MaxEdits \in Nat
        /\ S!Days \subseteq Nat
    BY DaysFacts
  <2>0. S!NoPass \in Passes /\ S!NoPass.st = "idle"
    BY <2>c DEF S!NoPass, Passes
  <2>1. /\ occ \in [S!Days -> Rows] /\ postPass \in [Posters -> Passes]
        /\ postSent \in [S!Days -> Nat] /\ reborn \in [S!Days -> Nat]
        /\ \A w \in Posters : postPass[w].st = "idle"
    BY <2>0, RowKinds DEF S!Init
  <2>2. S!TypeOK
    BY <2>1, <2>c DEF S!Init, S!TypeOK, Rows, Passes
  <2>3. Aimed /\ Blank
    BY <2>1 DEF S!Init, Aimed, Blank
  <2>4. ASSUME NEW d \in S!Days
        PROVE  postSent[d] = 0 /\ reborn[d] = 0 /\ postFaults = 0 /\ Cardinality(Strays(d)) = 0
               /\ Owed(d) = 0
    <3>1. Strays(d) = {}
      BY <2>1 DEF Strays, S!At
    <3>2. occ[d] = S!NoRow
      BY DEF S!Init
    <3>3. ~occ[d].row
      BY <3>2, RowKinds
    <3> QED  BY <3>1, <3>3, FS_EmptySet DEF S!Init, Owed
  <2>5. Accounted /\ Excused
    BY <2>4 DEF Accounted, Excused
  <2> QED  BY <2>2, <2>3, <2>5 DEF ScheduleInv
<1>2. ScheduleInv /\ [S!Next]_postVars => ScheduleInv'
  <2> SUFFICES ASSUME ScheduleInv, [S!Next]_postVars PROVE ScheduleInv'
    OBVIOUS
  <2>1. CASE S!Next
    BY <2>1, ScheduleKept
  <2>2. CASE UNCHANGED postVars
    <3>1. /\ Strays(0)' = Strays(0) /\ \A d \in S!Days : Strays(d)' = Strays(d)
              /\ Owed(d)' = Owed(d)
      BY <2>2 DEF postVars, Strays, Owed, Posted, Owns, S!At
    <3>2. S!TypeOK' /\ Aimed' /\ Blank'
      BY <2>2 DEF postVars, ScheduleInv, S!TypeOK, Aimed, Blank
    <3>3. Accounted' /\ Excused'
      BY <2>2, <3>1 DEF postVars, ScheduleInv, Accounted, Excused
    <3> QED  BY <3>2, <3>3 DEF ScheduleInv
  <2> QED  BY <2>1, <2>2
<1> QED  BY <1>1, <1>2, PTL

\* A message is published once, but for failures and occurrences created again.
LEMMA PublishedOnce ==
  ASSUME S!ScheduleAssumption, ScheduleInv
  PROVE  S!SentAccounted
<1>1. ASSUME NEW d \in S!Days
      PROVE  postSent[d] <= 1 + postFaults + reborn[d]
  <2>1. /\ postSent[d] \in Nat /\ reborn[d] \in Nat /\ postFaults \in Nat
        /\ Cardinality(Strays(d)) \in Nat /\ Owed(d) \in {0, 1}
    BY ScheduleParts, DaysFacts, StraysCounted DEF ScheduleInv, Owed
  <2>2. postSent[d] + Cardinality(Strays(d)) + Owed(d) <= 1 + postFaults + reborn[d]
    BY DEF ScheduleInv, Accounted
  <2> QED  BY <2>1, <2>2
<1> QED  BY <1>1 DEF S!SentAccounted

-----------------------------------------------------------------------------
(* The permissions of a group: GroupPermissions *)

\* Who is to apply a configuration has one, and who calls has permissions to set.
InHand ==
  \A w \in G!Workers : /\ work[w].st \in {"wait", "apply"} => work[w].cfg \in G!Configs
                       /\ work[w].st = "call" => work[w].perm \in G!Perms

\* The inductive invariant.
PermissionInv == G!TypeOK /\ G!StatusAccounted /\ InHand

\* Giving the lock back leaves a worker of the documented form.
LEMMA LeaveTypes ==
  ASSUME G!TypeOK, NEW w \in G!Workers, G!Leave(w)
  PROVE  /\ permLock' \in G!Workers \cup {NoPermHolder}
         /\ work' \in [G!Workers -> [st : {"off", "wait", "apply", "call", "done"},
                                  cfg : G!Configs \cup {"none"}, perm : G!Perms \cup {"none"}]]
         /\ InHand => InHand'
<1>1. permLock' = NoPermHolder
  BY DEF G!Leave
<1>2. work' = [work EXCEPT ![w] = [G!Resting EXCEPT !.st = IF w = Pass THEN "off" ELSE "done"]]
  BY DEF G!Leave
<1>3. [G!Resting EXCEPT !.st = IF w = Pass THEN "off" ELSE "done"]
        \in [st : {"off", "wait", "apply", "call", "done"},
             cfg : G!Configs \cup {"none"}, perm : G!Perms \cup {"none"}]
  BY DEF G!Resting
<1>4. [G!Resting EXCEPT !.st = IF w = Pass THEN "off" ELSE "done"].st \in {"off", "done"}
  BY DEF G!Resting
<1> QED  BY <1>1, <1>2, <1>3, <1>4 DEF G!TypeOK, InHand

\* What a configuration resolves to are permissions, or nothing is known of a base.
LEMMA ResolvedPerms ==
  ASSUME NEW c \in G!Configs \cup {"none"}, NEW b \in G!Perms \cup {"none"}
  PROVE  /\ G!Resolved(c, b) \in G!Perms \cup {"none"}
         /\ c # "legacy" \/ b # "none" => G!Resolved(c, b) \in G!Perms
BY DEF G!Resolved, G!Perms, G!Configs

\* The last error counts up to its bound.
LEMMA FaultCounts ==
  ASSUME G!PermissionAssumption, G!TypeOK, G!Fine \/ G!Fault
  PROVE  permFaults' \in 0..MaxPermFaults
BY DEF G!PermissionAssumption, G!TypeOK, G!Fine, G!Fault

\* The pass takes up its configuration.
LEMMA PassReadKeepsStatus ==
  ASSUME PermissionInv, G!PassRead
  PROVE  PermissionInv'
<1>1. Pass \in G!Workers /\ G!Forgotten.fp = "none"
      /\ G!Forgotten \in [fp : G!Perms \cup {"none"}, fresh : BOOLEAN, error : BOOLEAN,
                        base : G!Perms \cup {"none"}]
  BY DEF G!Workers, G!Forgotten
<1>2. CASE present /\ permStored # "none"
  <2>1. /\ permLock' = Pass /\ cache' = cache
        /\ work' = [work EXCEPT ![Pass] =
                     [st |-> "apply", cfg |-> permStored, perm |-> "none"]]
        /\ permStored \in G!Configs
    BY <1>2 DEF G!PassRead, PermissionInv, G!TypeOK
  <2> QED  BY <1>1, <2>1 DEF PermissionInv, G!TypeOK, G!StatusAccounted, InHand, G!PassRead
<1>3. CASE ~(present /\ permStored # "none")
  <2>1. cache' = G!Forgotten /\ permLock' = permLock /\ work' = work
    BY <1>3 DEF G!PassRead
  <2> QED  BY <1>1, <2>1 DEF PermissionInv, G!TypeOK, G!StatusAccounted, InHand, G!PassRead
<1> QED  BY <1>2, <1>3

\* A save commits its configuration.
LEMMA SaveKeepsStatus ==
  ASSUME PermissionInv, NEW s \in Saves, NEW c \in G!Configs \cup {"none"}, G!Save(s, c)
  PROVE  PermissionInv'
<1>1. s \in G!Workers /\ G!Forgotten.fp = "none"
      /\ G!Forgotten \in [fp : G!Perms \cup {"none"}, fresh : BOOLEAN, error : BOOLEAN,
                        base : G!Perms \cup {"none"}]
  BY DEF G!Workers, G!Forgotten
<1>2. CASE c = "none"
  <2>1. cache' = G!Forgotten /\ work' = [work EXCEPT ![s].st = "done"]
    BY <1>2 DEF G!Save
  <2> QED  BY <1>1, <2>1 DEF PermissionInv, G!TypeOK, G!StatusAccounted, InHand, G!Save
<1>3. CASE c # "none"
  <2>1. cache' = cache
            /\ work' = [work EXCEPT ![s] = [st |-> "wait", cfg |-> c, perm |-> "none"]]
        /\ c \in G!Configs
    BY <1>3 DEF G!Save
  <2> QED  BY <1>1, <2>1 DEF PermissionInv, G!TypeOK, G!StatusAccounted, InHand, G!Save
<1> QED  BY <1>2, <1>3

\* The base of a legacy document, or a reading of it that failed or was cut off.
LEMMA RepairKeepsStatus ==
  ASSUME G!PermissionAssumption, PermissionInv, NEW w \in G!Workers, G!Repair(w)
  PROVE  PermissionInv'
<1>0. permFaults' \in 0..MaxPermFaults
  BY FaultCounts DEF PermissionInv, G!Repair, G!CutOff
<1>1. CASE G!Fine /\ cache' = [cache EXCEPT !.base = chat] /\ UNCHANGED <<permLock, work>>
  BY <1>0, <1>1 DEF PermissionInv, G!TypeOK, G!StatusAccounted, InHand, G!Repair
<1>2. CASE G!Fault /\ cache' = [cache EXCEPT !.error = TRUE] /\ G!Leave(w)
  BY <1>0, <1>2, LeaveTypes DEF PermissionInv, G!TypeOK, G!StatusAccounted, InHand, G!Repair
<1>3. CASE G!CutOff(w) /\ G!Leave(w)
  BY <1>0, <1>3, LeaveTypes DEF PermissionInv, G!TypeOK, G!StatusAccounted, InHand, G!Repair,
     G!CutOff
<1> QED  BY <1>1, <1>2, <1>3 DEF G!Repair

\* The permissions are known, or are to be set.
LEMMA ResolveKeepsStatus ==
  ASSUME PermissionInv, NEW w \in G!Workers, G!Resolve(w)
  PROVE  PermissionInv'
<1> DEFINE p == G!Resolved(work[w].cfg, cache.base)
<1>1. p \in G!Perms
  BY ResolvedPerms DEF PermissionInv, G!TypeOK, InHand, G!Resolve, G!At
<1> HIDE DEF p
<1>2. CASE w = Pass /\ G!Known(p)
  <2>1. G!Leave(w)
    BY <1>2 DEF G!Resolve, p
  <2> QED  BY <2>1, LeaveTypes DEF PermissionInv, G!TypeOK, G!StatusAccounted, G!Resolve
<1>3. CASE ~(w = Pass /\ G!Known(p))
  <2>1. work' = [work EXCEPT ![w] = [@ EXCEPT !.st = "call", !.perm = p]]
            /\ permLock' = permLock
    BY <1>3 DEF G!Resolve, p
  <2>2. work' \in [G!Workers -> [st : {"off", "wait", "apply", "call", "done"},
                              cfg : G!Configs \cup {"none"}, perm : G!Perms \cup {"none"}]]
    BY <1>1, <2>1 DEF PermissionInv, G!TypeOK
  <2>3. InHand'
    BY <1>1, <2>1 DEF PermissionInv, G!TypeOK, InHand
  <2> QED  BY <2>1, <2>2, <2>3 DEF PermissionInv, G!TypeOK, G!StatusAccounted, G!Resolve
<1> QED  BY <1>2, <1>3

\* A call that works is recorded, one that fails leaves an error, and one that the deadline of
\* the pass cuts off is remembered by the history.
LEMMA ApplyKeepsStatus ==
  ASSUME G!PermissionAssumption, PermissionInv, NEW w \in G!Workers, G!Apply(w)
  PROVE  PermissionInv'
<1>0. permFaults' \in 0..MaxPermFaults /\ work[w].perm \in G!Perms
  BY FaultCounts DEF PermissionInv, InHand, G!Apply, G!CutOff, G!At
<1>1. CASE /\ G!Fine /\ chat' = work[w].perm /\ edited' = FALSE /\ cut' = FALSE
           /\ cache' = [cache EXCEPT !.fp = work[w].perm, !.fresh = TRUE, !.error = FALSE]
  BY <1>0, <1>1, LeaveTypes DEF PermissionInv, G!TypeOK, G!StatusAccounted, InHand, G!Apply
<1>2. CASE /\ G!Fault /\ chat' \in {chat, work[w].perm} /\ UNCHANGED <<edited, cut>>
           /\ cache' = [cache EXCEPT !.error = TRUE]
  BY <1>0, <1>2, LeaveTypes DEF PermissionInv, G!TypeOK, G!StatusAccounted, InHand, G!Apply
<1>3. CASE G!CutOff(w) /\ chat' \in {chat, work[w].perm} /\ cut' = TRUE /\ UNCHANGED edited
  BY <1>0, <1>3, LeaveTypes DEF PermissionInv, G!TypeOK, G!StatusAccounted, InHand, G!Apply,
     G!CutOff
<1> QED  BY <1>1, <1>2, <1>3 DEF G!Apply

\* What leaves the workers and what is known of Telegram alone, or forgets both.
LEMMA ElseKeepsStatus ==
  ASSUME G!PermissionAssumption, PermissionInv,
         \/ G!Turn \/ G!GoStale \/ G!Authorize \/ G!Restart
         \/ \E s \in Saves : G!TakeLock(s)
         \/ \E p \in G!Perms : G!EditInTelegram(p)
  PROVE  PermissionInv'
<1>1. CASE G!Turn
  BY <1>1 DEF G!PermissionAssumption, PermissionInv, G!TypeOK, G!StatusAccounted, InHand,
     G!Turn
<1>2. CASE G!GoStale
  <2>1. cache' = [cache EXCEPT !.fresh = FALSE]
    BY <1>2 DEF G!GoStale
  <2> QED  BY <1>2, <2>1 DEF PermissionInv, G!TypeOK, G!StatusAccounted, InHand, G!GoStale
<1>3. CASE G!Authorize
  <2>1. permFaults' \in 0..MaxPermFaults
    BY <1>3, FaultCounts DEF PermissionInv, G!Authorize
  <2> QED  BY <1>3, <2>1 DEF PermissionInv, G!TypeOK, G!StatusAccounted, InHand, G!Authorize
<1>4. CASE G!Restart
  <2>1. permFaults' \in 0..MaxPermFaults
    BY <1>4, FaultCounts DEF PermissionInv, G!Restart
  <2>2. /\ G!Forgotten.fp = "none"
        /\ G!Forgotten \in [fp : G!Perms \cup {"none"}, fresh : BOOLEAN, error : BOOLEAN,
                          base : G!Perms \cup {"none"}]
    BY DEF G!Forgotten
  <2>3. \A w \in G!Workers :
          /\ work'[w] \in [st : {"off", "done"}, cfg : G!Configs \cup {"none"},
                           perm : G!Perms \cup {"none"}]
    BY <1>4 DEF G!Restart, G!Resting
  <2>4. work' \in [G!Workers -> [st : {"off", "wait", "apply", "call", "done"},
                              cfg : G!Configs \cup {"none"}, perm : G!Perms \cup {"none"}]]
    BY <1>4, <2>3 DEF G!Restart
  <2>5. InHand'
    BY <2>3 DEF InHand
  <2> QED
    BY <1>4, <2>1, <2>2, <2>4, <2>5 DEF PermissionInv, G!TypeOK, G!StatusAccounted, G!Restart
<1>5. ASSUME NEW s \in Saves, G!TakeLock(s)
      PROVE  PermissionInv'
  <2>1. s \in G!Workers
    BY DEF G!Workers
  <2> QED
    BY <1>5, <2>1 DEF PermissionInv, G!TypeOK, G!StatusAccounted, InHand, G!TakeLock, G!At
<1>6. ASSUME NEW p \in G!Perms, G!EditInTelegram(p)
      PROVE  PermissionInv'
  BY <1>6 DEF G!PermissionAssumption, PermissionInv, G!TypeOK, G!StatusAccounted, InHand,
     G!EditInTelegram
<1> QED  BY <1>1, <1>2, <1>3, <1>4, <1>5, <1>6

\* The invariant of the permissions: the forms of the state, what a worker has in hand, and
\* that a status "applied" without an error is true, but for changes made in Telegram and passes
\* cut off in their call.
THEOREM PermissionInvariant ==
  ASSUME G!PermissionAssumption
  PROVE  G!Init /\ [][G!Next]_permVars => []PermissionInv
<1>1. G!Init => PermissionInv
  <2> SUFFICES ASSUME G!Init
               PROVE  PermissionInv
    OBVIOUS
  <2>1. work = [w \in G!Workers |-> G!Resting] /\ G!Resting.st = "off"
        /\ G!Resting \in [st : {"off", "wait", "apply", "call", "done"},
                        cfg : G!Configs \cup {"none"}, perm : G!Perms \cup {"none"}]
    BY DEF G!Init, G!Resting
  <2>2. cache = G!Forgotten /\ G!Forgotten.fp = "none"
        /\ G!Forgotten \in [fp : G!Perms \cup {"none"}, fresh : BOOLEAN, error : BOOLEAN,
                          base : G!Perms \cup {"none"}]
    BY DEF G!Init, G!Forgotten
  <2>3. /\ permStored \in G!Configs \cup {"none"} /\ chat \in G!Perms
        /\ permWindow \in BOOLEAN /\ present \in BOOLEAN /\ {edited, cut} \subseteq BOOLEAN
    BY DEF G!Init, G!Configs, G!Perms
  <2>4. /\ permLock \in G!Workers \cup {NoPermHolder}
        /\ turns \in 0..MaxTurns /\ permEdits \in 0..MaxPermEdits
            /\ permFaults \in 0..MaxPermFaults
    BY DEF G!PermissionAssumption, G!Init
  <2> QED  BY <2>1, <2>2, <2>3, <2>4 DEF PermissionInv, G!TypeOK, G!StatusAccounted, InHand
<1>2. PermissionInv /\ [G!Next]_permVars => PermissionInv'
  <2> SUFFICES ASSUME PermissionInv, [G!Next]_permVars
               PROVE  PermissionInv'
    OBVIOUS
  <2>1. CASE UNCHANGED permVars
    BY <2>1 DEF permVars, PermissionInv, G!TypeOK, G!StatusAccounted, InHand
  <2>2. CASE G!Next
    BY <2>2, PassReadKeepsStatus, SaveKeepsStatus, RepairKeepsStatus, ResolveKeepsStatus,
       ApplyKeepsStatus, ElseKeepsStatus DEF G!Next
  <2> QED  BY <2>1, <2>2
<1> QED  BY <1>1, <1>2, PTL

-----------------------------------------------------------------------------
(* The runtime settings: RuntimeConfig *)

\* Nobody holds a revision that the table has not reached.
Behind ==
  /\ \A p \in Servers : mem[p].rev <= setting.rev
  /\ \A a \in Pages : form[a].rev <= setting.rev

\* A process that is down knows nothing, and only one that is up saves.
Idle ==
  \A p \in Servers : /\ server[p] = "down" => mem[p] = F!Unread
                     /\ server[p] # "up" => saver[p] = None
                     /\ server[p] = "up" => mem[p].rev # 0

\* A page that waits for a process has sent a document, and the process is up.
Sending ==
  \A a \in Pages, p \in Servers :
    form[a].to = p => server[p] = "up" /\ form[a].at = "sent" /\ form[a].set \in SettingDocs

\* A save is of the page that waits for it, and writes what the page asked for.
Saving ==
  \A p \in Servers :
    /\ saver[p] # None => form[saver[p]].to = p
    /\ server[p] = "up" /\ saver[p] = None => plan[p] = F!Nothing
    /\ saver[p] # None /\ plan[p] # F!Nothing =>
         /\ plan[p].doc \in SettingDocs
             /\ plan[p].key = F!Changed(mem[p].key, form[saver[p]].act)
         /\ p \notin unrefreshed => components[p] = settings[p]

\* What a start is to write replaces an earlier schema only, if it holds the stored revision.
Booting ==
  \A p \in Servers : server[p] = "boot" /\ mem[p].rev # 0 =>
    /\ plan[p].doc # None => plan[p].doc = Legacy /\ mem[p].doc = Legacy
    /\ ~strayed /\ mem[p].rev = setting.rev =>
         IF plan[p].doc = None THEN setting.doc = mem[p].doc ELSE setting.doc \in {Old, Legacy}

\* While the earlier schema is stored nobody has been up, and every start is to replace it.
NotReplaced ==
  setting.doc = Old =>
    /\ setting.rev # 0 /\ \A a \in Pages : form[a].rev = 0
    /\ \A p \in Servers : /\ server[p] # "up"
                          /\ server[p] = "boot" => mem[p].rev # 0 /\ plan[p].doc # None

\* What a page can hold.
PageForms == [at : {"view", "sent"}, rev : F!Revs, doc : SettingDocs \cup {None},
              to : Servers \cup {None}, set : SettingDocs \cup {None},
              act : {"keep", "clear"} \cup Secrets]

\* What a page holds after it was shown a document, and after it has sent one.
Shown(f, n, d) == [f EXCEPT !.rev = n, !.doc = d]
Sent(f, q, d, k) == [f EXCEPT !.at = "sent", !.to = q, !.set = d, !.act = k]

\* The inductive invariant.
ConfigInv ==
  /\ F!TypeOK /\ Behind /\ Idle /\ Sending /\ Saving /\ Booting /\ NotReplaced
  /\ F!RevisionTells /\ F!SettingsFollow

\* A content is its document and its secrets.
LEMMA ContentParts ==
  /\ \A r, s : F!Content(r) = F!Content(s) <=> r.doc = s.doc /\ r.key = s.key
  /\ \A n, c : /\ F!Row(n, c).rev = n /\ F!Row(n, c).doc = c.doc /\ F!Row(n, c).key = c.key
               /\ c \in F!Contents => F!Content(F!Row(n, c)) = c
  /\ F!Nothing \in F!Contents /\ F!Nothing.doc = None /\ F!Nothing.key = None
  /\ F!Unread.rev = 0 /\ F!Unread.doc = None /\ F!Unread.key = None
  /\ \A r : F!Content(r).doc = r.doc /\ F!Content(r).key = r.key
  /\ \A r : r.doc \in SettingDocs \cup {None} /\ r.key \in Secrets \cup {None}
      => F!Content(r) \in F!Contents
BY DEF F!Content, F!Row, F!Contents, F!Nothing, F!Unread

\* An action makes a secret of a secret.
LEMMA ChangedSecret ==
  ASSUME NEW k \in Secrets \cup {None}, NEW act \in {"keep", "clear"} \cup Secrets
  PROVE  F!Changed(k, act) \in Secrets \cup {None}
BY DEF F!Changed

\* What the state holds of a process, of a page and of the table.
LEMMA ConfigForms ==
  ASSUME F!ConfigAssumption, F!TypeOK
  PROVE  /\ MaxSaves \in Nat /\ F!Revs = 0..MaxSaves + 1 /\ 0 \in F!Revs /\ 1 \in F!Revs
         /\ Legacy \in SettingDocs /\ Old \notin SettingDocs /\ None \notin SettingDocs
             /\ None # Old
         /\ None \notin Pages /\ None \notin Servers /\ None \notin Secrets
         /\ setting.rev \in F!Revs /\ setting.rev \in Nat
         /\ setting.doc \in SettingDocs \cup {Old, None} /\ setting.key \in Secrets \cup {None}
         /\ \A p \in Servers :
              /\ mem[p].rev \in F!Revs /\ mem[p].rev \in Nat
              /\ mem[p].doc \in SettingDocs \cup {None} /\ mem[p].key \in Secrets \cup {None}
              /\ plan[p] \in F!Contents /\ plan[p].doc \in SettingDocs \cup {None}
              /\ plan[p].key \in Secrets \cup {None} /\ saver[p] \in Pages \cup {None}
              /\ settings[p] \in F!Contents /\ components[p] \in F!Contents
         /\ \A a \in Pages :
              /\ form[a].rev \in F!Revs /\ form[a].rev \in Nat
              /\ form[a].doc \in SettingDocs \cup {None} /\ form[a].to \in Servers \cup {None}
              /\ form[a].act \in {"keep", "clear"} \cup Secrets
              /\ form[a].set \in SettingDocs \cup {None}
BY DEF F!ConfigAssumption, F!TypeOK, F!Revs, F!Contents

\* A count of faults and starts stays in its bounds.
LEMMA ConfigCounts ==
  ASSUME F!ConfigAssumption, F!TypeOK
  PROVE  /\ F!Fine \/ F!Fails => configFaults' \in 0..MaxConfigFaults
         /\ serverStarts < MaxServerStarts /\ serverStarts' = serverStarts + 1
              => serverStarts' \in 0..MaxServerStarts
BY DEF F!ConfigAssumption, F!TypeOK, F!Fine, F!Fails

\* A page that has its answer.
LEMMA PageBack ==
  ASSUME NEW f \in PageForms
  PROVE  /\ [f EXCEPT !.at = "view", !.to = None] \in PageForms
         /\ [f EXCEPT !.at = "view", !.to = None].to = None
         /\ [f EXCEPT !.at = "view", !.to = None].rev = f.rev
         /\ [f EXCEPT !.at = "view", !.to = None].doc = f.doc
BY DEF PageForms

\* A page that is shown a document.
LEMMA PageShown ==
  ASSUME NEW f \in PageForms, NEW n \in F!Revs, NEW d \in SettingDocs \cup {None}
  PROVE  /\ Shown(f, n, d) \in PageForms
         /\ Shown(f, n, d).rev = n
         /\ Shown(f, n, d).doc = d
         /\ Shown(f, n, d).to = f.to
         /\ Shown(f, n, d).at = f.at
         /\ Shown(f, n, d).act = f.act
BY DEF PageForms, Shown

\* A page that has sent a document.
LEMMA PageSent ==
  ASSUME NEW f \in PageForms, NEW q \in Servers, NEW d \in SettingDocs,
         NEW k \in {"keep", "clear"} \cup Secrets
  PROVE  /\ Sent(f, q, d, k) \in PageForms
         /\ Sent(f, q, d, k).at = "sent"
         /\ Sent(f, q, d, k).to = q
         /\ Sent(f, q, d, k).set = d
         /\ Sent(f, q, d, k).rev = f.rev
         /\ Sent(f, q, d, k).doc = f.doc
BY DEF PageForms, Sent

\* A page that is given back shows what it showed.
LEMMA BackForms ==
  ASSUME F!ConfigAssumption, F!TypeOK, NEW a \in Pages, F!Back(a)
  PROVE  /\ form' \in [Pages -> PageForms]
         /\ form'[a].to = None /\ form'[a].rev = form[a].rev /\ form'[a].doc = form[a].doc
         /\ \A b \in Pages \ {a} : form'[b] = form[b]
<1>1. form \in [Pages -> PageForms]
  BY DEF F!TypeOK, PageForms
<1> DEFINE f == [form[a] EXCEPT !.at = "view", !.to = None]
<1>2. f \in PageForms /\ f.to = None /\ f.rev = form[a].rev /\ f.doc = form[a].doc
  BY <1>1, PageBack
<1>3. form' = [form EXCEPT ![a] = f]
  BY <1>1 DEF F!Back
<1> HIDE DEF f
<1> QED  BY <1>1, <1>2, <1>3

\* A start reads the row.
LEMMA BootReadKeeps ==
  ASSUME F!ConfigAssumption, ConfigInv, NEW p \in Servers, F!BootRead(p)
  PROVE  ConfigInv'
<1>1. /\ server[p] = "down" /\ server'[p] = "boot" /\ mem[p] = F!Unread /\ saver[p] = None
      /\ server' \in [Servers -> {"down", "boot", "up"}]
      /\ \A q \in Servers \ {p} : server'[q] = server[q] /\ mem'[q] = mem[q]
          /\ plan'[q] = plan[q]
      /\ UNCHANGED <<setting, settings, components, saver, form, secret, strayed, unrefreshed,
                     configFaults>>
  BY DEF F!BootRead, ConfigInv, F!TypeOK, Idle
<1>2. serverStarts' \in 0..MaxServerStarts
  BY ConfigCounts DEF ConfigInv, F!BootRead
<1>3. CASE setting.rev = 0
  <2>1. PICK import \in F!Imports : plan' = [plan EXCEPT ![p] = import]
    BY <1>3 DEF F!BootRead
  <2>2. import \in F!Contents
    BY ConfigForms DEF F!Imports, F!Contents, ConfigInv
  <2>3. /\ plan' \in [Servers -> F!Contents] /\ mem' = mem
    BY <1>3, <2>1, <2>2 DEF F!BootRead, ConfigInv, F!TypeOK
  <2>4. mem'[p].rev = 0 /\ setting.doc # Old
    BY <1>1, <1>3, <2>3, ContentParts DEF ConfigInv, NotReplaced
  <2>5. F!TypeOK'
    BY <1>1, <1>2, <2>3 DEF ConfigInv, F!TypeOK
  <2> QED  BY <1>1, <2>3, <2>4, <2>5
           DEF ConfigInv, Behind, Idle, Sending, Saving, Booting, NotReplaced,
           F!RevisionTells, F!SettingsFollow
<1>4. CASE setting.rev # 0
  <2> DEFINE base == F!Normal(setting.doc)
             row == [rev |-> setting.rev, doc |-> base, key |-> None]
             now == IF base # setting.doc THEN base ELSE None
  <2>1. /\ mem' = [mem EXCEPT ![p] = row] /\ plan' = [plan EXCEPT ![p].doc = now]
    BY <1>4 DEF F!BootRead
  <2>2. /\ base \in SettingDocs \cup {None} /\ (setting.doc = Old => base = Legacy
            /\ now = Legacy)
        /\ (setting.doc # Old => base = setting.doc /\ now = None)
    BY ConfigForms DEF ConfigInv, F!Normal
  <2>3. row.rev = setting.rev /\ row.doc = base /\ row.key = None
        /\ row \in [rev : F!Revs, doc : SettingDocs \cup {None}, key : Secrets \cup {None}]
    BY <2>2, ConfigForms DEF ConfigInv
  <2> HIDE DEF row
  <2>4. now \in SettingDocs \cup {None}
    BY <2>2, ConfigForms DEF ConfigInv
  <2> HIDE DEF now, base
  <2>5. /\ mem' \in [Servers -> [rev : F!Revs, doc : SettingDocs \cup {None}, key : Secrets
            \cup {None}]]
        /\ plan' \in [Servers -> F!Contents]
        /\ mem'[p] = row /\ plan'[p].doc = now
    <3>1. plan[p] \in [doc : SettingDocs \cup {None}, key : Secrets \cup {None}]
      BY DEF ConfigInv, F!TypeOK, F!Contents
    <3>2. /\ [plan[p] EXCEPT !.doc = now] \in F!Contents
          /\ [plan[p] EXCEPT !.doc = now].doc = now
      BY <2>4, <3>1 DEF F!Contents
    <3>3. plan' = [plan EXCEPT ![p] = [plan[p] EXCEPT !.doc = now]]
      BY <2>1 DEF ConfigInv, F!TypeOK
    <3> QED  BY <2>1, <2>3, <3>2, <3>3 DEF ConfigInv, F!TypeOK
  <2>6. F!TypeOK'
    BY <1>1, <1>2, <2>5 DEF ConfigInv, F!TypeOK
  <2>7. Behind'
    BY <1>1, <2>3, <2>5, ConfigForms DEF ConfigInv, Behind
  <2>8. Booting'
    <3>1. /\ now # None => now = Legacy /\ row.doc = Legacy
          /\ IF now = None THEN setting.doc = row.doc ELSE setting.doc \in {Old, Legacy}
      BY <2>2, <2>3, ConfigForms DEF ConfigInv
    <3> QED  BY <1>1, <2>3, <2>5, <3>1 DEF ConfigInv, Booting
  <2>9. NotReplaced'
    BY <1>1, <1>4, <2>2, <2>3, <2>5, ConfigForms DEF ConfigInv, NotReplaced
  <2> QED  BY <1>1, <2>6, <2>7, <2>8, <2>9
           DEF ConfigInv, Idle, Sending, Saving, F!RevisionTells, F!SettingsFollow
<1> QED  BY <1>3, <1>4

\* A process ends.
LEMMA StopKeeps ==
  ASSUME F!ConfigAssumption, ConfigInv, NEW p \in Servers, F!Stop(p)
  PROVE  ConfigInv'
<1>1. /\ server'[p] = "down" /\ mem'[p] = F!Unread /\ plan'[p] = F!Nothing /\ saver'[p] = None
      /\ server' \in [Servers -> {"down", "boot", "up"}]
      /\ \A q \in Servers \ {p} : /\ server'[q] = server[q] /\ mem'[q] = mem[q]
                                  /\ plan'[q] = plan[q] /\ saver'[q] = saver[q]
                                  /\ settings'[q] = settings[q]
                                      /\ components'[q] = components[q]
      /\ unrefreshed' = unrefreshed \ {p}
      /\ UNCHANGED <<setting, secret, strayed, serverStarts>>
  BY DEF F!Stop, ConfigInv, F!TypeOK
<1>2. /\ configFaults' \in 0..MaxConfigFaults
      /\ F!Unread \in [rev : F!Revs, doc : SettingDocs \cup {None}, key : Secrets \cup {None}]
  BY ConfigCounts, ConfigForms DEF ConfigInv, F!Stop, F!Unread
<1>3. /\ mem' \in [Servers -> [rev : F!Revs, doc : SettingDocs \cup {None}, key : Secrets
          \cup {None}]]
      /\ plan' \in [Servers -> F!Contents] /\ saver' \in [Servers -> Pages \cup {None}]
      /\ settings' \in [Servers -> F!Contents] /\ components' \in [Servers -> F!Contents]
  BY <1>2, ContentParts DEF F!Stop, ConfigInv, F!TypeOK
<1>4. \A a \in Pages : /\ form[a].to # p => form'[a] = form[a]
                       /\ form[a].to = p
                           => form'[a] = [form[a] EXCEPT !.at = "view", !.to = None]
  BY DEF F!Stop
<1>f. form \in [Pages -> PageForms]
  BY DEF ConfigInv, F!TypeOK, PageForms
<1>5. \A a \in Pages : form'[a] \in PageForms
  <2> SUFFICES ASSUME NEW a \in Pages
               PROVE  form'[a] \in PageForms
    OBVIOUS
  <2>1. form[a] \in PageForms
    BY <1>f
  <2>2. [form[a] EXCEPT !.at = "view", !.to = None] \in PageForms
    BY <2>1, PageBack
  <2> QED  BY <1>4, <2>1, <2>2
<1>6. \A a \in Pages : /\ form'[a].rev = form[a].rev /\ form'[a].doc = form[a].doc
                       /\ form[a].to # p =>
                            /\ form'[a].to = form[a].to /\ form'[a].at = form[a].at
                            /\ form'[a].set = form[a].set /\ form'[a].act = form[a].act
                       /\ form[a].to = p => form'[a].to = None
  <2> SUFFICES ASSUME NEW a \in Pages
               PROVE  <1>6!(a)
    OBVIOUS
  <2> DEFINE f == [form[a] EXCEPT !.at = "view", !.to = None]
  <2>1. f.to = None /\ f.rev = form[a].rev /\ f.doc = form[a].doc
    BY <1>f, PageBack
  <2> HIDE DEF f
  <2>2. (form[a].to # p => form'[a] = form[a]) /\ (form[a].to = p => form'[a] = f)
    BY <1>4 DEF f
  <2> QED  BY <2>1, <2>2
<1>7. F!TypeOK'
  BY <1>1, <1>2, <1>3, <1>5 DEF ConfigInv, F!TypeOK, F!Stop, PageForms
<1>8. Behind'
  BY <1>1, <1>6, ContentParts, ConfigForms DEF ConfigInv, Behind
<1>9. Sending' /\ Idle'
  BY <1>1, <1>6, ConfigForms DEF ConfigInv, Sending, Idle
<1>10. Saving'
  <2> SUFFICES ASSUME NEW q \in Servers
               PROVE  Saving!(q)'
    BY DEF Saving
  <2>1. CASE q = p
    BY <1>1, <2>1
  <2>2. CASE q # p
    BY <1>1, <1>6, <2>2, ConfigForms DEF ConfigInv, Saving
  <2> QED  BY <2>1, <2>2
<1>11. Booting' /\ NotReplaced'
  BY <1>1, <1>6 DEF ConfigInv, Booting, NotReplaced
<1>12. F!RevisionTells' /\ F!SettingsFollow'
  BY <1>1, <1>6 DEF ConfigInv, F!RevisionTells, F!SettingsFollow
<1> QED  BY <1>7, <1>8, <1>9, <1>10, <1>11, <1>12 DEF ConfigInv

\* A page shows what a process holds.
LEMMA ShowKeeps ==
  ASSUME F!ConfigAssumption, ConfigInv, NEW p \in Servers, NEW a \in Pages, F!Show(a, p)
  PROVE  ConfigInv'
<1>1. /\ form[a].at = "view" /\ server[p] = "up"
      /\ UNCHANGED <<setting, server, mem, settings, components, saver, plan, secret, strayed,
                     unrefreshed,
                     configFaults, serverStarts>>
  BY DEF F!Show
<1>2. /\ form' \in [Pages -> PageForms]
      /\ form'[a].rev = mem[p].rev /\ form'[a].doc = mem[p].doc
      /\ form'[a].to = form[a].to /\ form'[a].at = form[a].at /\ form'[a].act = form[a].act
      /\ \A b \in Pages \ {a} : form'[b] = form[b]
  <2>1. form \in [Pages -> PageForms] /\ mem[p].rev \in F!Revs /\ mem[p].doc \in SettingDocs
            \cup {None}
    BY ConfigForms DEF ConfigInv, F!TypeOK, PageForms
  <2> DEFINE f == Shown(form[a], mem[p].rev, mem[p].doc)
  <2>2. /\ f \in PageForms /\ f.rev = mem[p].rev /\ f.doc = mem[p].doc
        /\ f.to = form[a].to /\ f.at = form[a].at /\ f.act = form[a].act
    BY <2>1, PageShown
  <2>3. form' = [form EXCEPT ![a] = f]
    BY <2>1 DEF F!Show, Shown
  <2> HIDE DEF f
  <2> QED  BY <2>1, <2>2, <2>3
<1>3. F!TypeOK'
  BY <1>1, <1>2 DEF ConfigInv, F!TypeOK, PageForms
<1>4. Behind' /\ Idle' /\ Sending' /\ Booting' /\ F!SettingsFollow'
  BY <1>1, <1>2 DEF ConfigInv, Behind, Idle, Sending, Booting, F!SettingsFollow
<1>5. \A b \in Pages : form'[b].to = form[b].to /\ form'[b].act = form[b].act
  BY <1>2
<1>6. Saving'
  BY <1>1, <1>5, ConfigForms DEF ConfigInv, Saving
<1>7. setting.doc # Old /\ NotReplaced'
  BY <1>1 DEF ConfigInv, NotReplaced
<1>8. F!RevisionTells'
  BY <1>1, <1>2, ContentParts DEF ConfigInv, F!RevisionTells
<1> QED  BY <1>3, <1>4, <1>6, <1>7, <1>8 DEF ConfigInv

\* A page sends a document.
LEMMA SendKeeps ==
  ASSUME F!ConfigAssumption, ConfigInv, NEW p \in Servers, NEW a \in Pages, F!Send(a, p)
  PROVE  ConfigInv'
<1>1. /\ form[a].at = "view" /\ server[p] = "up"
      /\ UNCHANGED <<setting, server, mem, settings, components, saver, plan, secret, strayed,
                     unrefreshed,
                     configFaults, serverStarts>>
  BY DEF F!Send
<1>2. PICK d \in SettingDocs, k \in {"keep", "clear"} \cup Secrets :
        form' = [form EXCEPT ![a].at = "sent", ![a].to = p, ![a].set = d, ![a].act = k]
  BY DEF F!Send
<1>3. /\ form' \in [Pages -> PageForms]
      /\ form'[a].rev = form[a].rev /\ form'[a].doc = form[a].doc
      /\ form'[a].to = p /\ form'[a].at = "sent" /\ form'[a].set = d
      /\ \A b \in Pages \ {a} : form'[b] = form[b]
  <2>1. form \in [Pages -> PageForms]
    BY DEF ConfigInv, F!TypeOK, PageForms
  <2> DEFINE f == Sent(form[a], p, d, k)
  <2>2. /\ f \in PageForms /\ f.rev = form[a].rev /\ f.doc = form[a].doc
        /\ f.to = p /\ f.at = "sent" /\ f.set = d
    BY <2>1, PageSent
  <2>3. form' = [form EXCEPT ![a] = f]
    BY <1>2, <2>1 DEF Sent
  <2> HIDE DEF f
  <2> QED  BY <2>1, <2>2, <2>3
<1>4. F!TypeOK'
  BY <1>1, <1>3 DEF ConfigInv, F!TypeOK, PageForms
<1>5. Behind' /\ Idle' /\ Sending' /\ Booting' /\ F!SettingsFollow' /\ NotReplaced'
          /\ F!RevisionTells'
  BY <1>1, <1>3
  DEF ConfigInv, Behind, Idle, Sending, Booting, F!SettingsFollow, NotReplaced, F!RevisionTells
<1>6. \A q \in Servers : saver[q] # a
  BY <1>1, ConfigForms DEF ConfigInv, Saving, Sending
<1>7. Saving'
  BY <1>1, <1>3, <1>6, ConfigForms DEF ConfigInv, Saving
<1> QED  BY <1>4, <1>5, <1>7 DEF ConfigInv

\* A save takes the lock, or is refused.
LEMMA PrepareKeeps ==
  ASSUME F!ConfigAssumption, ConfigInv, NEW p \in Servers, NEW a \in Pages, F!Prepare(p, a)
  PROVE  ConfigInv'
<1>1. /\ saver[p] = None /\ form[a].at = "sent" /\ form[a].to = p /\ server[p] = "up"
      /\ form[a].set \in SettingDocs
      /\ UNCHANGED <<setting, server, mem, settings, components, secret, strayed, unrefreshed,
                     serverStarts>>
  BY DEF F!Prepare, ConfigInv, Sending
<1>2. configFaults' \in 0..MaxConfigFaults
  BY ConfigCounts DEF ConfigInv, F!Prepare
<1>3. CASE /\ F!Fine /\ saver' = [saver EXCEPT ![p] = a] /\ UNCHANGED form
           /\ plan' = [plan EXCEPT ![p] = [doc |-> form[a].set,
                                          key |-> F!Changed(mem[p].key, form[a].act)]]
  <2> DEFINE ask == [doc |-> form[a].set, key |-> F!Changed(mem[p].key, form[a].act)]
  <2>1. /\ ask \in F!Contents /\ ask.doc = form[a].set
        /\ ask.key = F!Changed(mem[p].key, form[a].act)
    BY ChangedSecret, ConfigForms DEF ConfigInv, F!Contents
  <2> HIDE DEF ask
  <2>2. plan' = [plan EXCEPT ![p] = ask]
    BY <1>3 DEF ask
  <2>3. /\ plan' \in [Servers -> F!Contents] /\ plan'[p] = ask
        /\ saver' \in [Servers -> Pages \cup {None}] /\ saver'[p] = a
        /\ \A q \in Servers \ {p} : plan'[q] = plan[q] /\ saver'[q] = saver[q]
    BY <1>3, <2>1, <2>2 DEF ConfigInv, F!TypeOK
  <2>4. F!TypeOK'
    BY <1>1, <1>2, <1>3, <2>3 DEF ConfigInv, F!TypeOK
  <2>5. Behind' /\ Idle' /\ Sending' /\ Booting' /\ NotReplaced' /\ F!RevisionTells'
    BY <1>1, <1>3, <2>3 DEF ConfigInv, Behind, Idle, Sending, Booting, NotReplaced,
       F!RevisionTells
  <2>6. F!SettingsFollow' /\ (p \notin unrefreshed => components[p] = settings[p])
    BY <1>1, <2>3 DEF ConfigInv, F!SettingsFollow
  <2>7. form[a].set \in SettingDocs
    BY <1>1
  <2>8. Saving'
    <3> SUFFICES ASSUME NEW q \in Servers
                 PROVE  Saving!(q)'
      BY DEF Saving
    <3>1. CASE q = p
      BY <1>1, <1>3, <2>1, <2>3, <2>6, <2>7, <3>1, ConfigForms DEF ConfigInv
    <3>2. CASE q # p
      BY <1>1, <1>3, <2>3, <3>2 DEF ConfigInv, Saving
    <3> QED  BY <3>1, <3>2
  <2> QED  BY <2>4, <2>5, <2>6, <2>8 DEF ConfigInv
<1>4. CASE F!Fails /\ F!Back(a) /\ UNCHANGED <<saver, plan>>
  <2>1. F!TypeOK'
    BY <1>1, <1>2, <1>4, BackForms DEF ConfigInv, F!TypeOK, PageForms
  <2>2. \A q \in Servers : saver[q] # a
    BY <1>1, ConfigForms DEF ConfigInv, Saving
  <2>3. Behind' /\ Idle' /\ Sending' /\ Booting' /\ NotReplaced' /\ F!RevisionTells'
            /\ F!SettingsFollow'
    BY <1>1, <1>4, BackForms, ConfigForms
    DEF ConfigInv, Behind, Idle, Sending, Booting, NotReplaced, F!RevisionTells,
    F!SettingsFollow
  <2>4. Saving'
    BY <1>1, <1>4, <2>2, BackForms, ConfigForms DEF ConfigInv, Saving
  <2> QED  BY <2>1, <2>3, <2>4 DEF ConfigInv
<1> QED  BY <1>3, <1>4 DEF F!Prepare

\* The compare-and-set.
LEMMA WriteKeeps ==
  ASSUME F!ConfigAssumption, ConfigInv, NEW p \in Servers, F!Write(p)
  PROVE  ConfigInv'
<1> DEFINE a == saver[p]
<1>1. /\ a \in Pages /\ a # None /\ plan[p] # F!Nothing /\ server[p] = "up" /\ form[a].to = p
      /\ plan[p] \in F!Contents /\ plan[p].doc \in SettingDocs
      /\ plan[p].key = F!Changed(mem[p].key, form[a].act)
      /\ p \notin unrefreshed => components[p] = settings[p]
      /\ UNCHANGED <<server, components, unrefreshed, serverStarts>>
  BY ConfigForms DEF F!Write, ConfigInv, Saving, Sending
<1>2. configFaults' \in 0..MaxConfigFaults
  BY ConfigCounts DEF ConfigInv, F!Write
<1>3. \A q \in Servers \ {p} : saver[q] # a
  BY <1>1, ConfigForms DEF ConfigInv, Saving
<1>4. CASE /\ F!Fine /\ setting.rev = form[a].rev /\ setting.rev <= MaxSaves
           /\ setting' = F!Row(form[a].rev + 1, plan[p])
           /\ strayed' = (strayed \/ mem[p].rev # setting.rev)
           /\ secret' = F!Changed(secret, form[a].act)
           /\ mem' = [mem EXCEPT ![p] = setting']
               /\ settings' = [settings EXCEPT ![p] = plan[p]]
           /\ plan' = [plan EXCEPT ![p] = F!Nothing] /\ UNCHANGED <<saver, form>>
  <2>1. /\ setting'.rev = setting.rev + 1 /\ setting'.doc = plan[p].doc
            /\ setting'.key = plan[p].key
        /\ F!Content(setting') = plan[p] /\ form' = form /\ saver' = saver
    BY <1>1, <1>4, ContentParts
  <2>2. /\ setting' \in [rev : F!Revs, doc : SettingDocs, key : Secrets \cup {None}]
        /\ setting'.doc # Old /\ setting.rev + 1 \in Nat
    BY <1>1, <1>4, ConfigForms DEF F!Row, ConfigInv
  <2>3. /\ mem' \in [Servers -> [rev : F!Revs, doc : SettingDocs \cup {None}, key : Secrets
            \cup {None}]]
        /\ plan' \in [Servers -> F!Contents] /\ settings' \in [Servers -> F!Contents]
        /\ mem'[p] = setting' /\ plan'[p] = F!Nothing /\ settings'[p] = plan[p]
        /\ \A q \in Servers \ {p} : mem'[q] = mem[q] /\ plan'[q] = plan[q]
                                    /\ settings'[q] = settings[q]
    BY <1>1, <1>4, <2>2, ContentParts DEF ConfigInv, F!TypeOK
  <2>4. secret' \in Secrets \cup {None} /\ strayed' \in BOOLEAN
    BY <1>1, <1>4, ChangedSecret, ConfigForms DEF ConfigInv, F!TypeOK
  <2>5. F!TypeOK'
    BY <1>1, <1>2, <2>1, <2>2, <2>3, <2>4 DEF ConfigInv, F!TypeOK
  <2>6. /\ \A q \in Servers \ {p} : mem[q].rev <= setting.rev /\ mem'[q].rev # setting'.rev
                                    /\ mem'[q].rev <= setting'.rev
        /\ \A b \in Pages : form'[b].rev <= setting'.rev /\ form'[b].rev # setting'.rev
    BY <1>1, <2>1, <2>3, ConfigForms DEF ConfigInv, Behind
  <2>7. Behind'
    <3>1. mem'[p].rev <= setting'.rev
      BY <2>1, <2>2, <2>3
    <3> QED  BY <2>6, <3>1 DEF Behind
  <2>8. Idle' /\ Sending'
    <3>1. setting'.rev # 0
      BY <2>1, <2>2, ConfigForms DEF ConfigInv
    <3>2. Idle'
      BY <1>1, <2>1, <2>3, <3>1 DEF ConfigInv, Idle
    <3>3. Sending'
      BY <1>1, <2>1 DEF ConfigInv, Sending
    <3> QED  BY <3>2, <3>3
  <2>9. Saving'
    BY <1>1, <1>3, <2>1, <2>3 DEF ConfigInv, Saving
  <2>10. Booting' /\ NotReplaced'
    BY <1>1, <1>4, <2>2, <2>3, <2>6 DEF ConfigInv, Booting, NotReplaced
  <2>11. ~strayed' => setting'.key = secret'
    <3> SUFFICES ASSUME ~strayed'
                 PROVE  setting'.key = secret'
      OBVIOUS
    <3>1. ~strayed /\ mem[p].rev = setting.rev
      BY <1>4
    <3>2. F!Content(mem[p]) = F!Content(setting) /\ setting.key = secret
      BY <1>1, <3>1 DEF ConfigInv, F!RevisionTells
    <3>3. mem[p].key = secret
      BY <3>2, ContentParts
    <3> QED  BY <1>1, <1>4, <2>1, <3>3
  <2>12. F!RevisionTells'
    BY <2>3, <2>6, <2>11 DEF F!RevisionTells
  <2>13. F!SettingsFollow'
    BY <1>1, <2>1, <2>3 DEF ConfigInv, F!SettingsFollow
  <2> QED  BY <2>5, <2>7, <2>8, <2>9, <2>10, <2>12, <2>13 DEF ConfigInv
<1>5. CASE /\ saver' = [saver EXCEPT ![p] = None] /\ plan' = [plan EXCEPT ![p] = F!Nothing]
               /\ F!Back(a)
           /\ UNCHANGED <<setting, strayed, secret, mem, settings>>
  <2>1. /\ saver' \in [Servers -> Pages \cup {None}] /\ plan' \in [Servers -> F!Contents]
        /\ saver'[p] = None /\ plan'[p] = F!Nothing
        /\ \A q \in Servers \ {p} : saver'[q] = saver[q] /\ plan'[q] = plan[q]
    BY <1>5, ContentParts DEF ConfigInv, F!TypeOK
  <2>2. /\ form' \in [Pages -> PageForms]
        /\ form'[a].to = None /\ form'[a].rev = form[a].rev /\ form'[a].doc = form[a].doc
        /\ \A b \in Pages \ {a} : form'[b] = form[b]
    BY <1>1, <1>5, BackForms DEF ConfigInv
  <2>3. F!TypeOK'
    BY <1>1, <1>2, <1>5, <2>1, <2>2 DEF ConfigInv, F!TypeOK, PageForms
  <2>4. Behind' /\ Idle' /\ Sending' /\ Booting'
    <3>1. Sending'
      BY <1>1, <1>5, <2>2, ConfigForms DEF ConfigInv, Sending
    <3>2. Idle' /\ Booting'
      BY <1>1, <1>5, <2>1 DEF ConfigInv, Idle, Booting
    <3> QED  BY <1>1, <1>5, <2>1, <2>2, <3>1, <3>2 DEF ConfigInv, Behind
  <2>6. NotReplaced' /\ F!RevisionTells'
    BY <1>1, <1>5, <2>1, <2>2 DEF ConfigInv, NotReplaced, F!RevisionTells
  <2>5. Saving' /\ F!SettingsFollow'
    BY <1>1, <1>3, <1>5, <2>1, <2>2, ConfigForms DEF ConfigInv, Saving, F!SettingsFollow
  <2> QED  BY <2>3, <2>4, <2>5, <2>6 DEF ConfigInv
<1> QED  BY <1>4, <1>5 DEF F!Write

\* The components are refreshed and the page is shown the result.
LEMMA RefreshKeeps ==
  ASSUME F!ConfigAssumption, ConfigInv, NEW p \in Servers, F!Refresh(p)
  PROVE  ConfigInv'
<1> DEFINE a == saver[p]
<1>1. /\ a \in Pages /\ a # None /\ plan[p] = F!Nothing /\ server[p] = "up" /\ form[a].to = p
      /\ UNCHANGED <<setting, server, mem, settings, plan, secret, strayed, serverStarts>>
  BY ConfigForms DEF F!Refresh, ConfigInv, Saving, Sending
<1>2. configFaults' \in 0..MaxConfigFaults
  BY ConfigCounts DEF ConfigInv, F!Refresh
<1>3. \A q \in Servers \ {p} : saver[q] # a
  BY <1>1, ConfigForms DEF ConfigInv, Saving
<1>4. /\ saver' \in [Servers -> Pages \cup {None}] /\ saver'[p] = None
      /\ \A q \in Servers \ {p} : saver'[q] = saver[q]
  BY DEF F!Refresh, ConfigInv, F!TypeOK
<1>5. /\ components' \in [Servers -> F!Contents] /\ unrefreshed' \subseteq Servers
      /\ p \notin unrefreshed' => components'[p] = F!Content(mem[p])
      /\ \A q \in Servers \ {p} : components'[q] = components[q]
          /\ (q \in unrefreshed' <=> q \in unrefreshed)
  <2>1. F!Content(mem[p]) \in F!Contents
    BY ContentParts, ConfigForms DEF ConfigInv
  <2>2. \/ components' = [components EXCEPT ![p] = F!Content(mem[p])]
            /\ unrefreshed' = unrefreshed \ {p}
        \/ components' = components /\ unrefreshed' = unrefreshed \cup {p}
    BY DEF F!Refresh
  <2> QED  BY <2>1, <2>2 DEF ConfigInv, F!TypeOK
<1>6. /\ form' \in [Pages -> PageForms]
      /\ form'[a].to = None
      /\ \/ form'[a].rev = mem[p].rev /\ form'[a].doc = mem[p].doc
         \/ form'[a].rev = form[a].rev /\ form'[a].doc = form[a].doc
      /\ \A b \in Pages \ {a} : form'[b] = form[b]
  <2>1. CASE F!Back(a)
    BY <1>1, <2>1, BackForms DEF ConfigInv
  <2>2. CASE form' = [form EXCEPT ![a] = [F!Blank EXCEPT !.rev = mem[p].rev,
  !.doc = mem[p].doc]]
    <3> DEFINE new == [F!Blank EXCEPT !.rev = mem[p].rev, !.doc = mem[p].doc]
    <3>1. /\ new \in PageForms
          /\ new.to = None /\ new.rev = mem[p].rev /\ new.doc = mem[p].doc
      BY ConfigForms DEF F!Blank, ConfigInv, PageForms
    <3> HIDE DEF new
    <3>2. form' = [form EXCEPT ![a] = new]
      BY <2>2 DEF new
    <3> QED  BY <1>1, <3>1, <3>2 DEF ConfigInv, F!TypeOK, PageForms
  <2> QED  BY <2>1, <2>2 DEF F!Refresh
<1> HIDE DEF a
<1>7. F!TypeOK'
  BY <1>1, <1>2, <1>4, <1>5, <1>6 DEF ConfigInv, F!TypeOK, PageForms
<1>8. Behind' /\ Idle' /\ Sending' /\ Booting'
  <2>1. Sending'
    BY <1>1, <1>6, ConfigForms DEF ConfigInv, Sending
  <2>2. Idle' /\ Booting'
    BY <1>1, <1>4 DEF ConfigInv, Idle, Booting
  <2>3. Behind'
    BY <1>1, <1>6 DEF ConfigInv, Behind
  <2> QED  BY <2>1, <2>2, <2>3
<1>9. setting.doc # Old /\ NotReplaced'
  BY <1>1 DEF ConfigInv, NotReplaced
<1>10. F!RevisionTells'
  BY <1>1, <1>6, ContentParts DEF ConfigInv, F!RevisionTells
<1>11. Saving'
  <2> SUFFICES ASSUME NEW q \in Servers
               PROVE  Saving!(q)'
    BY DEF Saving
  <2>1. CASE q = p
    BY <1>1, <1>4, <2>1
  <2>2. CASE q # p
    BY <1>1, <1>3, <1>4, <1>5, <1>6, <2>2, ConfigForms DEF ConfigInv, Saving
  <2> QED  BY <2>1, <2>2
<1>12. F!SettingsFollow'
  BY <1>1, <1>4, <1>5 DEF ConfigInv, F!SettingsFollow
<1> QED  BY <1>7, <1>8, <1>9, <1>10, <1>11, <1>12 DEF ConfigInv

\* A start writes what it read, or finds that another process was first.
LEMMA BootWriteKeeps ==
  ASSUME F!ConfigAssumption, ConfigInv, NEW p \in Servers, F!BootWrite(p)
  PROVE  ConfigInv'
<1>1. /\ server[p] = "boot" /\ configFaults' = configFaults /\ saver[p] = None
      /\ plan' \in [Servers -> F!Contents] /\ plan'[p] = F!Nothing
          /\ unrefreshed' = unrefreshed \ {p}
      /\ \A q \in Servers \ {p} : plan'[q] = plan[q]
      /\ UNCHANGED <<saver, form, serverStarts>>
  BY ContentParts DEF F!BootWrite, F!Fine, ConfigInv, F!TypeOK, Idle
<1>2. CASE mem[p].rev = 0 /\ setting.rev # 0
  <2>1. /\ server' = [server EXCEPT ![p] = "down"] /\ mem' = [mem EXCEPT ![p] = F!Unread]
        /\ UNCHANGED <<setting, settings, components, secret, strayed>>
    BY <1>2 DEF F!BootWrite
  <2>2. /\ server' \in [Servers -> {"down", "boot", "up"}] /\ server'[p] = "down"
        /\ mem' \in [Servers -> [rev : F!Revs, doc : SettingDocs \cup {None}, key : Secrets
            \cup {None}]]
        /\ mem'[p] = F!Unread
        /\ \A q \in Servers \ {p} : server'[q] = server[q] /\ mem'[q] = mem[q]
    BY <2>1, ConfigForms DEF ConfigInv, F!TypeOK, F!Unread
  <2>3. F!TypeOK'
    BY <1>1, <2>1, <2>2 DEF ConfigInv, F!TypeOK
  <2>4. Behind'
    BY <1>1, <2>1, <2>2, ContentParts, ConfigForms DEF ConfigInv, Behind
  <2>5. Idle' /\ Sending' /\ Booting' /\ NotReplaced'
    BY <1>1, <2>1, <2>2 DEF ConfigInv, Idle, Sending, Booting, NotReplaced
  <2>6. Saving'
    BY <1>1, <2>1, <2>2 DEF ConfigInv, Saving
  <2>7. F!RevisionTells' /\ F!SettingsFollow'
    BY <1>1, <2>1, <2>2 DEF ConfigInv, F!RevisionTells, F!SettingsFollow
  <2> QED  BY <2>3, <2>4, <2>5, <2>6, <2>7 DEF ConfigInv
<1>3. CASE ~(mem[p].rev = 0 /\ setting.rev # 0)
  <2>1. /\ server' \in [Servers -> {"down", "boot", "up"}] /\ server'[p] = "up"
        /\ mem' \in [Servers -> [rev : F!Revs, doc : SettingDocs \cup {None}, key : Secrets
            \cup {None}]]
        /\ settings' \in [Servers -> F!Contents] /\ components' \in [Servers -> F!Contents]
        /\ settings'[p] = F!Content(mem'[p]) /\ components'[p] = F!Content(mem'[p])
        /\ \A q \in Servers \ {p} : /\ server'[q] = server[q] /\ mem'[q] = mem[q]
                                    /\ settings'[q] = settings[q]
                                        /\ components'[q] = components[q]
        /\ setting' \in [rev : F!Revs, doc : SettingDocs \cup {Old, None}, key : Secrets
            \cup {None}]
        /\ secret' \in Secrets \cup {None} /\ strayed' \in BOOLEAN
        /\ mem'[p].rev # 0 /\ mem'[p].rev <= setting'.rev /\ setting.rev <= setting'.rev
        /\ setting'.doc # Old
        /\ ~strayed' =>
             /\ ~strayed /\ setting'.key = secret'
             /\ mem'[p].rev = setting'.rev => F!Content(mem'[p]) = F!Content(setting')
             /\ setting.rev # 0 => setting'.rev = setting.rev /\ setting'.key = setting.key
                                  /\ (\/ setting'.doc = setting.doc
                                      \/ setting.doc \in {Old, Legacy}
                                          /\ setting'.doc = Legacy)
    <3>1. CASE mem[p].rev = 0
      <4>1. /\ setting.rev = 0 /\ setting' = F!Row(1, plan[p]) /\ secret' = plan[p].key
            /\ strayed' = strayed /\ server' = [server EXCEPT ![p] = "up"]
            /\ mem' = [mem EXCEPT ![p] = setting']
            /\ settings' = [settings EXCEPT ![p] = F!Content(mem'[p])]
            /\ components' = [components EXCEPT ![p] = F!Content(mem'[p])]
        BY <1>3, <3>1 DEF F!BootWrite, ConfigInv, F!TypeOK
      <4>2. /\ setting' \in [rev : F!Revs, doc : SettingDocs \cup {None}, key : Secrets
                \cup {None}]
            /\ setting'.rev = 1 /\ setting'.key = plan[p].key /\ setting'.doc # Old
        BY <4>1, ConfigForms DEF F!Row, ConfigInv
      <4>3. mem'[p] = setting' /\ F!Content(setting') \in F!Contents
        BY <4>1, <4>2, ContentParts DEF ConfigInv, F!TypeOK
      <4> QED  BY <4>1, <4>2, <4>3 DEF ConfigInv, F!TypeOK
    <3>2. CASE mem[p].rev # 0
      <4> DEFINE put == IF plan[p].doc = None THEN setting.doc ELSE plan[p].doc
                 own == [mem[p] EXCEPT !.key = setting.key]
      <4>1. /\ setting' = [setting EXCEPT !.doc = put] /\ secret' = secret
            /\ strayed' = (strayed \/ (plan[p].doc # None /\ setting.rev # mem[p].rev))
            /\ server' = [server EXCEPT ![p] = "up"] /\ mem' = [mem EXCEPT ![p] = own]
            /\ settings' = [settings EXCEPT ![p] = F!Content(mem'[p])]
            /\ components' = [components EXCEPT ![p] = F!Content(mem'[p])]
        BY <3>2 DEF F!BootWrite
      <4>2. /\ put \in SettingDocs \cup {None}
            /\ plan[p].doc = None => put = setting.doc
            /\ plan[p].doc # None => put = Legacy /\ mem[p].doc = Legacy
        BY <1>1, <3>2, ConfigForms DEF ConfigInv, Booting, NotReplaced
      <4>3. /\ own \in [rev : F!Revs, doc : SettingDocs \cup {None}, key : Secrets \cup {None}]
            /\ own.rev = mem[p].rev /\ own.doc = mem[p].doc /\ own.key = setting.key
        BY ConfigForms DEF ConfigInv, F!TypeOK
      <4> HIDE DEF put, own
      <4>4. /\ setting' \in [rev : F!Revs, doc : SettingDocs \cup {Old, None}, key : Secrets
                \cup {None}]
            /\ setting'.rev = setting.rev /\ setting'.key = setting.key /\ setting'.doc = put
        BY <4>1, <4>2 DEF ConfigInv, F!TypeOK
      <4>5. mem'[p] = own /\ F!Content(own) \in F!Contents
        BY <4>1, <4>3, ContentParts DEF ConfigInv, F!TypeOK
      <4>6. /\ server' \in [Servers -> {"down", "boot", "up"}] /\ server'[p] = "up"
            /\ mem' \in [Servers -> [rev : F!Revs, doc : SettingDocs \cup {None}, key : Secrets
                \cup {None}]]
            /\ settings' \in [Servers -> F!Contents] /\ components' \in [Servers -> F!Contents]
            /\ settings'[p] = F!Content(mem'[p]) /\ components'[p] = F!Content(mem'[p])
            /\ \A q \in Servers \ {p} : /\ server'[q] = server[q] /\ mem'[q] = mem[q]
                                        /\ settings'[q] = settings[q]
                                            /\ components'[q] = components[q]
            /\ secret' \in Secrets \cup {None} /\ strayed' \in BOOLEAN
        BY <4>1, <4>3, <4>5 DEF ConfigInv, F!TypeOK
      <4>7. /\ mem'[p].rev # 0 /\ mem'[p].rev <= setting'.rev /\ setting.rev <= setting'.rev
            /\ setting'.doc # Old
        BY <3>2, <4>2, <4>3, <4>4, <4>5, ConfigForms DEF ConfigInv, Behind
      <4>8. ASSUME ~strayed'
            PROVE  /\ ~strayed /\ setting'.key = secret'
                   /\ mem'[p].rev = setting'.rev => F!Content(mem'[p]) = F!Content(setting')
                   /\ setting.rev # 0 => setting'.rev = setting.rev
                       /\ setting'.key = setting.key
                                        /\ (\/ setting'.doc = setting.doc
                                            \/ setting.doc \in {Old, Legacy}
                                                /\ setting'.doc = Legacy)
        <5>1. ~strayed /\ (plan[p].doc # None => setting.rev = mem[p].rev)
                  /\ setting.key = secret
          BY <4>1, <4>8 DEF ConfigInv, F!RevisionTells
        <5>2. mem[p].rev = setting.rev =>
                IF plan[p].doc = None THEN setting.doc = mem[p].doc
                ELSE setting.doc \in {Old, Legacy}
          BY <1>1, <3>2, <5>1 DEF ConfigInv, Booting
        <5> QED  BY <4>1, <4>2, <4>3, <4>4, <4>5, <5>1, <5>2, ContentParts
      <4> QED  BY <4>4, <4>6, <4>7, <4>8
    <3> QED  BY <3>1, <3>2
  <2>2. F!TypeOK'
    BY <1>1, <2>1 DEF ConfigInv, F!TypeOK
  <2>3. Behind'
    <3>1. setting.rev \in Nat /\ setting'.rev \in Nat
      BY <2>1, <2>2, ConfigForms DEF ConfigInv, F!TypeOK, F!Revs
    <3> QED  BY <1>1, <2>1, <3>1, ConfigForms DEF ConfigInv, Behind
  <2>4. Idle' /\ Sending' /\ NotReplaced'
    BY <1>1, <2>1 DEF ConfigInv, Idle, Sending, NotReplaced
  <2>5. Saving'
    <3> SUFFICES ASSUME NEW q \in Servers
                 PROVE  Saving!(q)'
      BY DEF Saving
    <3>1. CASE q = p
      BY <1>1, <3>1
    <3>2. CASE q # p
      BY <1>1, <2>1, <3>2 DEF ConfigInv, Saving
    <3> QED  BY <3>1, <3>2
  <2>6. F!SettingsFollow'
    BY <1>1, <2>1 DEF ConfigInv, F!SettingsFollow
  <2>7. Booting'
    <3> SUFFICES ASSUME NEW q \in Servers \ {p}, server[q] = "boot", mem[q].rev # 0
                 PROVE  Booting!(q)'
      BY <1>1, <2>1 DEF Booting
    <3>1. mem[q].rev <= setting.rev /\ setting.rev # 0 /\ mem'[q] = mem[q]
              /\ plan'[q] = plan[q]
      BY <1>1, <2>1, ConfigForms DEF ConfigInv, Behind
    <3>2. plan[q].doc # None => plan[q].doc = Legacy /\ mem[q].doc = Legacy
      BY DEF ConfigInv, Booting
    <3>3. ASSUME ~strayed', mem[q].rev = setting'.rev
          PROVE  IF plan[q].doc = None THEN setting'.doc = mem[q].doc
                 ELSE setting'.doc \in {Old, Legacy}
      <4>1. ~strayed /\ setting'.rev = setting.rev
        BY <2>1, <3>1, <3>3
      <4>2. IF plan[q].doc = None THEN setting.doc = mem[q].doc
            ELSE setting.doc \in {Old, Legacy}
        BY <3>3, <4>1 DEF ConfigInv, Booting
      <4>3. mem[q].doc # Old
        BY ConfigForms DEF ConfigInv
      <4> QED  BY <2>1, <3>1, <3>3, <4>2, <4>3
    <3> QED  BY <3>1, <3>2, <3>3
  <2>8. F!RevisionTells'
    <3> SUFFICES ASSUME ~strayed'
                 PROVE  F!RevisionTells'
      BY DEF F!RevisionTells
    <3>1. ASSUME NEW q \in Servers, server'[q] = "up", mem'[q].rev = setting'.rev
          PROVE  F!Content(mem'[q]) = F!Content(setting')
      <4>1. CASE q = p
        BY <2>1, <3>1, <4>1
      <4>2. CASE q # p
        <5>1. server[q] = "up" /\ mem'[q] = mem[q] /\ mem[q].rev # 0
                  /\ mem[q].rev <= setting.rev
          BY <2>1, <3>1, <4>2 DEF ConfigInv, Idle, Behind
        <5>2. setting.rev # 0 /\ ~strayed /\ setting'.rev = setting.rev /\ setting.doc # Old
          BY <2>1, <5>1, ConfigForms DEF ConfigInv, NotReplaced
        <5>3. F!Content(mem[q]) = F!Content(setting)
          BY <3>1, <5>1, <5>2 DEF ConfigInv, F!RevisionTells
        <5> QED  BY <2>1, <5>1, <5>2, <5>3, ContentParts
      <4> QED  BY <4>1, <4>2
    <3>2. ASSUME NEW b \in Pages, form'[b].rev # 0, form'[b].rev = setting'.rev
          PROVE  setting'.doc \in {form'[b].doc, Old}
      <4>1. form' = form /\ form[b].rev # 0 /\ form[b].rev <= setting.rev
        BY <1>1, <3>2 DEF ConfigInv, Behind
      <4>2. setting.rev # 0 /\ ~strayed /\ setting'.rev = setting.rev /\ setting.doc # Old
        BY <2>1, <4>1, ConfigForms DEF ConfigInv, NotReplaced
      <4>3. setting.doc = form[b].doc
        BY <3>2, <4>1, <4>2 DEF ConfigInv, F!RevisionTells
      <4> QED  BY <2>1, <4>1, <4>2, <4>3
    <3> QED  BY <2>1, <3>1, <3>2 DEF F!RevisionTells
  <2> QED  BY <2>2, <2>3, <2>4, <2>5, <2>6, <2>7, <2>8 DEF ConfigInv
<1> QED  BY <1>2, <1>3

\* The initial states.
LEMMA ConfigStarts ==
  ASSUME F!ConfigAssumption, F!Init
  PROVE  ConfigInv
<1>1. /\ server = [p \in Servers |-> "down"] /\ mem = [p \in Servers |-> F!Unread]
      /\ settings = [p \in Servers |-> F!Nothing] /\ components = [p \in Servers |-> F!Nothing]
      /\ saver = [p \in Servers |-> None] /\ plan = [p \in Servers |-> F!Nothing]
      /\ form = [a \in Pages |-> F!Blank]
      /\ strayed = FALSE /\ unrefreshed = {} /\ configFaults = 0 /\ serverStarts = 0
  BY DEF F!Init
<1>2. /\ F!Unread \in [rev : F!Revs, doc : SettingDocs \cup {None}, key : Secrets \cup {None}]
      /\ F!Blank \in PageForms
      /\ F!Blank.rev = 0 /\ F!Blank.to = None /\ None \notin Servers
  BY DEF F!ConfigAssumption, F!Unread, F!Blank, F!Revs, PageForms
<1>3. /\ setting \in [rev : F!Revs, doc : SettingDocs \cup {Old, None}, key : Secrets
          \cup {None}]
      /\ setting.key = secret /\ secret \in Secrets \cup {None} /\ setting.rev \in Nat
      /\ setting.doc = Old => setting.rev # 0
  <2>1. CASE setting = F!Unread /\ secret = None
    BY <2>1 DEF F!ConfigAssumption, F!Unread, F!Revs
  <2>2. ASSUME NEW k \in Secrets
            \cup {None}, setting = [rev |-> 1, doc |-> Old, key |-> k], secret = k
        PROVE  /\ setting \in [rev : F!Revs, doc : SettingDocs \cup {Old, None}, key : Secrets
                   \cup {None}]
               /\ setting.key = secret /\ secret \in Secrets \cup {None} /\ setting.rev \in Nat
               /\ setting.doc = Old => setting.rev # 0
    BY <2>2 DEF F!ConfigAssumption, F!Revs
  <2> QED  BY <2>1, <2>2 DEF F!Init
<1>4. F!TypeOK
  <2>1. /\ configFaults \in 0..MaxConfigFaults /\ serverStarts \in 0..MaxServerStarts
        /\ unrefreshed \subseteq Servers
    BY <1>1 DEF F!ConfigAssumption
  <2>3. strayed \in BOOLEAN
    BY <1>1
  <2>2. /\ server \in [Servers -> {"down", "boot", "up"}]
        /\ mem \in [Servers -> [rev : F!Revs, doc : SettingDocs \cup {None}, key : Secrets
            \cup {None}]]
        /\ settings \in [Servers -> F!Contents] /\ components \in [Servers -> F!Contents]
        /\ plan \in [Servers -> F!Contents] /\ saver \in [Servers -> Pages \cup {None}]
        /\ form \in [Pages -> PageForms]
    BY <1>1, <1>2, ContentParts
  <2> QED  BY <1>3, <2>1, <2>2, <2>3 DEF F!TypeOK, PageForms
<1>5. Behind
  BY <1>1, <1>2, <1>3, ContentParts DEF Behind
<1>6. Idle /\ Sending /\ Saving /\ Booting /\ NotReplaced
  BY <1>1, <1>2, <1>3, ContentParts DEF Idle, Sending, Saving, Booting, NotReplaced
<1>7. F!RevisionTells /\ F!SettingsFollow
  BY <1>1, <1>2, <1>3 DEF F!RevisionTells, F!SettingsFollow
<1> QED  BY <1>4, <1>5, <1>6, <1>7 DEF ConfigInv

\* The invariant of the runtime settings: a revision names one document, and what runs is
\* what was saved, for any number of processes, pages, documents and saves.
THEOREM ConfigInvariant ==
  ASSUME F!ConfigAssumption
  PROVE  F!Init /\ [][F!Next]_configVars => []ConfigInv
<1>1. F!Init => ConfigInv
  BY ConfigStarts
<1>2. ConfigInv /\ [F!Next]_configVars => ConfigInv'
  <2> SUFFICES ASSUME ConfigInv, [F!Next]_configVars
               PROVE  ConfigInv'
    OBVIOUS
  <2>1. CASE UNCHANGED configVars
    BY <2>1 DEF configVars, ConfigInv, F!TypeOK, Behind, Idle, Sending, Saving, Booting,
       NotReplaced, F!RevisionTells, F!SettingsFollow
  <2>2. CASE F!Next
    BY <2>2, BootReadKeeps, BootWriteKeeps, StopKeeps, WriteKeeps, RefreshKeeps, ShowKeeps,
       SendKeeps, PrepareKeeps DEF F!Next
  <2> QED  BY <2>1, <2>2
<1> QED  BY <1>1, <1>2, PTL

-----------------------------------------------------------------------------
(* The history of a dialogue: MemoryHistory *)

\* The members of a set before one of them.
Before(N, m) == {k \in N : k < m}
After(N, m)  == {k \in N : k > m}

\* A head of a set is older than the rest of it.
IsHead(N, W) == N \subseteq W /\ \A x \in N, y \in W \ N : x < y

\* The composed module speaks of the same cardinality.
LEMMA CountsAlike == \A N : Y!Cardinality(N) = Cardinality(N)
BY DEF Y!Cardinality, Cardinality

\* Sets of messages are finite.
LEMMA HistoryFinite ==
  ASSUME NEW n \in Nat, NEW W \in SUBSET (1..n)
  PROVE  IsFiniteSet(W) /\ Cardinality(W) \in Nat /\ W \subseteq Nat
<1>1. IsFiniteSet(1..n)  BY FS_Interval
<1>2. IsFiniteSet(W)  BY <1>1, FS_Subset
<1> QED  BY <1>2, FS_CardinalityType

\* A set is its own newest as long as it is within the limit.
LEMMA NewestAll ==
  ASSUME NEW W, IsFiniteSet(W), W \subseteq Nat, NEW n \in Nat, Cardinality(W) <= n
  PROVE  Y!Newest(W, n) = W
<1>1. ASSUME NEW m \in W PROVE Cardinality(After(W, m)) < n
  <2>1. After(W, m) \subseteq W \ {m}  BY <1>1 DEF After
  <2>2. IsFiniteSet(W \ {m}) /\ Cardinality(W \ {m}) = Cardinality(W) - 1
    BY <1>1, FS_RemoveElement
  <2>3. IsFiniteSet(After(W, m)) /\ Cardinality(After(W, m)) <= Cardinality(W \ {m})
    BY <2>1, <2>2, FS_Subset
  <2>4. Cardinality(After(W, m)) \in Nat /\ Cardinality(W) \in Nat
    BY <2>3, FS_CardinalityType
  <2> QED  BY <2>2, <2>3, <2>4
<1> QED  BY <1>1, CountsAlike DEF Y!Newest, After

\* As many of the oldest as a head has are the head.
LEMMA OldestOfHead ==
  ASSUME NEW W, IsFiniteSet(W), W \subseteq Nat, NEW N, IsHead(N, W)
  PROVE  Y!Oldest(W, Cardinality(N)) = N
<1>0. /\ N \subseteq W /\ N \in SUBSET W /\ IsFiniteSet(N) /\ Cardinality(N) \in Nat
      /\ \A x \in N, y \in W \ N : x < y
  BY FS_Subset, FS_CardinalityType DEF IsHead
<1>1. ASSUME NEW m \in N PROVE Cardinality(Before(W, m)) < Cardinality(N)
  <2>1. Before(W, m) \subseteq N \ {m}
    <3>1. SUFFICES ASSUME NEW k \in W, k < m PROVE k \in N \ {m}  BY DEF Before
    <3>2. k \in Nat /\ m \in Nat  BY <1>0, <1>1
    <3>3. k # m  BY <3>1, <3>2
    <3>4. k \in N  BY <1>0, <1>1, <3>1, <3>2
    <3> QED  BY <3>3, <3>4
  <2>2. IsFiniteSet(N \ {m}) /\ Cardinality(N \ {m}) = Cardinality(N) - 1
    BY <1>0, <1>1, FS_RemoveElement
  <2>3. IsFiniteSet(Before(W, m)) /\ Cardinality(Before(W, m)) <= Cardinality(N \ {m})
    BY <2>1, <2>2, FS_Subset
  <2>4. Cardinality(Before(W, m)) \in Nat  BY <2>3, FS_CardinalityType
  <2> QED  BY <1>0, <2>2, <2>3, <2>4
<1>2. ASSUME NEW m \in W \ N PROVE ~ (Cardinality(Before(W, m)) < Cardinality(N))
  <2>1. N \in SUBSET Before(W, m)  BY <1>0, <1>2 DEF Before
  <2>2. Before(W, m) \in SUBSET W  BY DEF Before
  <2>3. IsFiniteSet(Before(W, m))  BY <2>2, FS_Subset
  <2>4. Cardinality(N) <= Cardinality(Before(W, m)) /\ Cardinality(Before(W, m)) \in Nat
    BY <2>1, <2>3, FS_Subset, FS_CardinalityType
  <2> QED  BY <1>0, <2>4
<1>3. Y!Oldest(W, Cardinality(N)) = {m \in W : Cardinality(Before(W, m)) < Cardinality(N)}
  BY CountsAlike DEF Y!Oldest, Before
<1> QED  BY <1>0, <1>1, <1>2, <1>3

\* The oldest of a set are a head of it.
LEMMA OldestIsHead ==
  ASSUME NEW W, IsFiniteSet(W), W \subseteq Nat, NEW n \in Int
  PROVE  IsHead(Y!Oldest(W, n), W)
<1>1. ASSUME NEW x \in Y!Oldest(W, n), NEW y \in W \ Y!Oldest(W, n) PROVE x < y
  <2>0. /\ x \in W /\ Cardinality(Before(W, x)) < n /\ y \in W
        /\ ~ (Cardinality(Before(W, y)) < n)
    BY <1>1, CountsAlike DEF Y!Oldest, Before
  <2>1. ASSUME ~ (x < y) PROVE FALSE
    <3>1. x \in Nat /\ y \in Nat /\ y <= x  BY <2>0, <2>1
    <3>2. Before(W, y) \in SUBSET Before(W, x)
      <4>1. SUFFICES ASSUME NEW k \in W, k < y PROVE k < x  BY DEF Before
      <4>2. k \in Nat  BY <4>1
      <4> QED  BY <3>1, <4>1, <4>2
    <3>3. Before(W, x) \in SUBSET W  BY DEF Before
    <3>4. IsFiniteSet(Before(W, x))  BY <3>3, FS_Subset
    <3>5. /\ Cardinality(Before(W, y)) <= Cardinality(Before(W, x))
          /\ Cardinality(Before(W, x)) \in Nat /\ Cardinality(Before(W, y)) \in Nat
      BY <3>2, <3>4, FS_Subset, FS_CardinalityType
    <3> QED  BY <2>0, <3>5
  <2> QED  BY <2>1
<1>2. Y!Oldest(W, n) \subseteq W  BY DEF Y!Oldest
<1> QED  BY <1>1, <1>2 DEF IsHead

-----------------------------------------------------------------------------
\* Every set of messages is of messages that were added.
AddedOnly ==
  /\ memoryWindow \subseteq 1..added /\ unwritten \subseteq 1..added
      /\ memoryStored \subseteq 1..added
  /\ doomed \subseteq 1..added /\ \A c \in Y!Compactors : snapshot[c] \subseteq 1..added
  /\ summarised \subseteq 1..added /\ retired \subseteq 1..added /\ missing \subseteq 1..added

\* Rows to delete are of no message of the window.
DoomedLeft == doomed \cap memoryWindow = {}

\* Nothing is open before the history was read.
QuietUnread ==
  loaded \/ (memoryWindow = {} /\ unwritten = {} /\ doomed = {} /\ lock = Unlocked
             /\ \A c \in Y!Compactors : compactor[c] = "idle")

\* The lock is of the compactor that waits for the model, and what it compresses is the
\* head of the window, unless a retention pass took some of it.
LockHeld ==
  \A c \in Y!Compactors :
    /\ lock = c <=> compactor[c] = "llm"
    /\ compactor[c] = "llm" => overtaken \/ IsHead(snapshot[c], memoryWindow)

\* The inductive invariant.
HistoryInv ==
  /\ Y!TypeOK /\ AddedOnly /\ DoomedLeft /\ QuietUnread /\ LockHeld
  /\ Y!NothingForgotten /\ Y!WindowBacked

\* The numbers of the constants.
LEMMA HistoryNumbers ==
  ASSUME Y!HistoryAssumption
  PROVE  /\ Window \in Nat /\ Window # 0 /\ MaxMessages \in Nat /\ KeepRecent \in Nat
         /\ MaxMemoryFaults \in Nat /\ MaxMemoryRestarts \in Nat /\ MaxExpiries \in Nat
         /\ Unlocked \notin Y!Compactors /\ Automatic # Manual
         /\ Automatic \in Y!Compactors /\ Manual \in Y!Compactors
BY DEF Y!HistoryAssumption, Y!Compactors

\* The type invariant, its sets one by one.
LEMMA HistoryTypes ==
  ASSUME Y!HistoryAssumption, HistoryInv
  PROVE  /\ added \in Nat /\ added <= MaxMessages
         /\ IsFiniteSet(memoryWindow) /\ memoryWindow \subseteq Nat
             /\ Cardinality(memoryWindow) \in Nat
         /\ \A n \in Nat : n <= added => 1..n \subseteq 1..added
         /\ 1..added \subseteq Y!Messages
<1>1. added \in 0..MaxMessages /\ memoryWindow \in SUBSET (1..added)
  BY DEF HistoryInv, Y!TypeOK, AddedOnly
<1>2. added \in Nat /\ added <= MaxMessages  BY <1>1, HistoryNumbers
<1>3. IsFiniteSet(memoryWindow) /\ memoryWindow \subseteq Nat
          /\ Cardinality(memoryWindow) \in Nat
  BY <1>1, <1>2, HistoryFinite
<1>4. 1..added \subseteq Y!Messages  BY <1>2, HistoryNumbers DEF Y!Messages
<1> QED  BY <1>2, <1>3, <1>4

\* Within the messages that were added, the sets are typed.
LEMMA AddedTyped ==
  ASSUME Y!HistoryAssumption, added' \in 0..MaxMessages, AddedOnly'
  PROVE  {memoryWindow', unwritten', memoryStored', doomed', summarised', retired', missing'}
           \subseteq SUBSET Y!Messages
<1>1. 1..added' \subseteq Y!Messages  BY HistoryNumbers DEF Y!Messages
<1> QED  BY <1>1 DEF AddedOnly

\* Reading the history.
LEMMA LoadHistoryKeeps == ASSUME Y!HistoryAssumption, HistoryInv, Y!Load  PROVE HistoryInv'
<1>1. /\ ~ loaded /\ loaded' = TRUE /\ memoryWindow' = Y!Newest(memoryStored, Window)
      /\ doomed' = memoryStored \ memoryWindow' /\ retired' = retired \cup doomed'
      /\ UNCHANGED <<added, unwritten, deferred, lock, compactor, snapshot, memoryStored,
                     summarised,
                     missing, overtaken, Y!bounds>>
  BY DEF Y!Load
<1>2. memoryWindow' \subseteq memoryStored  BY <1>1 DEF Y!Newest
<1>3. AddedOnly'  BY <1>1, <1>2 DEF HistoryInv, AddedOnly
<1>4. Y!TypeOK'
  <2>1. added' \in 0..MaxMessages  BY <1>1 DEF HistoryInv, Y!TypeOK
  <2>2. {memoryWindow', unwritten', memoryStored', doomed', summarised', retired', missing'}
           \subseteq SUBSET Y!Messages
    BY <1>3, <2>1, AddedTyped
  <2> QED  BY <1>1, <2>1, <2>2 DEF HistoryInv, Y!TypeOK, Y!bounds
<1>5. DoomedLeft' /\ QuietUnread'  BY <1>1 DEF DoomedLeft, QuietUnread
<1>6. LockHeld'
  BY <1>1, HistoryNumbers DEF HistoryInv, QuietUnread, LockHeld
<1>7. Y!NothingForgotten'
  <2>1. Y!NothingForgotten /\ QuietUnread  BY DEF HistoryInv
  <2>2. \A m \in 1..added : overtaken \/ m \in Y!Kept'
    BY <1>1, <1>2, <2>1 DEF Y!NothingForgotten, Y!Kept, QuietUnread
  <2> QED  BY <1>1, <2>2 DEF Y!NothingForgotten
<1>8. Y!WindowBacked'  BY <1>1, <1>2 DEF Y!WindowBacked
<1> QED  BY <1>3, <1>4, <1>5, <1>6, <1>7, <1>8 DEF HistoryInv

\* The window is cut to its newest: what leaves it is dropped, and its rows are to be deleted.
LEMMA CutKeeps ==
  ASSUME NEW w, Y!Cut(w), doomed \cap w = {}
  PROVE  /\ memoryWindow' \subseteq w /\ doomed' \cap memoryWindow' = {}
         /\ retired \subseteq retired' /\ w \subseteq memoryWindow' \cup retired'
         /\ retired' \subseteq retired \cup w /\ doomed' \subseteq doomed \cup w
<1>1. /\ memoryWindow' = Y!Newest(w, Window) /\ doomed' = doomed \cup (w \ memoryWindow')
      /\ retired' = retired \cup (w \ memoryWindow')
  BY DEF Y!Cut
<1>2. Y!Newest(w, Window) \subseteq w  BY DEF Y!Newest
<1> QED  BY <1>1, <1>2

\* A new message.
LEMMA AddMessageKeeps == ASSUME Y!HistoryAssumption, HistoryInv, Y!Add  PROVE HistoryInv'
<1> DEFINE w == memoryWindow \cup {added + 1}
<1>1. /\ loaded /\ added < MaxMessages /\ added' = added + 1
      /\ unwritten' = unwritten \cup {added + 1} /\ Y!Trim(w)
      /\ loaded' = loaded /\ lock' = lock /\ compactor' = compactor /\ snapshot' = snapshot
      /\ memoryStored' = memoryStored /\ summarised' = summarised /\ missing' = missing
      /\ overtaken' = overtaken /\ UNCHANGED Y!bounds
  BY DEF Y!Add
<1>2. /\ Y!TypeOK /\ AddedOnly /\ DoomedLeft /\ QuietUnread /\ LockHeld
      /\ Y!NothingForgotten /\ Y!WindowBacked
  BY DEF HistoryInv
<1>n. /\ added \in Nat /\ IsFiniteSet(memoryWindow) /\ memoryWindow \subseteq Nat
          /\ added + 1 \notin 1..added
  BY HistoryTypes
<1>m. 1..(added + 1) = (1..added) \cup {added + 1}  BY <1>n
<1>d. doomed \cap w = {}  BY <1>2, <1>n DEF DoomedLeft, AddedOnly
<1>3. /\ memoryWindow' \subseteq w /\ doomed' \cap memoryWindow' = {}
      /\ retired \subseteq retired' /\ w \subseteq memoryWindow' \cup retired'
      /\ retired' \subseteq retired \cup w /\ doomed' \subseteq doomed \cup w
      /\ deferred' \in BOOLEAN
  <2>1. deferred \in BOOLEAN  BY <1>2 DEF Y!TypeOK
  <2>2. CASE Cardinality(w) > Window /\ lock # Unlocked
    BY <1>1, <1>d, <2>2, CountsAlike DEF Y!Trim
  <2>3. CASE ~ (Cardinality(w) > Window /\ lock # Unlocked)
    <3>1. Y!Cut(w) /\ deferred' = deferred  BY <1>1, <2>3, CountsAlike DEF Y!Trim
    <3> QED  BY <2>1, <3>1, <1>d, CutKeeps
  <2> QED  BY <2>2, <2>3
<1>4. AddedOnly'  BY <1>1, <1>2, <1>3, <1>m DEF AddedOnly
<1>5. Y!TypeOK'
  <2>1. added' \in 0..MaxMessages  BY <1>1, <1>n, HistoryNumbers
  <2>2. {memoryWindow', unwritten', memoryStored', doomed', summarised', retired', missing'}
           \subseteq SUBSET Y!Messages
    BY <1>4, <2>1, AddedTyped
  <2> QED  BY <1>1, <1>2, <1>3, <2>1, <2>2 DEF Y!TypeOK, Y!bounds
<1>6. DoomedLeft'  BY <1>3 DEF DoomedLeft
<1>7. QuietUnread'  BY <1>1 DEF QuietUnread
<1>8. LockHeld'
  <2>1. SUFFICES ASSUME NEW c \in Y!Compactors
                 PROVE  /\ lock' = c <=> compactor'[c] = "llm"
                        /\ compactor'[c] = "llm" => overtaken'
                            \/ IsHead(snapshot'[c], memoryWindow')
    BY DEF LockHeld, IsHead
  <2>2. /\ lock = c <=> compactor[c] = "llm"
        /\ compactor[c] = "llm" => overtaken \/ IsHead(snapshot[c], memoryWindow)
    BY <1>2 DEF LockHeld
  <2>3. ASSUME compactor[c] = "llm", IsHead(snapshot[c], memoryWindow)
        PROVE  IsHead(snapshot[c], memoryWindow')
    <3>1. lock # Unlocked  BY <2>2, <2>3, HistoryNumbers
    <3>2. memoryWindow' = w
      <4>1. CASE Cardinality(w) > Window  BY <1>1, <3>1, <4>1, CountsAlike DEF Y!Trim
      <4>2. CASE ~ (Cardinality(w) > Window)
        <5>1. IsFiniteSet(w) /\ w \subseteq Nat  BY <1>n, FS_AddElement
        <5>2. Cardinality(w) <= Window  BY <4>2, <5>1, FS_CardinalityType, HistoryNumbers
        <5>3. Y!Newest(w, Window) = w  BY <5>1, <5>2, NewestAll, HistoryNumbers
        <5> QED  BY <1>1, <4>2, <5>3, CountsAlike DEF Y!Trim, Y!Cut
      <4> QED  BY <4>1, <4>2
    <3>3. \A x \in snapshot[c] : x < added + 1
      BY <1>2, <1>n DEF AddedOnly
    <3> QED  BY <2>3, <3>2, <3>3 DEF IsHead
  <2> QED  BY <1>1, <2>2, <2>3
<1>9. Y!NothingForgotten'  BY <1>1, <1>2, <1>3, <1>m DEF Y!NothingForgotten, Y!Kept
<1>10. Y!WindowBacked'  BY <1>1, <1>2, <1>3 DEF Y!WindowBacked
<1> QED  BY <1>4, <1>5, <1>6, <1>7, <1>8, <1>9, <1>10 DEF HistoryInv

\* The trimming that waited for the lock.
LEMMA ResumeKeeps == ASSUME Y!HistoryAssumption, HistoryInv, Y!Resume  PROVE HistoryInv'
<1>1. /\ lock = Unlocked /\ deferred' = FALSE /\ Y!Cut(memoryWindow)
      /\ UNCHANGED <<added, loaded, unwritten, lock, compactor, snapshot, memoryStored,
                     summarised,
                     missing, overtaken, Y!bounds>>
  BY DEF Y!Resume
<1>2. /\ Y!TypeOK /\ AddedOnly /\ DoomedLeft /\ QuietUnread /\ LockHeld
      /\ Y!NothingForgotten /\ Y!WindowBacked
  BY DEF HistoryInv
<1>3. /\ memoryWindow' \subseteq memoryWindow /\ doomed' \cap memoryWindow' = {}
      /\ retired \subseteq retired' /\ memoryWindow \subseteq memoryWindow' \cup retired'
      /\ retired' \subseteq retired \cup memoryWindow /\ doomed' \subseteq doomed
          \cup memoryWindow
  BY <1>1, <1>2, CutKeeps DEF DoomedLeft
<1>4. AddedOnly'  BY <1>1, <1>2, <1>3 DEF AddedOnly
<1>5. Y!TypeOK'
  <2>1. added' \in 0..MaxMessages  BY <1>1, <1>2 DEF Y!TypeOK
  <2>2. {memoryWindow', unwritten', memoryStored', doomed', summarised', retired', missing'}
           \subseteq SUBSET Y!Messages
    BY <1>4, <2>1, AddedTyped
  <2> QED  BY <1>1, <1>2, <2>1, <2>2 DEF Y!TypeOK, Y!bounds
<1>6. DoomedLeft'  BY <1>3 DEF DoomedLeft
<1>7. QuietUnread'  BY <1>1, <1>2, <1>3 DEF QuietUnread
<1>8. LockHeld'  BY <1>1, <1>2, HistoryNumbers DEF LockHeld
<1>9. Y!NothingForgotten'  BY <1>1, <1>2, <1>3 DEF Y!NothingForgotten, Y!Kept
<1>10. Y!WindowBacked'  BY <1>1, <1>2, <1>3 DEF Y!WindowBacked
<1> QED  BY <1>4, <1>5, <1>6, <1>7, <1>8, <1>9, <1>10 DEF HistoryInv

\* The row of a message: written, or lost.
LEMMA RowKeeps ==
  ASSUME Y!HistoryAssumption, HistoryInv, NEW m \in Y!Messages, Y!WriteRow(m) 
      PROVE HistoryInv'
<1>1. /\ m \in unwritten /\ unwritten' = unwritten \ {m}
      /\ \/ memoryStored' = memoryStored \cup {m} /\ missing' = missing
         \/ missing' = missing \cup {m} /\ memoryStored' = memoryStored
      /\ memoryFaults' = memoryFaults \/ (memoryFaults < MaxMemoryFaults
                                          /\ memoryFaults' = memoryFaults + 1)
      /\ UNCHANGED <<added, memoryWindow, loaded, doomed, deferred, lock, compactor, snapshot,
                     summarised, retired, overtaken, restarts, expiries>>
  BY DEF Y!WriteRow, Y!Written, Y!Lost, Y!Fine, Y!Fault
<1>2. /\ Y!TypeOK /\ AddedOnly /\ DoomedLeft /\ QuietUnread /\ LockHeld
      /\ Y!NothingForgotten /\ Y!WindowBacked
  BY DEF HistoryInv
<1>3. loaded  BY <1>1, <1>2 DEF QuietUnread
<1>4. AddedOnly'  BY <1>1, <1>2 DEF AddedOnly
<1>5. Y!TypeOK'
  <2>1. added' \in 0..MaxMessages  BY <1>1, <1>2 DEF Y!TypeOK
  <2>2. {memoryWindow', unwritten', memoryStored', doomed', summarised', retired', missing'}
           \subseteq SUBSET Y!Messages
    BY <1>4, <2>1, AddedTyped
  <2>3. memoryFaults' \in 0..MaxMemoryFaults  BY <1>1, <1>2, HistoryNumbers DEF Y!TypeOK
  <2> QED  BY <1>1, <1>2, <2>1, <2>2, <2>3 DEF Y!TypeOK
<1>6. DoomedLeft'  BY <1>1, <1>2 DEF DoomedLeft
<1>7. QuietUnread'  BY <1>1, <1>3 DEF QuietUnread
<1>8. LockHeld'  BY <1>1, <1>2 DEF LockHeld
<1>9. Y!NothingForgotten'  BY <1>1, <1>2, <1>3 DEF Y!NothingForgotten, Y!Kept
<1>10. Y!WindowBacked'  BY <1>1, <1>2 DEF Y!WindowBacked
<1> QED  BY <1>4, <1>5, <1>6, <1>7, <1>8, <1>9, <1>10 DEF HistoryInv

\* The deletion of rows that left the window.
LEMMA DeleteRowsKeeps == ASSUME Y!HistoryAssumption, HistoryInv, Y!Delete  PROVE HistoryInv'
<1>1. /\ doomed # {}
      /\ \/ memoryStored' = memoryStored \ doomed /\ doomed' = {}
         \/ memoryStored' = memoryStored /\ doomed' = doomed
      /\ memoryFaults' = memoryFaults \/ (memoryFaults < MaxMemoryFaults
                                          /\ memoryFaults' = memoryFaults + 1)
      /\ UNCHANGED <<added, memoryWindow, loaded, unwritten, deferred, lock, compactor,
                     snapshot,
                     summarised, retired, missing, overtaken, restarts, expiries>>
  BY DEF Y!Delete, Y!Fine, Y!Fault
<1>2. /\ Y!TypeOK /\ AddedOnly /\ DoomedLeft /\ QuietUnread /\ LockHeld
      /\ Y!NothingForgotten /\ Y!WindowBacked
  BY DEF HistoryInv
<1>3. loaded  BY <1>1, <1>2 DEF QuietUnread
<1>4. AddedOnly'  BY <1>1, <1>2 DEF AddedOnly
<1>5. Y!TypeOK'
  <2>1. added' \in 0..MaxMessages  BY <1>1, <1>2 DEF Y!TypeOK
  <2>2. {memoryWindow', unwritten', memoryStored', doomed', summarised', retired', missing'}
           \subseteq SUBSET Y!Messages
    BY <1>4, <2>1, AddedTyped
  <2>3. memoryFaults' \in 0..MaxMemoryFaults  BY <1>1, <1>2, HistoryNumbers DEF Y!TypeOK
  <2> QED  BY <1>1, <1>2, <2>1, <2>2, <2>3 DEF Y!TypeOK
<1>6. DoomedLeft'  BY <1>1, <1>2 DEF DoomedLeft
<1>7. QuietUnread'  BY <1>1, <1>3 DEF QuietUnread
<1>8. LockHeld'  BY <1>1, <1>2 DEF LockHeld
<1>9. Y!NothingForgotten'  BY <1>1, <1>2, <1>3 DEF Y!NothingForgotten, Y!Kept
<1>10. Y!WindowBacked'  BY <1>1, <1>2 DEF Y!WindowBacked, DoomedLeft
<1> QED  BY <1>4, <1>5, <1>6, <1>7, <1>8, <1>9, <1>10 DEF HistoryInv

-----------------------------------------------------------------------------
\* A compactor's step that moves no message.
LEMMA CompactorMoves ==
  ASSUME Y!HistoryAssumption, HistoryInv, LockHeld', loaded,
         lock' \in Y!Compactors \cup {Unlocked},
         compactor' \in [Y!Compactors -> {"idle", "drained", "llm"}],
         \A c \in Y!Compactors : snapshot'[c] \subseteq 1..added,
         snapshot' \in [Y!Compactors -> SUBSET Y!Messages],
         UNCHANGED <<added, memoryWindow, loaded, unwritten, doomed, deferred, memoryStored,
                     summarised,
                     retired, missing, overtaken, Y!bounds>>
  PROVE  HistoryInv'
<1>1. /\ Y!TypeOK /\ AddedOnly /\ DoomedLeft /\ Y!NothingForgotten /\ Y!WindowBacked
  BY DEF HistoryInv
<1>2. AddedOnly' /\ DoomedLeft' /\ QuietUnread'  BY <1>1 DEF AddedOnly, DoomedLeft, QuietUnread
<1>3. Y!TypeOK'  BY <1>1 DEF Y!TypeOK, Y!bounds
<1>4. Y!NothingForgotten' /\ Y!WindowBacked'
  BY <1>1 DEF Y!NothingForgotten, Y!Kept, Y!WindowBacked
<1> QED  BY <1>2, <1>3, <1>4 DEF HistoryInv

\* The queue is drained.
LEMMA FlushKeeps ==
  ASSUME Y!HistoryAssumption, HistoryInv, NEW c \in Y!Compactors, Y!Flush(c)  PROVE HistoryInv'
<1>1. /\ loaded /\ compactor[c] = "idle" /\ compactor' = [compactor EXCEPT ![c] = "drained"]
      /\ UNCHANGED <<added, memoryWindow, loaded, unwritten, doomed, deferred, lock, snapshot,
                     memoryStored,
                     summarised, retired, missing, overtaken, Y!bounds>>
  BY DEF Y!Flush
<1>2. Y!TypeOK /\ AddedOnly /\ LockHeld  BY DEF HistoryInv
<1>3. LockHeld'  BY <1>1, <1>2 DEF LockHeld, Y!TypeOK
<1> QED  BY <1>1, <1>2, <1>3, CompactorMoves DEF Y!TypeOK, AddedOnly

\* The background compactor gives way.
LEMMA GiveWayKeeps == ASSUME Y!HistoryAssumption, HistoryInv, Y!GiveWay  PROVE HistoryInv'
<1>1. /\ compactor[Automatic] = "drained"
          /\ compactor' = [compactor EXCEPT ![Automatic] = "idle"]
      /\ UNCHANGED <<added, memoryWindow, loaded, unwritten, doomed, deferred, lock, snapshot,
                     memoryStored,
                     summarised, retired, missing, overtaken, Y!bounds>>
  BY DEF Y!GiveWay
<1>2. Y!TypeOK /\ AddedOnly /\ LockHeld /\ QuietUnread /\ Automatic \in Y!Compactors
  BY HistoryNumbers DEF HistoryInv
<1>3. LockHeld' /\ loaded  BY <1>1, <1>2 DEF LockHeld, Y!TypeOK, QuietUnread
<1> QED  BY <1>1, <1>2, <1>3, CompactorMoves DEF Y!TypeOK, AddedOnly

\* What a compactor takes is the head of the window.
LEMMA HeadsAreHeads ==
  ASSUME Y!HistoryAssumption, HistoryInv, NEW c, NEW N \in Y!Heads(c)
  PROVE  IsHead(N, memoryWindow)
<1>1. IsFiniteSet(memoryWindow) /\ memoryWindow \subseteq Nat  BY HistoryTypes
<1>2. N = memoryWindow \/ N = Y!Oldest(memoryWindow, Cardinality(memoryWindow) - KeepRecent)
  BY CountsAlike DEF Y!Heads
<1>3. IsHead(memoryWindow, memoryWindow)  BY DEF IsHead
<1>4. Cardinality(memoryWindow) - KeepRecent \in Int  BY HistoryTypes, HistoryNumbers
<1> QED  BY <1>1, <1>2, <1>3, <1>4, OldestIsHead

\* A compactor takes the lock and a snapshot.
LEMMA SnapshotKeeps ==
  ASSUME Y!HistoryAssumption, HistoryInv, NEW c \in Y!Compactors, Y!Snapshot(c) 
      PROVE HistoryInv'
<1>1. /\ compactor[c] = "drained" /\ lock = Unlocked
      /\ UNCHANGED <<added, memoryWindow, loaded, unwritten, doomed, deferred, memoryStored,
                     summarised,
                     retired, missing, overtaken, Y!bounds>>
  BY DEF Y!Snapshot
<1>2. Y!TypeOK /\ AddedOnly /\ LockHeld /\ QuietUnread  BY DEF HistoryInv
<1>3. loaded  BY <1>1, <1>2 DEF QuietUnread
<1>4. CASE memoryWindow = {}
  <2>1. compactor' = [compactor EXCEPT ![c] = "idle"] /\ lock' = lock /\ snapshot' = snapshot
    BY <1>4 DEF Y!Snapshot
  <2>2. LockHeld'  BY <1>1, <1>2, <2>1 DEF LockHeld, Y!TypeOK
  <2> QED  BY <1>1, <1>2, <1>3, <2>1, <2>2, CompactorMoves DEF Y!TypeOK, AddedOnly
<1>5. CASE memoryWindow # {}
  <2>1. PICK N \in Y!Heads(c) : snapshot' = [snapshot EXCEPT ![c] = N]
    BY <1>5 DEF Y!Snapshot
  <2>2. compactor' = [compactor EXCEPT ![c] = "llm"] /\ lock' = c
    BY <1>5 DEF Y!Snapshot
  <2>3. IsHead(N, memoryWindow)  BY HeadsAreHeads
  <2>4. N \subseteq 1..added /\ 1..added \subseteq Y!Messages
    BY <2>3, <1>2, HistoryTypes DEF IsHead, AddedOnly
  <2>5. /\ compactor \in [Y!Compactors -> {"idle", "drained", "llm"}]
        /\ snapshot \in [Y!Compactors -> SUBSET Y!Messages]
    BY <1>2 DEF Y!TypeOK
  <2>6. compactor' \in [Y!Compactors -> {"idle", "drained", "llm"}]  BY <2>2, <2>5
  <2>7. snapshot' \in [Y!Compactors -> SUBSET Y!Messages]  BY <2>1, <2>4, <2>5
  <2>8. \A e \in Y!Compactors : snapshot'[e] \subseteq 1..added
    BY <1>2, <2>1, <2>4, <2>5 DEF AddedOnly
  <2>9. \A e \in Y!Compactors : compactor[e] # "llm"
    BY <1>1, <1>2, HistoryNumbers DEF LockHeld
  <2>10. LockHeld'
    BY <1>1, <2>1, <2>2, <2>3, <2>5, <2>9 DEF LockHeld, IsHead
  <2> QED  BY <1>1, <1>2, <1>3, <2>2, <2>6, <2>7, <2>8, <2>10, CompactorMoves DEF Y!TypeOK
<1> QED  BY <1>4, <1>5

\* The summary is published: what it covers leaves the window, and nothing else.
LEMMA PublishSummaryKeeps ==
  ASSUME Y!HistoryAssumption, HistoryInv, NEW c \in Y!Compactors, Y!Publish(c) 
      PROVE HistoryInv'
<1> DEFINE N == snapshot[c]
<1>1. /\ compactor[c] = "llm"
      /\ \/ /\ summarised' = summarised \cup N /\ memoryStored' = memoryStored \ N
            /\ memoryWindow' = memoryWindow \ Y!Oldest(memoryWindow, Cardinality(N))
         \/ summarised' = summarised /\ memoryStored' = memoryStored
             /\ memoryWindow' = memoryWindow
      /\ compactor' = [compactor EXCEPT ![c] = "idle"] /\ lock' = Unlocked
      /\ snapshot' = [snapshot EXCEPT ![c] = {}]
      /\ memoryFaults' = memoryFaults \/ (memoryFaults < MaxMemoryFaults
                                          /\ memoryFaults' = memoryFaults + 1)
      /\ UNCHANGED <<added, loaded, unwritten, doomed, deferred, retired, missing, overtaken,
                     restarts, expiries>>
  BY CountsAlike DEF Y!Publish, Y!Summarise, Y!Fine, Y!Fault
<1>2. /\ Y!TypeOK /\ AddedOnly /\ DoomedLeft /\ QuietUnread /\ LockHeld
      /\ Y!NothingForgotten /\ Y!WindowBacked
  BY DEF HistoryInv
<1>3. loaded /\ lock = c  BY <1>1, <1>2 DEF QuietUnread, LockHeld
<1>h. overtaken \/ IsHead(N, memoryWindow)  BY <1>1, <1>2 DEF LockHeld
<1>w. memoryWindow' \subseteq memoryWindow  BY <1>1
<1>4. \/ overtaken
      \/ /\ summarised' = summarised \cup N /\ memoryStored' = memoryStored \ N
          /\ memoryWindow' = memoryWindow \ N
      \/ summarised' = summarised /\ memoryStored' = memoryStored
          /\ memoryWindow' = memoryWindow
  <2>1. IsFiniteSet(memoryWindow) /\ memoryWindow \subseteq Nat  BY HistoryTypes
  <2>2. IsHead(N, memoryWindow) => Y!Oldest(memoryWindow, Cardinality(N)) = N
    BY <2>1, OldestOfHead
  <2> QED  BY <1>1, <1>h, <2>2
<1>t. /\ compactor \in [Y!Compactors -> {"idle", "drained", "llm"}]
      /\ snapshot \in [Y!Compactors -> SUBSET Y!Messages]
  BY <1>2 DEF Y!TypeOK
<1>5. AddedOnly'
  <2>1. N \subseteq 1..added  BY <1>2 DEF AddedOnly
  <2>2. /\ memoryWindow' \subseteq 1..added' /\ unwritten' \subseteq 1..added'
        /\ memoryStored' \subseteq 1..added' /\ doomed' \subseteq 1..added'
        /\ summarised' \subseteq 1..added' /\ retired' \subseteq 1..added'
        /\ missing' \subseteq 1..added'
    BY <1>1, <1>2, <1>w, <2>1 DEF AddedOnly
  <2>3. \A e \in Y!Compactors : snapshot'[e] \subseteq 1..added'
    BY <1>1, <1>2, <1>t DEF AddedOnly
  <2> QED  BY <2>2, <2>3 DEF AddedOnly
<1>6. Y!TypeOK'
  <2>1. added' \in 0..MaxMessages  BY <1>1, <1>2 DEF Y!TypeOK
  <2>2. {memoryWindow', unwritten', memoryStored', doomed', summarised', retired', missing'}
           \subseteq SUBSET Y!Messages
    BY <1>5, <2>1, AddedTyped
  <2>3. memoryFaults' \in 0..MaxMemoryFaults  BY <1>1, <1>2, HistoryNumbers DEF Y!TypeOK
  <2>4. /\ compactor' \in [Y!Compactors -> {"idle", "drained", "llm"}]
        /\ snapshot' \in [Y!Compactors -> SUBSET Y!Messages]
    BY <1>1, <1>t
  <2> QED  BY <1>1, <1>2, <2>1, <2>2, <2>3, <2>4 DEF Y!TypeOK
<1>7. DoomedLeft'  BY <1>1, <1>2, <1>w DEF DoomedLeft
<1>8. QuietUnread'  BY <1>1, <1>3 DEF QuietUnread
<1>9. LockHeld'
  <2>1. \A e \in Y!Compactors : compactor'[e] # "llm"
    BY <1>1, <1>2, <1>3, <1>t DEF LockHeld
  <2> QED  BY <1>1, <2>1, HistoryNumbers DEF LockHeld
<1>10. Y!NothingForgotten'  BY <1>1, <1>2, <1>3, <1>4 DEF Y!NothingForgotten, Y!Kept
<1>11. Y!WindowBacked'  BY <1>1, <1>2, <1>4 DEF Y!WindowBacked
<1> QED  BY <1>5, <1>6, <1>7, <1>8, <1>9, <1>10, <1>11 DEF HistoryInv

-----------------------------------------------------------------------------
\* A retention pass.
LEMMA ExpireKeeps ==
  ASSUME Y!HistoryAssumption, HistoryInv, NEW n \in Y!Messages, Y!Expire(n)  PROVE HistoryInv'
<1> DEFINE aged == {m \in 1..added : m <= n}
<1>1. /\ expiries < MaxExpiries /\ expiries' = expiries + 1
      /\ memoryStored' = memoryStored \ aged /\ memoryWindow' = memoryWindow \ aged
      /\ retired' = retired \cup (memoryWindow \cap aged) \cup (memoryStored \cap aged)
      /\ overtaken' = (overtaken \/ (lock # Unlocked /\ memoryWindow \cap aged # {}))
      /\ UNCHANGED <<added, loaded, unwritten, doomed, deferred, lock, compactor, snapshot,
                     summarised, missing, memoryFaults, restarts>>
  BY DEF Y!Expire, Y!Retire
<1>2. /\ Y!TypeOK /\ AddedOnly /\ DoomedLeft /\ QuietUnread /\ LockHeld
      /\ Y!NothingForgotten /\ Y!WindowBacked
  BY DEF HistoryInv
<1>3. AddedOnly'  BY <1>1, <1>2 DEF AddedOnly
<1>4. Y!TypeOK'
  <2>1. added' \in 0..MaxMessages  BY <1>1, <1>2 DEF Y!TypeOK
  <2>2. {memoryWindow', unwritten', memoryStored', doomed', summarised', retired', missing'}
           \subseteq SUBSET Y!Messages
    BY <1>3, <2>1, AddedTyped
  <2>3. expiries' \in 0..MaxExpiries  BY <1>1, <1>2, HistoryNumbers DEF Y!TypeOK
  <2>4. overtaken' \in BOOLEAN  BY <1>1
  <2> QED  BY <1>1, <1>2, <2>1, <2>2, <2>3, <2>4 DEF Y!TypeOK
<1>5. DoomedLeft'  BY <1>1, <1>2 DEF DoomedLeft
<1>6. QuietUnread'  BY <1>1, <1>2 DEF QuietUnread
<1>7. LockHeld'
  <2>1. SUFFICES ASSUME NEW c \in Y!Compactors
                 PROVE  /\ lock' = c <=> compactor'[c] = "llm"
                        /\ compactor'[c] = "llm" => overtaken'
                            \/ IsHead(snapshot'[c], memoryWindow')
    BY DEF LockHeld, IsHead
  <2>2. /\ lock = c <=> compactor[c] = "llm"
        /\ compactor[c] = "llm" => overtaken \/ IsHead(snapshot[c], memoryWindow)
    BY <1>2 DEF LockHeld
  <2>3. ASSUME compactor[c] = "llm", ~ overtaken' PROVE IsHead(snapshot[c], memoryWindow')
    <3>1. lock # Unlocked /\ IsHead(snapshot[c], memoryWindow)
      BY <1>1, <2>2, <2>3, HistoryNumbers
    <3>2. memoryWindow' = memoryWindow  BY <1>1, <2>3, <3>1
    <3> QED  BY <3>1, <3>2
  <2> QED  BY <1>1, <2>2, <2>3
<1>8. Y!NothingForgotten'  BY <1>1, <1>2 DEF Y!NothingForgotten, Y!Kept
<1>9. Y!WindowBacked'  BY <1>1, <1>2 DEF Y!WindowBacked
<1> QED  BY <1>3, <1>4, <1>5, <1>6, <1>7, <1>8, <1>9 DEF HistoryInv

\* A shorter retention.
LEMMA ReconfigureKeeps ==
  ASSUME Y!HistoryAssumption, HistoryInv, NEW n \in Y!Messages, Y!Reconfigure(n) 
      PROVE HistoryInv'
<1> DEFINE aged == {m \in memoryWindow : m <= n}
<1>1. /\ expiries < MaxExpiries /\ expiries' = expiries + 1 /\ loaded
      /\ \/ /\ lock # Unlocked /\ deferred' = TRUE /\ memoryWindow' = memoryWindow
          /\ doomed' = doomed
            /\ retired' = retired
         \/ /\ lock = Unlocked /\ memoryWindow' = memoryWindow \ aged /\ doomed' = doomed
             \cup aged
            /\ retired' = retired \cup aged /\ deferred' = deferred
      /\ UNCHANGED <<added, loaded, unwritten, lock, compactor, snapshot, memoryStored,
                     summarised,
                     missing, overtaken, memoryFaults, restarts>>
  BY DEF Y!Reconfigure
<1>2. /\ Y!TypeOK /\ AddedOnly /\ DoomedLeft /\ QuietUnread /\ LockHeld
      /\ Y!NothingForgotten /\ Y!WindowBacked
  BY DEF HistoryInv
<1>3. AddedOnly'  BY <1>1, <1>2 DEF AddedOnly
<1>4. Y!TypeOK'
  <2>1. added' \in 0..MaxMessages  BY <1>1, <1>2 DEF Y!TypeOK
  <2>2. {memoryWindow', unwritten', memoryStored', doomed', summarised', retired', missing'}
           \subseteq SUBSET Y!Messages
    BY <1>3, <2>1, AddedTyped
  <2>3. expiries' \in 0..MaxExpiries  BY <1>1, <1>2, HistoryNumbers DEF Y!TypeOK
  <2>4. deferred' \in BOOLEAN  BY <1>1, <1>2 DEF Y!TypeOK
  <2> QED  BY <1>1, <1>2, <2>1, <2>2, <2>3, <2>4 DEF Y!TypeOK
<1>5. DoomedLeft'  BY <1>1, <1>2 DEF DoomedLeft
<1>6. QuietUnread'  BY <1>1 DEF QuietUnread
<1>7. LockHeld'
  <2>1. CASE lock # Unlocked  BY <1>1, <1>2, <2>1 DEF LockHeld
  <2>2. CASE lock = Unlocked  BY <1>1, <1>2, <2>2, HistoryNumbers DEF LockHeld
  <2> QED  BY <2>1, <2>2
<1>8. Y!NothingForgotten'  BY <1>1, <1>2 DEF Y!NothingForgotten, Y!Kept
<1>9. Y!WindowBacked'  BY <1>1, <1>2 DEF Y!WindowBacked
<1> QED  BY <1>3, <1>4, <1>5, <1>6, <1>7, <1>8, <1>9 DEF HistoryInv

\* A restart of the process.
LEMMA HistoryRestartKeeps == ASSUME Y!HistoryAssumption, HistoryInv, Y!Restart 
    PROVE HistoryInv'
<1>1. /\ restarts < MaxMemoryRestarts /\ restarts' = restarts + 1
      /\ missing' = missing \cup unwritten /\ memoryWindow' = {} /\ loaded' = FALSE
          /\ unwritten' = {}
      /\ doomed' = {} /\ deferred' = FALSE /\ lock' = Unlocked
      /\ compactor' = [c \in Y!Compactors |-> "idle"]
          /\ snapshot' = [c \in Y!Compactors |-> {}]
      /\ UNCHANGED <<added, memoryStored, summarised, retired, overtaken, memoryFaults,
                     expiries>>
  BY DEF Y!Restart
<1>2. Y!TypeOK /\ AddedOnly /\ QuietUnread /\ Y!NothingForgotten /\ Y!WindowBacked
  BY DEF HistoryInv
<1>3. AddedOnly'  BY <1>1, <1>2 DEF AddedOnly
<1>4. Y!TypeOK'
  <2>1. added' \in 0..MaxMessages  BY <1>1, <1>2 DEF Y!TypeOK
  <2>2. {memoryWindow', unwritten', memoryStored', doomed', summarised', retired', missing'}
           \subseteq SUBSET Y!Messages
    BY <1>3, <2>1, AddedTyped
  <2>3. restarts' \in 0..MaxMemoryRestarts  BY <1>1, <1>2, HistoryNumbers DEF Y!TypeOK
  <2>4. /\ compactor' \in [Y!Compactors -> {"idle", "drained", "llm"}]
        /\ snapshot' \in [Y!Compactors -> SUBSET Y!Messages]
    BY <1>1
  <2> QED  BY <1>1, <1>2, <2>1, <2>2, <2>3, <2>4 DEF Y!TypeOK
<1>5. DoomedLeft' /\ QuietUnread'  BY <1>1 DEF DoomedLeft, QuietUnread
<1>6. LockHeld'  BY <1>1, HistoryNumbers DEF LockHeld
<1>7. Y!NothingForgotten'
  <2>1. \A m \in 1..added : overtaken \/ m \in Y!Kept  BY <1>2 DEF Y!NothingForgotten
  <2>2. \A m \in 1..added : overtaken \/ m \in Y!Kept'
    BY <1>1, <1>2, <2>1 DEF Y!Kept, Y!WindowBacked, QuietUnread
  <2> QED  BY <1>1, <2>2 DEF Y!NothingForgotten
<1>8. Y!WindowBacked'  BY <1>1 DEF Y!WindowBacked
<1> QED  BY <1>3, <1>4, <1>5, <1>6, <1>7, <1>8 DEF HistoryInv

\* A step of the rest.
LEMMA HistoryRests ==
  ASSUME HistoryInv, UNCHANGED memoryVars  PROVE HistoryInv'
BY DEF HistoryInv, Y!TypeOK, AddedOnly, DoomedLeft, QuietUnread, LockHeld, IsHead,
   Y!NothingForgotten,
       Y!Kept, Y!WindowBacked, memoryVars, Y!ramVars, Y!bounds

\* The start.
LEMMA HistoryStarts == ASSUME Y!HistoryAssumption, Y!Init  PROVE HistoryInv
<1>1. Y!TypeOK
  <2>1. /\ 0 \in 0..MaxMessages /\ 0 \in 0..MaxMemoryFaults /\ 0 \in 0..MaxMemoryRestarts
        /\ 0 \in 0..MaxExpiries
    BY HistoryNumbers
  <2>2. lock \in Y!Compactors \cup {Unlocked}  BY DEF Y!Init
  <2>3. /\ compactor \in [Y!Compactors -> {"idle", "drained", "llm"}]
        /\ snapshot \in [Y!Compactors -> SUBSET Y!Messages]
    BY DEF Y!Init
  <2>4. {memoryWindow, unwritten, memoryStored, doomed, summarised, retired,
  missing} \subseteq SUBSET Y!Messages
    BY DEF Y!Init
  <2> QED  BY <2>1, <2>2, <2>3, <2>4 DEF Y!Init, Y!TypeOK
<1>2. AddedOnly /\ DoomedLeft /\ QuietUnread  BY DEF Y!Init, AddedOnly, DoomedLeft, QuietUnread
<1>3. LockHeld  BY HistoryNumbers DEF Y!Init, LockHeld
<1>4. Y!NothingForgotten /\ Y!WindowBacked  BY DEF Y!Init, Y!NothingForgotten, Y!WindowBacked
<1> QED  BY <1>1, <1>2, <1>3, <1>4 DEF HistoryInv

\* Every step keeps the invariant.
LEMMA HistorySteps ==
  ASSUME Y!HistoryAssumption, HistoryInv, [Y!Next]_memoryVars  PROVE HistoryInv'
<1>1. CASE Y!Load  BY <1>1, LoadHistoryKeeps
<1>2. CASE Y!Add  BY <1>2, AddMessageKeeps
<1>3. CASE Y!Resume  BY <1>3, ResumeKeeps
<1>4. CASE Y!Delete  BY <1>4, DeleteRowsKeeps
<1>5. CASE Y!GiveWay  BY <1>5, GiveWayKeeps
<1>6. CASE Y!Restart  BY <1>6, HistoryRestartKeeps
<1>7. ASSUME NEW c \in Y!Compactors, Y!Compact(c) PROVE HistoryInv'
  BY <1>7, FlushKeeps, SnapshotKeeps, PublishSummaryKeeps DEF Y!Compact
<1>8. ASSUME NEW m \in Y!Messages, Y!WriteRow(m) \/ Y!Expire(m) \/ Y!Reconfigure(m)
  PROVE HistoryInv'
  BY <1>8, RowKeeps, ExpireKeeps, ReconfigureKeeps
<1>9. CASE UNCHANGED memoryVars  BY <1>9, HistoryRests
<1> QED  BY <1>1, <1>2, <1>3, <1>4, <1>5, <1>6, <1>7, <1>8, <1>9 DEF Y!Next

\* The dialogue history: a message leaves it only into the summary, by its age or by the limit
\* of the window, and a restart finds the window again, unless a retention pass trims the window
\* while a compaction waits for the model (services/memory.py).
THEOREM HistoryInvariant ==
  ASSUME Y!HistoryAssumption
  PROVE  Y!Init /\ [][Y!Next]_memoryVars => []HistoryInv
<1>1. Y!Init => HistoryInv  BY HistoryStarts
<1>2. HistoryInv /\ [Y!Next]_memoryVars => HistoryInv'  BY HistorySteps
<1> QED  BY <1>1, <1>2, PTL

-----------------------------------------------------------------------------
(* A learnt style: SpeechStyle *)

\* The numbers of the constants.
LEMMA StyleNumbers ==
  ASSUME Y2!StyleAssumption
  PROVE  /\ SampleCap \in Nat /\ KeepSamples \in Nat /\ MaxTargets \in Nat
         /\ 0 \in 0..SampleCap /\ 0 \in 0..KeepSamples /\ 0 \in 0..MaxTargets
BY DEF Y2!StyleAssumption

\* The inductive invariant.
StyleInv == Y2!StyleTypeOK /\ Y2!StyleCurrent

\* A new document is of its target and counts nothing.
LEMMA BlankFits ==
  ASSUME Y2!StyleAssumption, NEW m \in Members \cup {Nobody}
  PROVE  /\ Y2!Blank(m) \in [target : Members \cup {Nobody}, count : 0..SampleCap,
                          distilled : 0..SampleCap, profile : Members \cup {Nobody}]
         /\ Y2!Blank(m).profile = Nobody /\ Y2!Blank(m).count = 0
         /\ Y2!Free \in [at : {"idle", "load", "ask"}, target : Members \cup {Nobody},
                      count : 0..SampleCap]
BY StyleNumbers DEF Y2!Blank, Y2!Free

\* /mimic
LEMMA TargetKeeps == ASSUME Y2!StyleAssumption, StyleInv, Y2!Target  PROVE StyleInv'
<1>1. PICK m \in Members \cup {Nobody} : style' = Y2!Blank(m) /\ samples' = 0 /\ collected' = 0
  BY DEF Y2!Target, Y2!Retarget
<1>2. targets' \in 0..MaxTargets /\ learner' = learner
  BY StyleNumbers DEF Y2!Target, StyleInv, Y2!StyleTypeOK
<1>3. Y2!StyleTypeOK'  BY <1>1, <1>2, BlankFits, StyleNumbers DEF StyleInv, Y2!StyleTypeOK
<1>4. Y2!StyleCurrent'  BY <1>1, BlankFits DEF Y2!StyleCurrent
<1> QED  BY <1>3, <1>4 DEF StyleInv

\* A message of the target.
LEMMA CollectKeeps ==
  ASSUME Y2!StyleAssumption, StyleInv, NEW w \in Learners, Y2!Collect(w)  PROVE StyleInv'
<1>1. /\ style.count < SampleCap /\ style' = [style EXCEPT !.count = style.count + 1]
      /\ samples' = Y2!Trimmed(samples + 1) /\ collected' = collected + 1 /\ targets' = targets
      /\ \/ learner' =
              [learner EXCEPT ![w] = [Y2!Free EXCEPT !.at = "load", !.count = style'.count]]
         \/ learner' = learner
  BY DEF Y2!Collect
<1>2. /\ style.count \in 0..SampleCap /\ collected \in 0..SampleCap
      /\ style.count >= collected /\ samples \in 0..KeepSamples
  BY DEF StyleInv, Y2!StyleTypeOK, Y2!StyleCurrent
<1>3. style.count + 1 \in 0..SampleCap /\ collected + 1 \in 0..SampleCap
  BY <1>1, <1>2, StyleNumbers
<1>4. /\ style' \in [target : Members \cup {Nobody}, count : 0..SampleCap,
                     distilled : 0..SampleCap, profile : Members \cup {Nobody}]
      /\ style'.count = style.count + 1 /\ style'.profile = style.profile
      /\ style'.target = style.target
  BY <1>1, <1>3 DEF StyleInv, Y2!StyleTypeOK
<1>5. samples' \in 0..KeepSamples
  BY <1>1, <1>2, StyleNumbers DEF Y2!Trimmed
<1>6. [Y2!Free EXCEPT !.at = "load", !.count = style'.count]
        \in [at : {"idle", "load", "ask"}, target : Members \cup {Nobody}, count :
            0..SampleCap]
  BY <1>3, <1>4 DEF Y2!Free
<1>7. learner' \in [Learners -> [at : {"idle", "load", "ask"}, target : Members \cup {Nobody},
                                count : 0..SampleCap]]
  BY <1>1, <1>6 DEF StyleInv, Y2!StyleTypeOK
<1>8. Y2!StyleTypeOK'  BY <1>1, <1>3, <1>4, <1>5, <1>7 DEF StyleInv, Y2!StyleTypeOK
<1>9. Y2!StyleCurrent'  BY <1>1, <1>2, <1>4 DEF StyleInv, Y2!StyleCurrent
<1> QED  BY <1>8, <1>9 DEF StyleInv

\* A worker asks the model, or gives way.
LEMMA LoadStyleKeeps ==
  ASSUME Y2!StyleAssumption, StyleInv, NEW w \in Learners, Y2!Load(w)  PROVE StyleInv'
<1> DEFINE Learner == [at : {"idle", "load", "ask"}, target : Members \cup {Nobody},
                       count : 0..SampleCap]
<1>1. /\ UNCHANGED <<style, samples, collected, targets>>
      /\ \/ learner' = [learner EXCEPT ![w] = Y2!Free]
         \/ learner' = [learner EXCEPT ![w] = [learner[w] EXCEPT !.at = "ask",
                                                                !.target = style.target]]
  BY DEF Y2!Load
<1>2. Y2!Free \in Learner /\ style.target \in Members \cup {Nobody}
  BY BlankFits DEF StyleInv, Y2!StyleTypeOK
<1>3. learner \in [Learners -> Learner]  BY DEF StyleInv, Y2!StyleTypeOK
<1>4. [learner[w] EXCEPT !.at = "ask", !.target = style.target] \in Learner
  BY <1>2, <1>3
<1>5. learner' \in [Learners -> Learner]
  <2> HIDE DEF Learner
  <2> QED  BY <1>1, <1>2, <1>3, <1>4
<1> QED  BY <1>1, <1>5 DEF StyleInv, Y2!StyleTypeOK, Y2!StyleCurrent

\* Its profile is of the target it was asked for, which is the target of now.
LEMMA PublishStyleKeeps ==
  ASSUME Y2!StyleAssumption, StyleInv, NEW w \in Learners, Y2!Publish(w)  PROVE StyleInv'
<1> DEFINE Learner == [at : {"idle", "load", "ask"}, target : Members \cup {Nobody},
                       count : 0..SampleCap]
<1>1. learner' = [learner EXCEPT ![w] = Y2!Free] /\ UNCHANGED <<samples, collected, targets>>
  BY DEF Y2!Publish
<1>2. Y2!Free \in Learner /\ learner \in [Learners -> Learner]
  BY BlankFits DEF StyleInv, Y2!StyleTypeOK
<1>3. learner' \in [Learners -> Learner]
  <2> HIDE DEF Learner
  <2> QED  BY <1>1, <1>2
<1>4. CASE style' = style
  BY <1>1, <1>3, <1>4 DEF StyleInv, Y2!StyleTypeOK, Y2!StyleCurrent
<1>5. CASE style' # style
  <2>1. PICK p \in {style.profile, learner[w].target} :
          style' = [style EXCEPT !.profile = p, !.distilled = learner[w].count,
                                 !.count = Y2!Later(style.count, learner[w].count)]
    BY <1>5 DEF Y2!Publish
  <2>2. style.target = learner[w].target  BY <1>5 DEF Y2!Publish
  <2>3. /\ learner[w].count \in 0..SampleCap /\ style.count \in 0..SampleCap
        /\ collected \in 0..SampleCap /\ style.count >= collected
    BY <1>2 DEF StyleInv, Y2!StyleTypeOK, Y2!StyleCurrent
  <2>4. /\ Y2!Later(style.count, learner[w].count) \in 0..SampleCap
        /\ Y2!Later(style.count, learner[w].count) >= collected
    BY <2>3, StyleNumbers DEF Y2!Later
  <2>5. p \in Members \cup {Nobody} /\ p \in {Nobody, style.target}
    BY <2>2 DEF StyleInv, Y2!StyleTypeOK, Y2!StyleCurrent
  <2>6. /\ style' \in [target : Members \cup {Nobody}, count : 0..SampleCap,
                       distilled : 0..SampleCap, profile : Members \cup {Nobody}]
        /\ style'.profile = p /\ style'.target = style.target
        /\ style'.count = Y2!Later(style.count, learner[w].count)
    BY <2>1, <2>3, <2>4, <2>5 DEF StyleInv, Y2!StyleTypeOK
  <2>7. Y2!StyleTypeOK'  BY <1>1, <1>3, <2>6 DEF StyleInv, Y2!StyleTypeOK
  <2>8. Y2!StyleCurrent'  BY <1>1, <2>4, <2>5, <2>6 DEF Y2!StyleCurrent
  <2> QED  BY <2>7, <2>8 DEF StyleInv
<1> QED  BY <1>4, <1>5

\* The invariant of learning a style: the profile is the present target's, and no collected
\* message has fallen out of the count, for any number of workers, members and changes of the
\* target (services/speech_style.py).
THEOREM StyleInvariant ==
  ASSUME Y2!StyleAssumption
  PROVE  Y2!StyleInit /\ [][Y2!StyleNext]_styleVars => []StyleInv
<1>1. Y2!StyleInit => StyleInv
  <2> SUFFICES ASSUME Y2!StyleInit PROVE StyleInv  OBVIOUS
  <2>1. Y2!StyleTypeOK  BY BlankFits, StyleNumbers DEF Y2!StyleInit, Y2!StyleTypeOK
  <2>2. Y2!StyleCurrent  BY BlankFits DEF Y2!StyleInit, Y2!StyleCurrent
  <2> QED  BY <2>1, <2>2 DEF StyleInv
<1>2. StyleInv /\ [Y2!StyleNext]_styleVars => StyleInv'
  <2> SUFFICES ASSUME StyleInv, [Y2!StyleNext]_styleVars PROVE StyleInv'  OBVIOUS
  <2>1. CASE UNCHANGED styleVars
    BY <2>1 DEF styleVars, StyleInv, Y2!StyleTypeOK, Y2!StyleCurrent
  <2>2. CASE Y2!StyleNext
    BY <2>2, TargetKeeps, CollectKeeps, LoadStyleKeeps, PublishStyleKeeps DEF Y2!StyleNext
  <2> QED  BY <2>1, <2>2
<1> QED  BY <1>1, <1>2, PTL

-----------------------------------------------------------------------------
(* Topics of a quiet group: ProactiveTopics *)

\* The forms of the document and of a pass.
DocForms == [rev : Nat, done : Nat, claim : Processes \cup {Unclaimed}, for : Nat,
             lapsed : BOOLEAN, on : BOOLEAN]
TopicPasses == [at : {"idle", "generate", "check", "claim", "recheck", "deliver",
                      "finish", "skip", "resolve"},
                rev : Nat, heard : Nat, read : DocForms, tries : Int]
TopicTypes ==
  /\ doc \in DocForms /\ topicPass \in [Processes -> TopicPasses]
  /\ topicHeard \in [Processes -> Nat] /\ topics \in [T!Revs -> Nat]

\* Nothing more is sent for a revision that is over, dealt with or claimed.
Dealt(r) == doc.rev > r \/ doc.done >= r \/ (doc.claim # Unclaimed /\ doc.for = r)
Busy(p) == topicPass[p].at # "idle"
SendingTopic(p) == topicPass[p].at \in {"recheck", "deliver"}

\* The passes that run are of one revision, no older than what was dealt with.
PassesFit ==
  /\ doc.claim # Unclaimed => doc.for <= doc.rev
  /\ \A p \in Processes : Busy(p) => doc.done <= topicPass[p].rev
      /\ topicPass[p].rev <= doc.rev
  /\ \A p, q \in Processes : Busy(p) /\ Busy(q) => topicPass[p].rev = topicPass[q].rev

\* One pass at most is about to send, under a claim and the first for its revision.
SendingFits ==
  /\ \A p \in Processes : SendingTopic(p) =>
       /\ Dealt(topicPass[p].rev)
       /\ topicPass[p].rev \in T!Revs => topics[topicPass[p].rev] = 0
  /\ \A p, q \in Processes : SendingTopic(p) /\ SendingTopic(q) => p = q
TopicsFit == \A r \in T!Revs : topics[r] <= 1 /\ (topics[r] >= 1 => Dealt(r))

\* The inductive invariant.
TopicInv == TopicTypes /\ PassesFit /\ SendingFits /\ TopicsFit

\* A record of the form of a pass with some fields replaced, whatever the fields' sets.
LEMMA PassForm ==
  ASSUME NEW A1, NEW R1, NEW H1, NEW D1, NEW N,
         NEW x \in [at : A1, rev : R1, heard : H1, read : D1, tries : N],
         NEW a \in A1, NEW r \in R1, NEW h \in H1, NEW d \in D1, NEW n \in N
  PROVE  /\ [x EXCEPT !.at = a, !.read = d, !.tries = n]
               \in [at : A1, rev : R1, heard : H1, read : D1, tries : N]
         /\ [x EXCEPT !.at = a, !.read = d, !.tries = n].at = a
         /\ [x EXCEPT !.at = a, !.read = d, !.tries = n].rev = x.rev
         /\ [x EXCEPT !.read = d, !.tries = n]
               \in [at : A1, rev : R1, heard : H1, read : D1, tries : N]
         /\ [x EXCEPT !.read = d, !.tries = n].at = x.at
         /\ [x EXCEPT !.read = d, !.tries = n].rev = x.rev
         /\ [x EXCEPT !.at = a, !.rev = r, !.read = d, !.tries = n]
               \in [at : A1, rev : R1, heard : H1, read : D1, tries : N]
         /\ [x EXCEPT !.at = a, !.rev = r, !.read = d, !.tries = n].at = a
         /\ [x EXCEPT !.at = a, !.rev = r, !.read = d, !.tries = n].rev = r
         /\ [x EXCEPT !.at = a, !.rev = r, !.heard = h]
               \in [at : A1, rev : R1, heard : H1, read : D1, tries : N]
         /\ [x EXCEPT !.at = a, !.rev = r, !.heard = h].at = a
         /\ [x EXCEPT !.at = a, !.rev = r, !.heard = h].rev = r
OBVIOUS

\* And of the form of the document.
LEMMA DocForm ==
  ASSUME NEW N, NEW C1, NEW B,
         NEW d \in [rev : N, done : N, claim : C1, for : N, lapsed : B, on : B],
         NEW n \in N, NEW m \in N, NEW c \in C1, NEW b \in B
  PROVE  /\ LET e == [d EXCEPT !.rev = n]
            IN /\ e \in [rev : N, done : N, claim : C1, for : N, lapsed : B, on : B]
               /\ e.rev = n /\ e.done = d.done /\ e.claim = d.claim /\ e.for = d.for
         /\ LET e == [d EXCEPT !.on = b, !.rev = n]
            IN /\ e \in [rev : N, done : N, claim : C1, for : N, lapsed : B, on : B]
               /\ e.rev = n /\ e.done = d.done /\ e.claim = d.claim /\ e.for = d.for
         /\ LET e == [d EXCEPT !.lapsed = b]
            IN /\ e \in [rev : N, done : N, claim : C1, for : N, lapsed : B, on : B]
               /\ e.rev = d.rev /\ e.done = d.done /\ e.claim = d.claim /\ e.for = d.for
         /\ LET e == [d EXCEPT !.done = n]
            IN /\ e \in [rev : N, done : N, claim : C1, for : N, lapsed : B, on : B]
               /\ e.rev = d.rev /\ e.done = n /\ e.claim = d.claim /\ e.for = d.for
         /\ LET e == [d EXCEPT !.claim = c, !.for = n, !.lapsed = b, !.done = m]
            IN /\ e \in [rev : N, done : N, claim : C1, for : N, lapsed : B, on : B]
               /\ e.rev = d.rev /\ e.done = m /\ e.claim = c /\ e.for = n
         /\ LET e == [d EXCEPT !.claim = c, !.for = n, !.lapsed = b]
            IN /\ e \in [rev : N, done : N, claim : C1, for : N, lapsed : B, on : B]
               /\ e.rev = d.rev /\ e.done = d.done /\ e.claim = c /\ e.for = n
OBVIOUS

\* A pass that goes on, tries again, or begins; a document whose revision is dealt with or
\* claimed.
PassAt(x, s, d, n) == [x EXCEPT !.at = s, !.read = d, !.tries = n]
PassAgain(x, d, n) == [x EXCEPT !.read = d, !.tries = n]
Retried(p) == PassAgain(topicPass[p], doc, topicPass[p].tries - 1)
PassResolves(x, r, d, n) == [x EXCEPT !.at = "resolve", !.rev = r, !.read = d, !.tries = n]
PassGenerates(x, r, h) == [x EXCEPT !.at = "generate", !.rev = r, !.heard = h]
DocDealt(d, n) == [d EXCEPT !.done = n]
DocClaimed(d, c, n) == [d EXCEPT !.claim = c, !.for = n, !.lapsed = FALSE]

\* What the document then is.
LEMMA DocDealtFits ==
  ASSUME NEW d \in DocForms, NEW n \in Nat
  PROVE  /\ DocDealt(d, n) \in DocForms /\ DocDealt(d, n).rev = d.rev
             /\ DocDealt(d, n).done = n
         /\ DocDealt(d, n).claim = d.claim /\ DocDealt(d, n).for = d.for
         /\ T!Finalized(n, d) \in DocForms /\ T!Finalized(n, d).rev = d.rev
         /\ T!Finalized(n, d).done = n /\ T!Finalized(n, d).claim = Unclaimed
<1>1. /\ d \in [rev : Nat, done : Nat, claim : Processes \cup {Unclaimed}, for : Nat,
            lapsed : BOOLEAN, on : BOOLEAN]
      /\ 0 \in Nat /\ FALSE \in BOOLEAN /\ Unclaimed \in Processes \cup {Unclaimed}
  BY DEF DocForms
<1>2. /\ DocDealt(d, n) \in DocForms /\ DocDealt(d, n).rev = d.rev /\ DocDealt(d, n).done = n
      /\ DocDealt(d, n).claim = d.claim /\ DocDealt(d, n).for = d.for
  BY <1>1, DocForm, Zenon DEF DocForms, DocDealt
<1>3. /\ T!Finalized(n, d) \in DocForms /\ T!Finalized(n, d).rev = d.rev
      /\ T!Finalized(n, d).done = n /\ T!Finalized(n, d).claim = Unclaimed
  BY <1>1, DocForm, Zenon DEF DocForms, T!Finalized
<1> QED  BY <1>2, <1>3

LEMMA DocClaimedFits ==
  ASSUME NEW d \in DocForms, NEW n \in Nat, NEW c \in Processes
  PROVE  /\ DocClaimed(d, c, n) \in DocForms /\ DocClaimed(d, c, n).rev = d.rev
         /\ DocClaimed(d, c, n).done = d.done /\ DocClaimed(d, c, n).claim = c
         /\ DocClaimed(d, c, n).for = n
<1>1. /\ d \in [rev : Nat, done : Nat, claim : Processes \cup {Unclaimed}, for : Nat,
            lapsed : BOOLEAN, on : BOOLEAN]
      /\ FALSE \in BOOLEAN /\ c \in Processes \cup {Unclaimed}
  BY DEF DocForms
<1> QED  BY <1>1, DocForm, Zenon DEF DocForms, DocClaimed

\* What the pass then is.
LEMMA PassAtFits ==
  ASSUME NEW x \in TopicPasses, NEW d \in DocForms, NEW n \in Int,
         NEW s \in {"check", "claim", "recheck", "deliver", "finish", "skip"}
  PROVE  /\ PassAt(x, s, d, n) \in TopicPasses
         /\ PassAt(x, s, d, n).at = s /\ PassAt(x, s, d, n).rev = x.rev
<1>1. /\ x \in [at : {"idle", "generate", "check", "claim", "recheck", "deliver",
                  "finish", "skip", "resolve"},
            rev : Nat, heard : Nat, read : DocForms, tries : Int]
      /\ 0 \in Nat
      /\ s \in {"idle", "generate", "check", "claim", "recheck", "deliver",
                "finish", "skip", "resolve"}
  BY DEF TopicPasses
<1> QED  BY <1>1, PassForm, Zenon DEF TopicPasses, PassAt

LEMMA PassAgainFits ==
  ASSUME NEW x \in TopicPasses, NEW d \in DocForms, NEW n \in Int
  PROVE  /\ PassAgain(x, d, n) \in TopicPasses
         /\ PassAgain(x, d, n).at = x.at /\ PassAgain(x, d, n).rev = x.rev
<1>1. /\ x \in [at : {"idle", "generate", "check", "claim", "recheck", "deliver",
                  "finish", "skip", "resolve"},
            rev : Nat, heard : Nat, read : DocForms, tries : Int]
      /\ 0 \in Nat
      /\ "idle" \in {"idle", "generate", "check", "claim", "recheck", "deliver",
                     "finish", "skip", "resolve"}
  BY DEF TopicPasses
<1> QED  BY <1>1, PassForm, Zenon DEF TopicPasses, PassAgain

LEMMA PassResolvesFits ==
  ASSUME NEW x \in TopicPasses, NEW d \in DocForms, NEW n \in Int, NEW r \in Nat
  PROVE  /\ PassResolves(x, r, d, n) \in TopicPasses
         /\ PassResolves(x, r, d, n).at = "resolve" /\ PassResolves(x, r, d, n).rev = r
<1>1. /\ x \in [at : {"idle", "generate", "check", "claim", "recheck", "deliver",
                  "finish", "skip", "resolve"},
            rev : Nat, heard : Nat, read : DocForms, tries : Int]
      /\ "resolve" \in {"idle", "generate", "check", "claim", "recheck", "deliver",
                        "finish", "skip", "resolve"}
      /\ r \in Nat
  BY DEF TopicPasses
<1> QED  BY <1>1, PassForm, Zenon DEF TopicPasses, PassResolves

\* What a pass that begins is.
LEMMA PassGeneratesFits ==
  ASSUME NEW x \in TopicPasses, NEW r \in Nat, NEW h \in Nat
  PROVE  /\ PassGenerates(x, r, h) \in TopicPasses
         /\ PassGenerates(x, r, h).at = "generate" /\ PassGenerates(x, r, h).rev = r
<1>1. /\ x \in [at : {"idle", "generate", "check", "claim", "recheck", "deliver",
                  "finish", "skip", "resolve"},
            rev : Nat, heard : Nat, read : DocForms, tries : Int]
      /\ "generate" \in {"idle", "generate", "check", "claim", "recheck", "deliver",
                        "finish", "skip", "resolve"}
  BY DEF TopicPasses
<1>2. x.read \in DocForms /\ x.tries \in Int
  BY <1>1
<1> QED  BY <1>1, <1>2, PassForm, Zenon DEF TopicPasses, PassGenerates

\* The passes and the documents there are.
LEMMA TopicForms ==
  ASSUME T!TopicAssumption, TopicInv, NEW p \in Processes
  PROVE  /\ doc \in DocForms /\ topicPass[p] \in TopicPasses /\ topicPass[p].rev \in Nat
         /\ doc.rev \in Nat /\ doc.done \in Nat /\ doc.for \in Nat
         /\ T!Resting \in TopicPasses /\ T!Resting.at = "idle" /\ T!Doc0 \in DocForms
         /\ SendingTopic(p) => Busy(p)
<1>1. T!Doc0 \in DocForms
  BY DEF T!Doc0, DocForms
<1>2. T!Resting \in TopicPasses /\ T!Resting.at = "idle"
  BY <1>1 DEF T!Resting, TopicPasses
<1>3. doc \in DocForms /\ topicPass[p] \in TopicPasses
  BY DEF TopicInv, TopicTypes
<1>4. topicPass[p].rev \in Nat /\ doc.rev \in Nat /\ doc.done \in Nat /\ doc.for \in Nat
  BY <1>3 DEF DocForms, TopicPasses
<1> QED  BY <1>1, <1>2, <1>3, <1>4 DEF SendingTopic, Busy

\* A step after which what was dealt with still is, and that begins no pass and no sending.
LEMMA TopicStepKeeps ==
  ASSUME T!TopicAssumption, TopicInv, TopicTypes', topics' = topics,
         doc'.rev >= doc.rev, doc'.claim # Unclaimed => doc'.for <= doc'.rev,
         \A r \in Nat : Dealt(r) => Dealt(r)',
         \A p \in Processes :
           \/ topicPass'[p].at = "idle"
           \/ /\ Busy(p) /\ topicPass'[p].rev = topicPass[p].rev
               /\ doc'.done <= topicPass[p].rev
              /\ SendingTopic(p)' => SendingTopic(p)
  PROVE  TopicInv'
<1>1. ASSUME NEW p \in Processes, Busy(p)'
      PROVE  /\ Busy(p) /\ topicPass'[p].rev = topicPass[p].rev
                 /\ doc'.done <= topicPass[p].rev
             /\ SendingTopic(p)' => SendingTopic(p)
  BY <1>1 DEF Busy
<1>2. \A p \in Processes : SendingTopic(p)' => Busy(p)'
  BY DEF SendingTopic, Busy
<1>3. PassesFit'
  <2>1. ASSUME NEW p \in Processes, Busy(p)'
        PROVE  doc'.done <= topicPass'[p].rev /\ topicPass'[p].rev <= doc'.rev
    <3>1. topicPass[p].rev <= doc.rev /\ topicPass[p].rev \in Nat /\ doc.rev \in Nat
      BY <1>1, <2>1, TopicForms DEF TopicInv, PassesFit
    <3>2. doc'.rev \in Nat
      BY DEF TopicTypes, DocForms
    <3> QED  BY <1>1, <2>1, <3>1, <3>2
  <2>2. ASSUME NEW p \in Processes, NEW q \in Processes, Busy(p)', Busy(q)'
        PROVE  topicPass'[p].rev = topicPass'[q].rev
    BY <1>1, <2>2 DEF TopicInv, PassesFit
  <2> QED  BY <2>1, <2>2 DEF PassesFit
<1>4. SendingFits'
  <2>1. ASSUME NEW p \in Processes, SendingTopic(p)'
        PROVE  /\ Dealt(topicPass[p].rev)' /\ topicPass'[p].rev = topicPass[p].rev
                   /\ SendingTopic(p)
               /\ topicPass[p].rev \in T!Revs => topics'[topicPass[p].rev] = 0
    <3>1. SendingTopic(p) /\ topicPass'[p].rev = topicPass[p].rev
      BY <1>1, <1>2, <2>1
    <3>2. topicPass[p].rev \in Nat /\ Dealt(topicPass[p].rev)
      BY <3>1, TopicForms DEF TopicInv, SendingFits
    <3>3. \A r \in Nat : Dealt(r) => Dealt(r)'
      OBVIOUS
    <3>4. Dealt(topicPass[p].rev) => doc'.rev > topicPass[p].rev
              \/ doc'.done >= topicPass[p].rev
                                \/ (doc'.claim # Unclaimed /\ doc'.for = topicPass[p].rev)
      BY <3>2, <3>3 DEF Dealt
    <3>5. Dealt(topicPass[p].rev)'
      BY <3>1, <3>2, <3>4 DEF Dealt
    <3> QED  BY <3>1, <3>5 DEF TopicInv, SendingFits
  <2>2. ASSUME NEW p \in Processes, NEW q \in Processes, SendingTopic(p)', SendingTopic(q)'
        PROVE  p = q
    BY <2>1, <2>2 DEF TopicInv, SendingFits
  <2> QED  BY <2>1, <2>2 DEF SendingFits
<1>5. TopicsFit'
  BY DEF TopicInv, TopicsFit, T!Revs
<1> QED  BY <1>3, <1>4, <1>5 DEF TopicInv

\* Activity, a switch or time: the revision may grow.
LEMMA DocGrows ==
  ASSUME T!TopicAssumption, TopicInv, doc' \in DocForms, doc'.rev >= doc.rev,
         doc'.done = doc.done,
         doc'.claim = doc.claim, doc'.for = doc.for
  PROVE  /\ doc'.claim # Unclaimed => doc'.for <= doc'.rev
         /\ \A r \in Nat : Dealt(r) => Dealt(r)'
<1>1. /\ doc.rev \in Nat /\ doc.done \in Nat /\ doc.for \in Nat
      /\ doc'.rev \in Nat
  BY DEF TopicInv, TopicTypes, DocForms
<1> QED  BY <1>1 DEF TopicInv, PassesFit, Dealt

\* A pass deals with its revision.
LEMMA DocDone ==
  ASSUME T!TopicAssumption, TopicInv, NEW p \in Processes, Busy(p),
         \/ doc' = [doc EXCEPT !.done = topicPass[p].rev]
         \/ doc' = T!Finalized(topicPass[p].rev, doc) /\ doc.claim # Unclaimed
             /\ doc.for = topicPass[p].rev
  PROVE  /\ doc' \in DocForms /\ doc'.rev = doc.rev /\ doc'.done = topicPass[p].rev
         /\ doc'.done >= doc.done
         /\ doc'.claim # Unclaimed => doc'.for <= doc'.rev
         /\ \A r \in Nat : Dealt(r) => Dealt(r)'
         /\ \A q \in Processes : Busy(q) => doc'.done <= topicPass[q].rev
<1>1. /\ doc.rev \in Nat /\ doc.done \in Nat /\ doc.for \in Nat /\ topicPass[p].rev \in Nat
      /\ doc \in DocForms
  BY TopicForms
<1>2. /\ doc' \in DocForms /\ doc'.rev = doc.rev /\ doc'.done = topicPass[p].rev
      /\ doc'.claim # Unclaimed => doc'.claim = doc.claim /\ doc'.for = doc.for
      /\ \/ doc'.claim = doc.claim /\ doc'.for = doc.for
         \/ doc.claim # Unclaimed /\ doc.for = topicPass[p].rev
  <2>1. doc' = DocDealt(doc, topicPass[p].rev) \/ doc' = T!Finalized(topicPass[p].rev, doc)
    BY Zenon DEF DocDealt
  <2>2. doc' = DocDealt(doc, topicPass[p].rev) \/ (doc.claim # Unclaimed
            /\ doc.for = topicPass[p].rev)
    BY Zenon DEF DocDealt
  <2>d. topicPass[p].rev \in Nat /\ doc \in DocForms
    BY <1>1
  <2>e. ASSUME NEW n \in Nat, NEW d \in DocForms, n = topicPass[p].rev, d = doc
        PROVE  /\ DocDealt(d, n) \in DocForms /\ DocDealt(d, n).rev = d.rev
               /\ DocDealt(d, n).done = n
               /\ DocDealt(d, n).claim = d.claim /\ DocDealt(d, n).for = d.for
               /\ T!Finalized(n, d) \in DocForms /\ T!Finalized(n, d).rev = d.rev
               /\ T!Finalized(n, d).done = n /\ T!Finalized(n, d).claim = Unclaimed
    BY <2>e, DocDealtFits
  <2>3. CASE doc' = DocDealt(doc, topicPass[p].rev)
    <3>1. /\ DocDealt(doc, topicPass[p].rev) \in DocForms
          /\ DocDealt(doc, topicPass[p].rev).rev = doc.rev
          /\ DocDealt(doc, topicPass[p].rev).done = topicPass[p].rev
          /\ DocDealt(doc, topicPass[p].rev).claim = doc.claim
          /\ DocDealt(doc, topicPass[p].rev).for = doc.for
      BY <2>d, <2>e, Zenon
    <3> QED  BY <2>3, <3>1, Zenon
  <2>4. CASE doc' = T!Finalized(topicPass[p].rev, doc)
    <3>1. /\ T!Finalized(topicPass[p].rev, doc) \in DocForms
          /\ T!Finalized(topicPass[p].rev, doc).rev = doc.rev
          /\ T!Finalized(topicPass[p].rev, doc).done = topicPass[p].rev
          /\ T!Finalized(topicPass[p].rev, doc).claim = Unclaimed
      BY <2>d, <2>e, Zenon
    <3>2. CASE doc' = DocDealt(doc, topicPass[p].rev)
      BY <2>3, <3>2
    <3>3. CASE doc.claim # Unclaimed /\ doc.for = topicPass[p].rev
      BY <2>4, <3>1, <3>3, Zenon
    <3> QED  BY <2>2, <3>2, <3>3
  <2> QED  BY <2>1, <2>3, <2>4
<1>3. doc.done <= topicPass[p].rev
  BY DEF TopicInv, PassesFit
<1>4. \A r \in Nat : Dealt(r) => Dealt(r)'
  BY <1>1, <1>2, <1>3 DEF Dealt
<1>5. \A q \in Processes : Busy(q) => topicPass[q].rev = topicPass[p].rev
  BY DEF TopicInv, PassesFit
<1> QED  BY <1>1, <1>2, <1>3, <1>4, <1>5 DEF TopicInv, PassesFit

\* The document after an attempt that lost.
LEMMA CommitLost ==
  ASSUME T!TopicAssumption, TopicInv, NEW p \in Processes, Busy(p), ~SendingTopic(p),
         \/ T!Ends(p)
         \/ topicPass' = [topicPass EXCEPT ![p] = Retried(p)]
  PROVE  /\ topicPass' \in [Processes -> TopicPasses]
         /\ \A q \in Processes :
              \/ topicPass'[q].at = "idle"
              \/ Busy(q) /\ topicPass'[q].rev = topicPass[q].rev /\ (SendingTopic(q)'
                  => SendingTopic(q))
<1> DEFINE x == PassAgain(topicPass[p], doc, topicPass[p].tries - 1)
<1>1. /\ topicPass[p] \in TopicPasses /\ doc \in DocForms /\ T!Resting \in TopicPasses
      /\ T!Resting.at = "idle"
  BY TopicForms
<1>2. x \in TopicPasses /\ x.at = topicPass[p].at /\ x.rev = topicPass[p].rev
  <2>1. topicPass[p].tries - 1 \in Int
    BY <1>1 DEF TopicPasses
  <2>2. topicPass[p].rev \in Nat
    BY <1>1 DEF TopicPasses
  <2> QED  BY <1>1, <2>1, PassAgainFits, SMTT(60)
<1>3. topicPass' = [topicPass EXCEPT ![p] = T!Resting]
          \/ topicPass' = [topicPass EXCEPT ![p] = x]
  BY Zenon DEF T!Ends, Retried
<1> HIDE DEF x
<1>4. topicPass' \in [Processes -> TopicPasses]
  BY <1>1, <1>2, <1>3 DEF TopicInv, TopicTypes
<1>5. ASSUME NEW q \in Processes
      PROVE  \/ topicPass'[q].at = "idle"
             \/ Busy(q) /\ topicPass'[q].rev = topicPass[q].rev /\ (SendingTopic(q)'
                 => SendingTopic(q))
  <2>1. CASE q = p
    <3>1. topicPass'[q] = T!Resting \/ topicPass'[q] = x
      BY <1>3, <2>1 DEF TopicInv, TopicTypes
    <3> QED  BY <1>1, <1>2, <2>1, <3>1 DEF SendingTopic, Busy
  <2>2. CASE q # p
    BY <1>3, <2>2 DEF TopicInv, TopicTypes, SendingTopic, Busy
  <2> QED  BY <2>1, <2>2
<1> QED  BY <1>4, <1>5

\* A pass that is over, resumes or goes on to a step that sends nothing.
LEMMA PassGoes ==
  ASSUME T!TopicAssumption, TopicInv, NEW p \in Processes, NEW x \in TopicPasses,
         topicPass' = [topicPass EXCEPT ![p] = x], x.at = "idle" \/ (Busy(p)
             /\ x.rev = topicPass[p].rev),
         x.at \in {"recheck", "deliver"} => SendingTopic(p)
  PROVE  /\ topicPass' \in [Processes -> TopicPasses]
         /\ \A q \in Processes :
              \/ topicPass'[q].at = "idle"
              \/ Busy(q) /\ topicPass'[q].rev = topicPass[q].rev /\ (SendingTopic(q)'
                  => SendingTopic(q))
<1>1. topicPass' \in [Processes -> TopicPasses]
  BY DEF TopicInv, TopicTypes
<1>2. ASSUME NEW q \in Processes
      PROVE  \/ topicPass'[q].at = "idle"
             \/ Busy(q) /\ topicPass'[q].rev = topicPass[q].rev /\ (SendingTopic(q)'
                 => SendingTopic(q))
  <2>1. CASE q = p
    BY <2>1 DEF TopicInv, TopicTypes, SendingTopic, Busy
  <2>2. CASE q # p
    BY <2>2 DEF TopicInv, TopicTypes, SendingTopic, Busy
  <2> QED  BY <2>1, <2>2
<1> QED  BY <1>1, <1>2

\* With the document as it was, such a step keeps everything.
LEMMA QuietStepKeeps ==
  ASSUME T!TopicAssumption, TopicInv, UNCHANGED <<doc, topics>>,
         topicHeard' \in [Processes -> Nat],
         topicPass' \in [Processes -> TopicPasses],
         \A q \in Processes :
           \/ topicPass'[q].at = "idle"
           \/ Busy(q) /\ topicPass'[q].rev = topicPass[q].rev /\ (SendingTopic(q)'
               => SendingTopic(q))
  PROVE  TopicInv'
<1>1. TopicTypes'
  BY DEF TopicInv, TopicTypes
<1>2. doc'.rev >= doc.rev /\ (doc'.claim # Unclaimed => doc'.for <= doc'.rev)
  BY DEF TopicInv, TopicTypes, DocForms, PassesFit
<1>3. \A r \in Nat : Dealt(r) => Dealt(r)'
  BY DEF Dealt
<1>4. \A q \in Processes : Busy(q) => doc'.done <= topicPass[q].rev
  BY DEF TopicInv, PassesFit
<1> QED  BY <1>1, <1>2, <1>3, <1>4, TopicStepKeeps

\* Messages, the writer's reading and storing, and the administrators.
LEMMA ActivityKeeps ==
  ASSUME T!TopicAssumption, TopicInv,
         \/ \E p \in Processes : T!Speak(p) \/ T!WriterReads(p) \/ T!WriterStores(p)
         \/ T!Lapse \/ T!Command \/ T!Opened \/ T!Saved
  PROVE  TopicInv' /\ doc'.done >= doc.done
<1>0. doc \in DocForms /\ doc.done \in Nat /\ doc.rev \in Nat
  BY DEF TopicInv, TopicTypes, DocForms
<1>1. UNCHANGED <<topicPass, topics>> /\ topicHeard' \in [Processes -> Nat]
  <2>1. topicHeard \in [Processes -> Nat]
    BY DEF TopicInv, TopicTypes
  <2>2. UNCHANGED <<topicPass, topics>>
        /\ (topicHeard' = topicHeard \/ \E p \in Processes :
            topicHeard' = [topicHeard EXCEPT ![p] = @ + 1])
    BY Zenon DEF T!Speak, T!Heard, T!WriterReads, T!WriterStores, T!Lapse, T!Command,
       T!Opened, T!Saved
  <2> QED  BY <2>1, <2>2
<1>2. \/ doc' = doc \/ doc' = T!Active(doc) \/ doc' = [doc EXCEPT !.lapsed = TRUE]
      \/ \E b \in BOOLEAN : doc' = T!Switched(doc, b)
  <2>1. doc.on \in BOOLEAN /\ (~doc.on) \in BOOLEAN
    BY <1>0 DEF DocForms
  <2> QED
    BY <2>1 DEF T!Speak, T!WriterReads, T!WriterStores, T!Lapse, T!Command, T!Opened, T!Saved
<1>3. /\ doc' \in DocForms /\ doc'.rev >= doc.rev /\ doc'.done = doc.done
      /\ doc'.claim = doc.claim /\ doc'.for = doc.for
  <2>1. doc.rev + 1 \in Nat /\ doc.rev + 1 >= doc.rev /\ doc.rev >= doc.rev
    BY <1>0
  <2>2. \A n \in Nat : LET e == [doc EXCEPT !.rev = n]
        IN e \in DocForms /\ e.rev = n /\ e.done = doc.done /\ e.claim = doc.claim
            /\ e.for = doc.for
    BY <1>0, DocForm, TRUE \in BOOLEAN, Unclaimed \in Processes \cup {Unclaimed},
       Zenon DEF DocForms
  <2>3. \A n \in Nat, b \in BOOLEAN : LET e == [doc EXCEPT !.on = b, !.rev = n]
        IN e \in DocForms /\ e.rev = n /\ e.done = doc.done /\ e.claim = doc.claim
            /\ e.for = doc.for
    BY <1>0, DocForm, Unclaimed \in Processes \cup {Unclaimed}, Zenon DEF DocForms
  <2>4. LET e == [doc EXCEPT !.lapsed = TRUE]
        IN /\ e \in DocForms /\ e.rev = doc.rev /\ e.done = doc.done /\ e.claim = doc.claim
           /\ e.for = doc.for
    BY <1>0, DocForm, TRUE \in BOOLEAN, Unclaimed \in Processes \cup {Unclaimed},
       Zenon DEF DocForms
  <2>5. CASE doc' = T!Active(doc)
    BY <2>1, <2>2, <2>5 DEF T!Active
  <2>6. CASE \E b \in BOOLEAN : doc' = T!Switched(doc, b)
    <3>1. PICK b \in BOOLEAN : doc' = T!Switched(doc, b)
      BY <2>6
    <3>2. PICK n \in {doc.rev, doc.rev + 1} : doc' = [doc EXCEPT !.on = b, !.rev = n]
      BY <3>1 DEF T!Switched
    <3> QED  BY <1>0, <2>1, <2>3, <3>2
  <2>7. CASE doc' = doc \/ doc' = [doc EXCEPT !.lapsed = TRUE]
    BY <1>0, <2>1, <2>4, <2>7
  <2> QED  BY <1>2, <2>5, <2>6, <2>7
<1>4. TopicTypes'
  BY <1>1, <1>3 DEF TopicInv, TopicTypes
<1>5. \A p \in Processes :
        \/ topicPass'[p].at = "idle"
        \/ /\ Busy(p) /\ topicPass'[p].rev = topicPass[p].rev /\ doc'.done <= topicPass[p].rev
           /\ SendingTopic(p)' => SendingTopic(p)
  BY <1>1, <1>3 DEF TopicInv, PassesFit, Busy, SendingTopic
<1>6. /\ doc'.claim # Unclaimed => doc'.for <= doc'.rev
      /\ \A r \in Nat : Dealt(r) => Dealt(r)'
  BY <1>3, DocGrows
<1> QED  BY <1>0, <1>1, <1>3, <1>4, <1>5, <1>6, TopicStepKeeps

\* A pass begins, for the present revision.
LEMMA PassBeginKeeps ==
  ASSUME T!TopicAssumption, TopicInv, NEW p \in Processes, T!Begin(p)
  PROVE  TopicInv' /\ doc' = doc
<1>1. /\ topicPass[p].at = "idle" /\ doc.rev > doc.done
      /\ \A q \in Processes : topicPass[q].at = "idle" \/ topicPass[q].rev = doc.rev
      /\ UNCHANGED <<doc, topicHeard, topics>>
  BY DEF T!Begin
<1>2. doc \in DocForms /\ doc.rev \in Nat /\ doc.done \in Nat /\ topicPass[p] \in TopicPasses
      /\ topicHeard[p] \in Nat
  BY TopicForms DEF TopicInv, TopicTypes
<1>3. PICK x \in TopicPasses : /\ topicPass' = [topicPass EXCEPT ![p] = x] /\ x.rev = doc.rev
                               /\ x.at \in {"resolve", "generate"}
  <2>1. CasTries \in Int
    BY DEF T!TopicAssumption
  <2> DEFINE x == PassResolves(topicPass[p], doc.rev, doc, CasTries)
             y == PassGenerates(topicPass[p], doc.rev, topicHeard[p])
  <2>2. /\ x \in TopicPasses /\ x.at = "resolve" /\ x.rev = doc.rev
        /\ y \in TopicPasses /\ y.at = "generate" /\ y.rev = doc.rev
    <3>1. ASSUME NEW z \in TopicPasses, NEW d \in DocForms, NEW n \in Int, NEW r \in Nat
          PROVE  /\ PassResolves(z, r, d, n) \in TopicPasses
                 /\ PassResolves(z, r, d, n).at = "resolve" /\ PassResolves(z, r, d, n).rev = r
      BY PassResolvesFits
    <3>2. ASSUME NEW z \in TopicPasses, NEW r \in Nat, NEW h \in Nat
          PROVE  /\ PassGenerates(z, r, h) \in TopicPasses
                 /\ PassGenerates(z, r, h).at = "generate" /\ PassGenerates(z, r, h).rev = r
      BY PassGeneratesFits
    <3>3. x \in TopicPasses /\ x.at = "resolve" /\ x.rev = doc.rev
      BY <1>2, <2>1, <3>1, Zenon
    <3>4. y \in TopicPasses /\ y.at = "generate" /\ y.rev = doc.rev
      BY <1>2, <3>2, Zenon
    <3> QED  BY <3>3, <3>4
  <2>3. topicPass' = [topicPass EXCEPT ![p] = x] \/ topicPass' = [topicPass EXCEPT ![p] = y]
    BY Zenon DEF T!Begin, PassResolves, PassGenerates
  <2> HIDE DEF x, y
  <2> QED  BY <2>2, <2>3
<1>4. topicPass'[p] = x /\ (\A q \in Processes : q # p => topicPass'[q] = topicPass[q])
      /\ topicPass' \in [Processes -> TopicPasses]
  BY <1>3 DEF TopicInv, TopicTypes
<1>5. TopicTypes'
  BY <1>1, <1>4 DEF TopicInv, TopicTypes
<1>6. \A q \in Processes : Busy(q)' => topicPass'[q].rev = doc.rev
  BY <1>1, <1>3, <1>4 DEF Busy
<1>7. PassesFit'
  <2>1. doc.done <= doc.rev /\ doc.rev <= doc.rev
    BY <1>1, <1>2
  <2>2. doc.claim # Unclaimed => doc.for <= doc.rev
    BY DEF TopicInv, PassesFit
  <2> QED  BY <1>1, <1>6, <2>1, <2>2 DEF PassesFit
<1>8. \A q \in Processes : SendingTopic(q)' => SendingTopic(q) /\ topicPass'[q] = topicPass[q]
  BY <1>3, <1>4 DEF SendingTopic
<1>9. SendingFits'
  BY <1>1, <1>8 DEF TopicInv, SendingFits, Dealt, T!Revs
<1>10. TopicsFit'
  BY <1>1 DEF TopicInv, TopicsFit, Dealt, T!Revs
<1> QED  BY <1>1, <1>5, <1>7, <1>9, <1>10 DEF TopicInv

\* A pass resolves an old claim, skips its revision or finishes what it sent.
LEMMA DealKeeps ==
  ASSUME T!TopicAssumption, TopicInv, NEW p \in Processes, T!Resolve(p) \/ T!Skip(p)
      \/ T!Finish(p)
  PROVE  TopicInv' /\ doc'.done >= doc.done
<1> DEFINE r == topicPass[p].rev
<1>1. UNCHANGED <<topicHeard, topics>> /\ topicPass[p].at \in {"resolve", "skip", "finish"}
  BY DEF T!Resolve, T!Skip, T!Finish
<1>2. Busy(p) /\ ~SendingTopic(p) /\ doc \in DocForms /\ doc.done \in Nat
  BY <1>1, TopicForms DEF Busy, SendingTopic
<1>3. /\ T!Ends(p) \/ topicPass' = [topicPass EXCEPT ![p] = Retried(p)]
      /\ \/ doc' = doc \/ doc' = [doc EXCEPT !.done = r]
         \/ doc' = T!Finalized(r, doc) /\ doc.claim # Unclaimed /\ doc.for = r
  <2>1. CASE T!Resolve(p)
    BY <2>1, Zenon DEF T!Resolve, T!Commit, Retried, PassAgain
  <2>2. CASE T!Skip(p)
    BY <2>2, Zenon DEF T!Skip, T!Commit, Retried, PassAgain
  <2>3. CASE T!Finish(p)
    <3>1. p # Unclaimed  BY DEF T!TopicAssumption
    <3>2. /\ T!Ends(p) \/ topicPass' = [topicPass EXCEPT ![p] = Retried(p)]
          /\ \/ doc' = doc
             \/ doc' = T!Finalized(r, doc) /\ doc.claim = p /\ doc.for = r
      BY <2>3, Zenon DEF T!Finish, T!Commit, Retried, PassAgain
    <3> QED  BY <3>1, <3>2, Zenon
  <2> QED  BY <2>1, <2>2, <2>3
<1>4. /\ topicPass' \in [Processes -> TopicPasses]
      /\ \A q \in Processes :
           \/ topicPass'[q].at = "idle"
           \/ Busy(q) /\ topicPass'[q].rev = topicPass[q].rev /\ (SendingTopic(q)'
               => SendingTopic(q))
  BY <1>2, <1>3, CommitLost
<1>5. topicHeard' \in [Processes -> Nat]
  BY <1>1 DEF TopicInv, TopicTypes
<1>6. CASE doc' = doc
  <2>1. TopicInv'
    BY <1>1, <1>4, <1>5, <1>6, QuietStepKeeps
  <2> QED  BY <1>2, <1>6, <2>1
<1>7. CASE doc' # doc
  <2>1. /\ doc' \in DocForms /\ doc'.rev = doc.rev /\ doc'.done >= doc.done
        /\ doc'.claim # Unclaimed => doc'.for <= doc'.rev
        /\ \A s \in Nat : Dealt(s) => Dealt(s)'
        /\ \A q \in Processes : Busy(q) => doc'.done <= topicPass[q].rev
    BY <1>2, <1>3, <1>7, DocDone
  <2>2. TopicTypes'
    BY <1>1, <1>4, <1>5, <2>1 DEF TopicInv, TopicTypes
  <2>3. doc'.rev >= doc.rev
    BY <1>2, <2>1 DEF DocForms
  <2>4. \A q \in Processes :
          \/ topicPass'[q].at = "idle"
          \/ /\ Busy(q) /\ topicPass'[q].rev = topicPass[q].rev
              /\ doc'.done <= topicPass[q].rev
             /\ SendingTopic(q)' => SendingTopic(q)
    BY <1>4, <2>1
  <2>5. TopicInv'
    BY <1>1, <2>1, <2>2, <2>3, <2>4, TopicStepKeeps
  <2> QED  BY <2>1, <2>5
<1> QED  BY <1>6, <1>7

\* A pass generates, looks again, or is cut off.
LEMMA PassMovesKeeps ==
  ASSUME T!TopicAssumption, TopicInv, NEW p \in Processes, T!Generate(p) \/ T!Check(p)
      \/ T!Cut(p) \/ T!Crash(p)
  PROVE  TopicInv' /\ doc' = doc
<1>1. UNCHANGED <<doc, topics>> /\ topicHeard' \in [Processes -> Nat]
  BY DEF T!Generate, T!Check, T!Cut, T!Crash, TopicInv, TopicTypes
<1>2. /\ topicPass[p] \in TopicPasses /\ doc \in DocForms /\ T!Doc0 \in DocForms
      /\ T!Resting \in TopicPasses /\ T!Resting.at = "idle"
  BY TopicForms
<1>3. CasTries \in Int /\ 0 \in Int
  BY DEF T!TopicAssumption
<1>4. ASSUME NEW s \in {"check", "skip", "claim", "deliver"}
      PROVE
        /\ PassAt(topicPass[p], s, T!Doc0, 0) \in TopicPasses
        /\ PassAt(topicPass[p], s, doc, CasTries) \in TopicPasses
        /\ PassAt(topicPass[p], s, T!Doc0, 0).at = s
            /\ PassAt(topicPass[p], s, T!Doc0, 0).rev = topicPass[p].rev
        /\ PassAt(topicPass[p], s, doc, CasTries).at = s
        /\ PassAt(topicPass[p], s, doc, CasTries).rev = topicPass[p].rev
  <2>1. topicPass[p].rev \in Nat
    BY <1>2 DEF TopicPasses
  <2>2. ASSUME NEW y \in TopicPasses, NEW d \in DocForms, NEW n \in Int
        PROVE  PassAt(y, s, d, n) \in TopicPasses /\ PassAt(y, s, d, n).at = s
               /\ PassAt(y, s, d, n).rev = y.rev
    <3>1. CASE s = "check"  BY <2>2, <3>1, PassAtFits
    <3>2. CASE s = "skip"  BY <2>2, <3>2, PassAtFits
    <3>3. CASE s = "claim"  BY <2>2, <3>3, PassAtFits
    <3>4. CASE s = "deliver"  BY <2>2, <3>4, PassAtFits
    <3> QED  BY <1>4, <3>1, <3>2, <3>3, <3>4
  <2> QED  BY <1>2, <1>3, <2>2, Zenon
<1>5. PICK x \in TopicPasses :
        /\ topicPass' = [topicPass EXCEPT ![p] = x]
        /\ x.at = "idle" \/ (Busy(p) /\ x.rev = topicPass[p].rev)
        /\ x.at \in {"recheck", "deliver"} => SendingTopic(p)
  <2>1. CASE T!Generate(p)
    <3>1. PICK x \in {PassAt(topicPass[p], "check", T!Doc0, 0), PassAt(topicPass[p], "skip",
    doc, CasTries)} :
            topicPass' = [topicPass EXCEPT ![p] = x]
      BY <2>1, Zenon DEF T!Generate, T!Goes, T!Reads, PassAt
    <3>2. Busy(p) /\ x \in TopicPasses /\ x.rev = topicPass[p].rev
              /\ x.at \in {"check", "skip"}
      BY <1>4, <2>1 DEF T!Generate, Busy
    <3> QED  BY <3>1, <3>2
  <2>2. CASE T!Check(p)
    <3>1. PICK x \in {T!Resting, PassAt(topicPass[p], "claim", doc, CasTries),
                      PassAt(topicPass[p], "deliver", T!Doc0, 0)} :
            /\ topicPass' = [topicPass EXCEPT ![p] = x]
            /\ x = PassAt(topicPass[p], "deliver", T!Doc0, 0) /\ x # T!Resting
                 /\ x # PassAt(topicPass[p], "claim", doc, CasTries)
                     => topicPass[p].at # "check"
      BY <2>2, Zenon DEF T!Check, T!Goes, T!Reads, T!Ends, PassAt
    <3>2. Busy(p) /\ topicPass[p].at \in {"check", "recheck"}
      BY <2>2 DEF T!Check, Busy
    <3>3. CASE x = T!Resting
      BY <1>2, <3>1, <3>3
    <3>4. CASE x = PassAt(topicPass[p], "claim", doc, CasTries)
      BY <1>4, <3>1, <3>2, <3>4
    <3>5. CASE x # T!Resting /\ x # PassAt(topicPass[p], "claim", doc, CasTries)
      BY <1>4, <3>1, <3>2, <3>5 DEF SendingTopic
    <3> QED  BY <3>3, <3>4, <3>5
  <2>3. CASE T!Cut(p) \/ T!Crash(p)
    BY <1>2, <2>3 DEF T!Cut, T!Crash, T!Ends
  <2> QED  BY <2>1, <2>2, <2>3
<1>6. /\ topicPass' \in [Processes -> TopicPasses]
      /\ \A q \in Processes :
           \/ topicPass'[q].at = "idle"
           \/ Busy(q) /\ topicPass'[q].rev = topicPass[q].rev /\ (SendingTopic(q)'
               => SendingTopic(q))
  BY <1>5, PassGoes
<1>7. TopicInv'
  BY <1>1, <1>6, QuietStepKeeps
<1> QED  BY <1>1, <1>7

\* A claim closes its revision to every other pass.
LEMMA TopicClaimKeeps ==
  ASSUME T!TopicAssumption, TopicInv, NEW p \in Processes, T!Claim(p)
  PROVE  TopicInv' /\ doc'.done = doc.done
<1> DEFINE r == topicPass[p].rev
<1>1. UNCHANGED <<topicHeard, topics>> /\ topicPass[p].at = "claim"
          /\ topicHeard' \in [Processes -> Nat]
  BY DEF T!Claim, TopicInv, TopicTypes
<1>2. /\ Busy(p) /\ ~SendingTopic(p) /\ doc \in DocForms /\ doc.done \in Nat /\ doc.rev \in Nat
      /\ doc.for \in Nat /\ topicPass[p] \in TopicPasses /\ r \in Nat /\ T!Doc0 \in DocForms
  BY <1>1, TopicForms DEF Busy, SendingTopic
<1>3. \/ UNCHANGED doc
         /\ (T!Ends(p) \/ topicPass' = [topicPass EXCEPT ![p] = Retried(p)])
      \/ /\ T!Claimable(p, doc) /\ T!Goes(p, "recheck")
         /\ doc' = [doc EXCEPT !.claim = p, !.for = r, !.lapsed = FALSE]
  BY Zenon DEF T!Claim, T!Commit, Retried, PassAgain
<1>4. CASE UNCHANGED doc
             /\ (T!Ends(p) \/ topicPass' = [topicPass EXCEPT ![p] = Retried(p)])
  <2>1. /\ topicPass' \in [Processes -> TopicPasses]
        /\ \A q \in Processes :
             \/ topicPass'[q].at = "idle"
             \/ Busy(q) /\ topicPass'[q].rev = topicPass[q].rev /\ (SendingTopic(q)'
                 => SendingTopic(q))
    BY <1>2, <1>4, CommitLost
  <2> QED  BY <1>1, <1>4, <2>1, QuietStepKeeps
<1>5. CASE /\ T!Claimable(p, doc) /\ T!Goes(p, "recheck")
           /\ doc' = [doc EXCEPT !.claim = p, !.for = r, !.lapsed = FALSE]
  <2> DEFINE x == PassAt(topicPass[p], "recheck", T!Doc0, 0)
  <2>1. x \in TopicPasses /\ x.at = "recheck" /\ x.rev = r
    <3>1. topicPass[p] \in TopicPasses /\ T!Doc0 \in DocForms /\ 0 \in Int
      BY <1>2
    <3> QED  BY <3>1, PassAtFits, SMTT(60)
  <2>2. topicPass' = [topicPass EXCEPT ![p] = x]
    BY <1>5, Zenon DEF T!Goes, PassAt
  <2> HIDE DEF x
  <2>3. topicPass'[p] = x /\ (\A q \in Processes : q # p => topicPass'[q] = topicPass[q])
        /\ topicPass' \in [Processes -> TopicPasses]
    BY <2>1, <2>2 DEF TopicInv, TopicTypes
  <2>4. /\ doc' \in DocForms /\ doc'.claim = p /\ doc'.for = r /\ doc'.rev = doc.rev
        /\ doc'.done = doc.done
    <3>1. doc' = DocClaimed(doc, p, r)
      BY <1>5, Zenon DEF DocClaimed
    <3> QED  BY <1>2, <3>1, DocClaimedFits, SMTT(60)
  <2>5. doc.rev = r /\ doc.done < r /\ ~(doc.claim # Unclaimed /\ doc.for = r)
    BY <1>5 DEF T!Claimable
  <2>6. ~Dealt(r)
    BY <1>2, <2>5 DEF Dealt
  <2>7. \A q \in Processes : ~SendingTopic(q)
    <3>1. ASSUME NEW q \in Processes, SendingTopic(q)  PROVE FALSE
      <4>1. Busy(q) /\ topicPass[q].rev = r
        BY <1>2, <3>1, TopicForms DEF TopicInv, PassesFit
      <4> QED  BY <2>6, <3>1, <4>1 DEF TopicInv, SendingFits
    <3> QED  BY <3>1
  <2>8. \A s \in Nat : Dealt(s) => Dealt(s)'
    <3>1. doc.claim # Unclaimed => doc.for <= doc.rev
      BY DEF TopicInv, PassesFit
    <3>2. doc'.claim # Unclaimed
      BY <2>4 DEF T!TopicAssumption
    <3> QED  BY <1>2, <2>4, <2>5, <3>1, <3>2 DEF Dealt
  <2>9. TopicTypes'
    BY <1>1, <2>3, <2>4 DEF TopicInv, TopicTypes
  <2>10. PassesFit'
    <3>1. ASSUME NEW q \in Processes, Busy(q)'
          PROVE  Busy(q) /\ topicPass'[q].rev = topicPass[q].rev
      BY <1>2, <2>1, <2>3, <3>1 DEF Busy
    <3>2. doc'.claim # Unclaimed => doc'.for <= doc'.rev
      BY <1>2, <2>4, <2>5
    <3>3. ASSUME NEW q \in Processes, Busy(q)'
          PROVE  doc'.done <= topicPass'[q].rev /\ topicPass'[q].rev <= doc'.rev
      BY <2>4, <3>1, <3>3 DEF TopicInv, PassesFit
    <3>4. ASSUME NEW q1 \in Processes, NEW q2 \in Processes, Busy(q1)', Busy(q2)'
          PROVE  topicPass'[q1].rev = topicPass'[q2].rev
      BY <3>1, <3>4 DEF TopicInv, PassesFit
    <3> QED  BY <3>2, <3>3, <3>4 DEF PassesFit
  <2>11. \A q \in Processes : SendingTopic(q)' => q = p
    BY <2>3, <2>7 DEF SendingTopic
  <2>12. SendingFits'
    <3>1. Dealt(topicPass[p].rev)'
      <4>1. doc'.claim # Unclaimed
        BY <2>4 DEF T!TopicAssumption
      <4> QED  BY <2>1, <2>3, <2>4, <4>1 DEF Dealt
    <3>2. topicPass'[p].rev = r /\ (r \in T!Revs => topics[r] = 0)
      <4>1. r \in T!Revs => topics[r] \in Nat /\ ~(topics[r] >= 1)
        BY <2>6 DEF TopicInv, TopicsFit, TopicTypes
      <4> QED  BY <2>1, <2>3, <4>1
    <3> QED  BY <1>1, <2>11, <3>1, <3>2 DEF SendingFits, T!Revs
  <2>13. TopicsFit'
    <3>1. ASSUME NEW s \in T!Revs  PROVE topics[s] <= 1 /\ (topics[s] >= 1 => Dealt(s)')
      <4>1. s \in Nat
        BY DEF T!Revs, T!TopicAssumption
      <4>2. topics[s] <= 1 /\ (topics[s] >= 1 => Dealt(s))
        BY DEF TopicInv, TopicsFit
      <4> QED  BY <2>8, <4>1, <4>2
    <3> QED  BY <1>1, <3>1 DEF TopicsFit, T!Revs
  <2> QED  BY <2>4, <2>9, <2>10, <2>12, <2>13 DEF TopicInv
<1> QED  BY <1>3, <1>4, <1>5

\* The topic is sent, or may have been: it is the first for its revision.
LEMMA TopicDeliverKeeps ==
  ASSUME T!TopicAssumption, TopicInv, NEW p \in Processes, T!Deliver(p)
  PROVE  TopicInv' /\ doc' = doc
<1> DEFINE r == topicPass[p].rev
<1>1. UNCHANGED <<doc, topicHeard>> /\ topicPass[p].at = "deliver"
  BY DEF T!Deliver
<1>2. /\ Busy(p) /\ SendingTopic(p) /\ doc \in DocForms /\ topicPass[p] \in TopicPasses
          /\ r \in Nat
      /\ T!Resting \in TopicPasses /\ T!Resting.at = "idle"
  BY <1>1, TopicForms DEF Busy, SendingTopic
<1>3. topics' = topics \/ topics' = [topics EXCEPT ![r] = @ + 1]
  BY DEF T!Deliver
<1>4. PICK x \in TopicPasses : /\ topicPass' = [topicPass EXCEPT ![p] = x]
                               /\ x.at = "idle" \/ (x.at = "finish" /\ x.rev = r)
  <2>1. CasTries \in Int
    BY DEF T!TopicAssumption
  <2> DEFINE x == PassAt(topicPass[p], "finish", doc, CasTries)
  <2>2. x \in TopicPasses /\ x.at = "finish" /\ x.rev = r
    <3>1. ASSUME NEW y \in TopicPasses, NEW d \in DocForms, NEW n \in Int
          PROVE  PassAt(y, "finish", d, n) \in TopicPasses
                 /\ PassAt(y, "finish", d, n).at = "finish"
                 /\ PassAt(y, "finish", d, n).rev = y.rev
      BY PassAtFits
    <3> QED  BY <1>2, <2>1, <3>1, Zenon
  <2>3. topicPass' = [topicPass EXCEPT ![p] = T!Resting]
            \/ topicPass' = [topicPass EXCEPT ![p] = x]
    BY Zenon DEF T!Deliver, T!Reads, T!Ends, PassAt
  <2> HIDE DEF x
  <2> QED  BY <1>2, <2>2, <2>3
<1>5. topicPass'[p] = x /\ (\A q \in Processes : q # p => topicPass'[q] = topicPass[q])
      /\ topicPass' \in [Processes -> TopicPasses]
  BY <1>4 DEF TopicInv, TopicTypes
<1>6. topics' \in [T!Revs -> Nat] /\ \A s \in T!Revs : topics'[s] = topics[s]
                                                    \/ (s = r /\ topics'[s] = topics[s] + 1)
  BY <1>3 DEF TopicInv, TopicTypes
<1>7. TopicTypes'
  BY <1>1, <1>5, <1>6 DEF TopicInv, TopicTypes
<1>8. \A q \in Processes : ~SendingTopic(q)'
  <2>1. \A q \in Processes : SendingTopic(q) => q = p
    BY <1>2 DEF TopicInv, SendingFits
  <2> QED  BY <1>4, <1>5, <2>1 DEF SendingTopic
<1>9. PassesFit'
  <2>1. ASSUME NEW q \in Processes, Busy(q)'
    PROVE Busy(q) /\ topicPass'[q].rev = topicPass[q].rev
    BY <1>2, <1>4, <1>5, <2>1 DEF Busy
  <2>2. ASSUME NEW q \in Processes, Busy(q)'
        PROVE  doc'.done <= topicPass'[q].rev /\ topicPass'[q].rev <= doc'.rev
    BY <1>1, <2>1, <2>2 DEF TopicInv, PassesFit
  <2>3. ASSUME NEW q1 \in Processes, NEW q2 \in Processes, Busy(q1)', Busy(q2)'
        PROVE  topicPass'[q1].rev = topicPass'[q2].rev
    BY <2>1, <2>3 DEF TopicInv, PassesFit
  <2>4. doc'.claim # Unclaimed => doc'.for <= doc'.rev
    BY <1>1 DEF TopicInv, PassesFit
  <2> QED  BY <2>2, <2>3, <2>4 DEF PassesFit
<1>10. SendingFits'
  BY <1>8 DEF SendingFits
<1>11. TopicsFit'
  <2>1. ASSUME NEW s \in T!Revs
        PROVE  topics'[s] <= 1 /\ (topics'[s] >= 1 => Dealt(s))
    <3>1. topics[s] \in Nat /\ topics[s] <= 1 /\ (topics[s] >= 1 => Dealt(s))
      BY DEF TopicInv, TopicTypes, TopicsFit
    <3>2. s = r => topics[s] = 0 /\ Dealt(s)
      BY <1>2 DEF TopicInv, SendingFits
    <3> QED  BY <1>6, <3>1, <3>2
  <2> QED  BY <1>1, <2>1 DEF TopicsFit, Dealt, T!Revs
<1> QED  BY <1>1, <1>7, <1>9, <1>10, <1>11 DEF TopicInv

\* Every step keeps the invariant and opens no revision that was dealt with.
LEMMA TopicStep ==
  ASSUME T!TopicAssumption, TopicInv, [T!Next]_topicVars
  PROVE  TopicInv' /\ doc'.done >= doc.done
<1>1. doc.done \in Nat
  BY DEF TopicInv, TopicTypes, DocForms
<1>2. CASE UNCHANGED topicVars
  <2>1. UNCHANGED <<doc, topicPass, topicHeard, topics>>
    BY <1>2 DEF topicVars
  <2>2. TopicTypes' /\ PassesFit' /\ SendingFits' /\ TopicsFit'
    BY <2>1 DEF TopicInv, TopicTypes, PassesFit, SendingFits, TopicsFit, Dealt, Busy,
       SendingTopic, T!Revs
  <2> QED  BY <1>1, <2>1, <2>2 DEF TopicInv
<1>3. CASE \E p \in Processes : \/ T!Begin(p) \/ T!Resolve(p) \/ T!Generate(p) \/ T!Skip(p)
                                    \/ T!Check(p)
                                \/ T!Claim(p) \/ T!Deliver(p) \/ T!Finish(p) \/ T!Cut(p)
                                    \/ T!Crash(p)
  <2>1. PICK p \in Processes : \/ T!Begin(p) \/ T!Resolve(p) \/ T!Generate(p) \/ T!Skip(p)
                                   \/ T!Check(p)
                               \/ T!Claim(p) \/ T!Deliver(p) \/ T!Finish(p) \/ T!Cut(p)
                                   \/ T!Crash(p)
    BY <1>3
  <2>2. CASE T!Begin(p)  BY <1>1, <2>2, PassBeginKeeps
  <2>3. CASE T!Resolve(p) \/ T!Skip(p) \/ T!Finish(p)  BY <2>3, DealKeeps
  <2>4. CASE T!Generate(p) \/ T!Check(p) \/ T!Cut(p) \/ T!Crash(p)
    BY <1>1, <2>4, PassMovesKeeps
  <2>5. CASE T!Claim(p)  BY <1>1, <2>5, TopicClaimKeeps
  <2>6. CASE T!Deliver(p)  BY <1>1, <2>6, TopicDeliverKeeps
  <2> QED  BY <2>1, <2>2, <2>3, <2>4, <2>5, <2>6
<1>4. CASE \/ \E p \in Processes : T!Speak(p) \/ T!WriterReads(p) \/ T!WriterStores(p)
           \/ T!Lapse \/ T!Command \/ T!Opened \/ T!Saved
  BY <1>4, ActivityKeeps
<1> QED  BY <1>2, <1>3, <1>4 DEF T!Next

\* The invariant of the topics: at most one is sent for a stretch of silence, whatever pass is
\* cut off, fails or overlaps one of another process, and whoever writes the document meanwhile
\* (services/proactive.py:532-575, 621-700).
THEOREM TopicInvariant ==
  ASSUME T!TopicAssumption
  PROVE  T!Init /\ [][T!Next]_topicVars => [](TopicInv /\ T!OneTopic)
<1>1. T!Init => TopicInv
  <2> SUFFICES ASSUME T!Init PROVE TopicInv
    OBVIOUS
  <2>1. /\ doc = T!Doc0 /\ topicHeard = [p \in Processes |-> 0]
        /\ topicPass = [p \in Processes |-> T!Resting] /\ topics = [r \in T!Revs |-> 0]
    BY DEF T!Init
  <2>2. T!Doc0 \in DocForms
    BY DEF T!Doc0, DocForms
  <2>3. T!Resting \in TopicPasses /\ T!Resting.at = "idle"
    BY <2>2 DEF T!Resting, TopicPasses
  <2>4. TopicTypes
    BY <2>1, <2>2, <2>3 DEF TopicTypes
  <2>5. \A p \in Processes : ~Busy(p) /\ ~SendingTopic(p)
    BY <2>1, <2>3 DEF Busy, SendingTopic
  <2>6. doc.claim = Unclaimed
    BY <2>1 DEF T!Doc0
  <2>7. PassesFit /\ SendingFits /\ TopicsFit
    BY <2>1, <2>5, <2>6 DEF PassesFit, SendingFits, TopicsFit
  <2> QED  BY <2>4, <2>7 DEF TopicInv
<1>2. TopicInv /\ [T!Next]_topicVars => TopicInv'
  BY TopicStep
<1>3. TopicInv => T!OneTopic
  BY DEF TopicInv, TopicsFit, T!OneTopic
<1> QED  BY <1>1, <1>2, <1>3, PTL

\* A revision that was dealt with is never open again.
THEOREM DealtStays ==
  ASSUME T!TopicAssumption
  PROVE  T!Spec => T!ProcessedStays
<1>1. TopicInv /\ [T!Next]_topicVars => [doc'.done >= doc.done]_topicVars
  BY TopicStep
<1> QED  BY <1>1, TopicInvariant, PTL DEF T!Spec, T!vars, topicVars, T!ProcessedStays

-----------------------------------------------------------------------------
(* The semantic index of the archive: ArchiveIndex *)

\* The texts of a batch, by message, and the passes of an indexer.
Batches == UNION {[S1 -> V!Readable] : S1 \in SUBSET Msgs}
IndexPasses == [at : {"idle", "read", "ask", "fail"}, space : Spaces \cup {None},
                batch : Batches]

\* A row that no edit has overtaken is of what the message says now, and no blank text is
\* sent to the model.
RowFits(j, t) ==
  /\ j.st = "ready" => j.vec = [text |-> t, space |-> j.space]
  /\ j.st = "indexing" => j.hash = t
  /\ j.st = "skipped" => t = BlankText
Worded(j) == j.st = "indexing" => j.hash # BlankText
RowsFit ==
  \A m \in Msgs : /\ archive[m] = None => jobs[m] = V!NoJob
                  /\ Worded(jobs[m])
                  /\ m \notin indexOvertaken => RowFits(jobs[m], archive[m])

\* The inductive invariant.
IndexInv == V!TypeOK /\ indexer \in [Indexers -> IndexPasses] /\ RowsFit

\* What is in a batch.
LEMMA BatchFits ==
  /\ \A b \in Batches : DOMAIN b \subseteq Msgs /\ \A m \in DOMAIN b : b[m] \in V!Readable
  /\ \A S1 \in SUBSET Msgs : [S1 -> V!Readable] \subseteq Batches
BY DEF Batches

\* The batch of an indexer that sleeps is empty.
LEMMA AsleepFits == V!Asleep \in IndexPasses
<1>1. <<>> \in [{} -> V!Readable]
  OBVIOUS
<1>2. <<>> \in Batches
  BY <1>1, BatchFits
<1> QED  BY <1>2 DEF V!Asleep, IndexPasses

\* The rows there are before a claim.
LEMMA RowsMade ==
  /\ V!NoJob \in V!Job /\ V!NewJob \in V!Job /\ V!NoJob.st = "absent"
      /\ V!NewJob.st = "pending"
  /\ Worded(V!NoJob) /\ Worded(V!NewJob) /\ \A t : RowFits(V!NoJob, t) /\ RowFits(V!NewJob, t)
BY DEF V!NoJob, V!NewJob, V!Job, V!Unvectored, V!Vector, RowFits, Worded

\* The type invariant follows from the places and the counters.
LEMMA IndexTyped ==
  ASSUME IndexInv,
         archive' \in [Msgs -> V!Readable \cup {None}], jobs' \in [Msgs -> V!Job],
         space' \in [Indexers -> Spaces \cup {None}], indexer' \in [Indexers -> IndexPasses],
         indexOvertaken' \subseteq Msgs,
         textEdits' \in 0..MaxTextEdits, spaceChanges' \in 0..MaxSpaceChanges,
         indexFaults' \in 0..MaxIndexFaults
  PROVE  V!TypeOK'
<1>1. \A p \in Indexers :
        /\ indexer'[p].at \in {"idle", "read", "ask", "fail"}
        /\ indexer'[p].space \in Spaces \cup {None} /\ indexer'[p].batch \in Batches
  BY DEF IndexPasses
<1> QED  BY <1>1, BatchFits DEF V!TypeOK

\* A step of the indexers counts at most one more fault.
LEMMA IndexFaultCounted ==
  ASSUME V!IndexAssumption, IndexInv, V!Fine \/ V!Fails
  PROVE  indexFaults' \in 0..MaxIndexFaults
BY DEF V!IndexAssumption, IndexInv, V!TypeOK, V!Fine, V!Fails

\* A message is edited, or expires.
LEMMA EditKeeps ==
  ASSUME V!IndexAssumption, IndexInv, NEW m \in Msgs, V!Edit(m) \/ V!Expire(m)
  PROVE  IndexInv'
<1>1. /\ UNCHANGED <<space, indexer, spaceChanges, indexFaults>>
      /\ indexOvertaken' = indexOvertaken \ {m}
      /\ \/ \E t \in V!Readable : archive' = [archive EXCEPT ![m] = t]
                                /\ jobs' = [jobs EXCEPT ![m] = V!NewJob]
         \/ archive' = [archive EXCEPT ![m] = None] /\ jobs' = [jobs EXCEPT ![m] = V!NoJob]
  BY DEF V!Edit, V!Expire
<1>2. textEdits' \in 0..MaxTextEdits
  BY DEF V!Edit, V!Expire, V!IndexAssumption, IndexInv, V!TypeOK
<1>3. archive' \in [Msgs -> V!Readable \cup {None}] /\ jobs' \in [Msgs -> V!Job]
  BY <1>1, RowsMade DEF IndexInv, V!TypeOK
<1>4. V!TypeOK'
  <2>1. indexOvertaken' \subseteq Msgs /\ space' \in [Indexers -> Spaces \cup {None}]
        /\ indexer' \in [Indexers -> IndexPasses]
        /\ spaceChanges' \in 0..MaxSpaceChanges /\ indexFaults' \in 0..MaxIndexFaults
    BY <1>1 DEF IndexInv, V!TypeOK
  <2> QED  BY <1>2, <1>3, <2>1, IndexTyped
<1>5. ASSUME NEW n \in Msgs
      PROVE  /\ archive'[n] = None => jobs'[n] = V!NoJob
             /\ Worded(jobs'[n])
             /\ n \notin indexOvertaken' => RowFits(jobs'[n], archive'[n])
  <2>1. CASE n = m
    <3>1. CASE archive' = [archive EXCEPT ![m] = None] /\ jobs' = [jobs EXCEPT ![m] = V!NoJob]
      BY <2>1, <3>1, RowsMade DEF IndexInv, V!TypeOK
    <3>2. CASE \E t \in V!Readable : archive' = [archive EXCEPT ![m] = t]
                                   /\ jobs' = [jobs EXCEPT ![m] = V!NewJob]
      BY <2>1, <3>2, RowsMade DEF IndexInv, V!TypeOK, V!Readable, V!IndexAssumption
    <3> QED  BY <1>1, <3>1, <3>2
  <2>2. CASE n # m
    <3>1. archive'[n] = archive[n] /\ jobs'[n] = jobs[n]
              /\ (n \in indexOvertaken <=> n \in indexOvertaken')
      BY <1>1, <2>2 DEF IndexInv, V!TypeOK
    <3> QED  BY <3>1 DEF IndexInv, RowsFit
  <2> QED  BY <2>1, <2>2
<1> QED  BY <1>1, <1>4, <1>5 DEF IndexInv, RowsFit

\* A pass reads its batch: what is eligible has a row, and so a text.
LEMMA ReadBatchKeeps ==
  ASSUME V!IndexAssumption, IndexInv, NEW p \in Indexers, V!ReadBatch(p)
  PROVE  IndexInv'
<1> DEFINE B == {m \in Msgs : V!Eligible(m, space[p])}
<1>1. /\ indexer' = [indexer EXCEPT ![p] = [at |-> "read", space |-> space[p],
                                            batch |-> [m \in B |-> archive[m]]]]
      /\ UNCHANGED <<archive, jobs, space, indexOvertaken, textEdits, spaceChanges,
                     indexFaults>>
  BY DEF V!ReadBatch, V!Goes
<1>2. [m \in B |-> archive[m]] \in [B -> V!Readable]
  <2>1. ASSUME NEW m \in B  PROVE archive[m] \in V!Readable
    BY <2>1, RowsMade DEF IndexInv, V!TypeOK, RowsFit, V!Eligible
  <2> QED  BY <2>1
<1>3. [m \in B |-> archive[m]] \in Batches
  BY <1>2, BatchFits
<1>4. indexer' \in [Indexers -> IndexPasses]
  <2> HIDE DEF B
  <2> QED  BY <1>1, <1>3 DEF IndexInv, V!TypeOK, IndexPasses
<1>5. V!TypeOK'
  BY <1>1, <1>4, IndexTyped DEF IndexInv, V!TypeOK
<1> QED  BY <1>1, <1>4, <1>5 DEF IndexInv, RowsFit

\* Rows after a step of an indexer that leaves the archive alone.
LEMMA IndexStepKeeps ==
  ASSUME IndexInv, NEW p \in Indexers, NEW to \in IndexPasses, V!Goes(p, to),
         UNCHANGED <<archive, space, textEdits, spaceChanges>>,
         indexFaults' \in 0..MaxIndexFaults, indexOvertaken' \subseteq Msgs,
         jobs' \in [Msgs -> V!Job],
         \A m \in Msgs : /\ archive[m] = None => jobs'[m] = V!NoJob
                         /\ Worded(jobs'[m])
                         /\ m \notin indexOvertaken' => RowFits(jobs'[m], archive[m])
  PROVE  IndexInv'
<1>1. indexer' \in [Indexers -> IndexPasses]
  BY DEF IndexInv, V!Goes
<1>2. V!TypeOK'
  <2>1. archive' \in [Msgs -> V!Readable \cup {None}] /\ space' \in [Indexers -> Spaces
            \cup {None}]
        /\ textEdits' \in 0..MaxTextEdits /\ spaceChanges' \in 0..MaxSpaceChanges
    BY DEF IndexInv, V!TypeOK
  <2> QED  BY <1>1, <2>1, IndexTyped
<1> QED  BY <1>1, <1>2 DEF IndexInv, RowsFit

\* A batch that is cut down is one, and a pass goes on with it.
LEMMA BatchCut ==
  ASSUME IndexInv, NEW p \in Indexers
  PROVE  /\ indexer[p] \in IndexPasses /\ indexer[p].batch \in Batches
         /\ indexer[p].space \in Spaces \cup {None}
         /\ DOMAIN indexer[p].batch \subseteq Msgs
         /\ \A m \in DOMAIN indexer[p].batch : indexer[p].batch[m] \in V!Readable
         /\ \A S1 \in SUBSET DOMAIN indexer[p].batch :
              [m \in S1 |-> indexer[p].batch[m]] \in Batches
<1>1. /\ indexer[p] \in IndexPasses /\ indexer[p].batch \in Batches
      /\ indexer[p].space \in Spaces \cup {None}
  BY DEF IndexInv, IndexPasses
<1>2. /\ DOMAIN indexer[p].batch \subseteq Msgs
      /\ \A m \in DOMAIN indexer[p].batch : indexer[p].batch[m] \in V!Readable
  BY <1>1, BatchFits
<1>3. ASSUME NEW S1 \in SUBSET DOMAIN indexer[p].batch
      PROVE  [m \in S1 |-> indexer[p].batch[m]] \in Batches
  <2>1. S1 \in SUBSET Msgs /\ [m \in S1 |-> indexer[p].batch[m]] \in [S1 -> V!Readable]
    BY <1>2
  <2> QED  BY <2>1, BatchFits
<1> QED  BY <1>1, <1>2, <1>3

\* A pass marks its batch: a message that was edited since the read is overtaken.
LEMMA MarkKeeps ==
  ASSUME V!IndexAssumption, IndexInv, NEW p \in Indexers, V!Claim(p)
  PROVE  IndexInv'
<1> DEFINE b == indexer[p].batch
           kept == {m \in DOMAIN b : b[m] # BlankText}
           at == IF space[p] = indexer[p].space THEN "ask" ELSE "fail"
           to == IF kept = {} THEN V!Asleep
                 ELSE [at |-> at, space |-> indexer[p].space, batch |-> [m \in kept |-> b[m]]]
<1>1. /\ jobs' = [m \in Msgs |-> IF m \notin DOMAIN b THEN jobs[m]
                                 ELSE V!Marked(m, b[m], indexer[p].space)]
      /\ indexOvertaken' = (indexOvertaken \ DOMAIN b)
                        \cup {m \in DOMAIN b : archive[m] \notin {None, b[m]}}
      /\ V!Goes(p, to) /\ UNCHANGED <<archive, space, textEdits, spaceChanges, indexFaults>>
  BY DEF V!Claim, V!Fine
<1>2. /\ DOMAIN b \subseteq Msgs /\ \A m \in DOMAIN b : b[m] \in V!Readable
      /\ indexer[p].space \in Spaces \cup {None}
  BY BatchCut
<1>3. to \in IndexPasses
  <2>1. [m \in kept |-> b[m]] \in Batches
    BY BatchCut
  <2>2. at \in {"ask", "fail"}
    OBVIOUS
  <2>3. [at |-> at, space |-> indexer[p].space,
  batch |-> [m \in kept |-> b[m]]] \in IndexPasses
    <3> HIDE DEF at, kept
    <3> QED  BY <1>2, <2>1, <2>2 DEF IndexPasses
  <2> QED  BY <2>3, AsleepFits
<1>4. ASSUME NEW m \in DOMAIN b, NEW s \in Spaces \cup {None}, NEW t \in V!Readable,
             jobs[m] \in V!Job, archive[m] = None => jobs[m] = V!NoJob
      PROVE  /\ V!Marked(m, t, s) \in V!Job
             /\ archive[m] = None => V!Marked(m, t, s) = V!NoJob
             /\ Worded(V!Marked(m, t, s))
             /\ archive[m] \in {None, t} => RowFits(V!Marked(m, t, s), archive[m])
  <2>1. CASE jobs[m] = V!NoJob
    BY <2>1, RowsMade DEF V!Marked
  <2>2. CASE jobs[m] # V!NoJob /\ t = BlankText
    BY <1>4, <2>2 DEF V!Marked, V!Job, V!Unvectored, V!Vector, RowFits, Worded
  <2>3. CASE jobs[m] # V!NoJob /\ t # BlankText
    BY <1>4, <2>3 DEF V!Marked, V!Job, V!Vector, RowFits, Worded
  <2> QED  BY <2>1, <2>2, <2>3
<1>5. ASSUME NEW m \in Msgs
      PROVE  /\ jobs'[m] \in V!Job /\ (archive[m] = None => jobs'[m] = V!NoJob)
             /\ Worded(jobs'[m])
             /\ m \notin indexOvertaken' => RowFits(jobs'[m], archive[m])
  <2>0. /\ jobs[m] \in V!Job /\ (archive[m] = None => jobs[m] = V!NoJob)
        /\ Worded(jobs[m])
        /\ m \notin indexOvertaken => RowFits(jobs[m], archive[m])
    BY DEF IndexInv, V!TypeOK, RowsFit
  <2>1. CASE m \notin DOMAIN b
    BY <1>1, <2>0, <2>1
  <2>2. CASE m \in DOMAIN b
    <3>1. jobs'[m] = V!Marked(m, b[m], indexer[p].space)
      BY <1>1, <2>2
    <3>2. m \notin indexOvertaken' => archive[m] \in {None, b[m]}
      BY <1>1, <2>2
    <3> QED  BY <1>2, <1>4, <2>0, <2>2, <3>1, <3>2
  <2> QED  BY <2>1, <2>2
<1>6. jobs' \in [Msgs -> V!Job] /\ indexOvertaken' \subseteq Msgs
          /\ indexFaults' \in 0..MaxIndexFaults
  <2>1. jobs' \in [Msgs -> V!Job]
    BY <1>1, <1>5
  <2> QED  BY <1>1, <1>2, <2>1 DEF IndexInv, V!TypeOK
<1> HIDE DEF to, b
<1> QED  BY <1>1, <1>3, <1>5, <1>6, IndexStepKeeps

\* The vectors are stored in the rows that still hold the claim's text.
LEMMA StoreVectorsKeeps ==
  ASSUME V!IndexAssumption, IndexInv, NEW p \in Indexers, V!Store(p)
  PROVE  IndexInv'
<1> DEFINE b == indexer[p].batch
           Put(m) == [jobs[m] EXCEPT !.st = "ready", !.due = FALSE,
                        !.vec = [text |-> b[m], space |-> indexer[p].space]]
<1>1. PICK bad \in SUBSET DOMAIN b :
        /\ jobs' = [m \in Msgs |-> IF m \in DOMAIN b \ bad /\ V!Holds(m, p)
                                   THEN Put(m) ELSE jobs[m]]
        /\ IF bad = {} THEN V!Fine /\ V!Goes(p, V!Asleep)
           ELSE V!Fails /\ V!Goes(p, [indexer[p] EXCEPT !.at = "fail",
           !.batch = [m \in bad |-> @[m]]])
        /\ UNCHANGED <<archive, space, indexOvertaken, textEdits, spaceChanges>>
  BY DEF V!Store
<1>2. /\ \A m \in DOMAIN b : b[m] \in V!Readable
      /\ indexer[p].space \in Spaces \cup {None} /\ indexer[p] \in IndexPasses
      /\ [m \in bad |-> b[m]] \in Batches
  BY BatchCut
<1>3. PICK to \in IndexPasses : V!Goes(p, to)
  <2>1. [indexer[p] EXCEPT !.at = "fail", !.batch = [m \in bad |-> @[m]]] \in IndexPasses
    <3> DEFINE c == [m \in bad |-> b[m]]
    <3>1. c \in Batches
      BY <1>2
    <3>2. [indexer[p] EXCEPT !.at = "fail", !.batch = [m \in bad |-> @[m]]]
            = [indexer[p] EXCEPT !.at = "fail", !.batch = c]
      OBVIOUS
    <3> HIDE DEF c, b
    <3>3. [indexer[p] EXCEPT !.at = "fail", !.batch = c] \in IndexPasses
      BY <1>2, <3>1 DEF IndexPasses
    <3> QED  BY <3>2, <3>3
  <2> QED  BY <1>1, <2>1, AsleepFits
<1>4. indexFaults' \in 0..MaxIndexFaults
  BY <1>1, IndexFaultCounted
<1>5. ASSUME NEW m \in Msgs
      PROVE  /\ jobs'[m] \in V!Job /\ (archive[m] = None => jobs'[m] = V!NoJob)
             /\ Worded(jobs'[m])
             /\ m \notin indexOvertaken => RowFits(jobs'[m], archive[m])
  <2>0. /\ jobs[m] \in V!Job /\ (archive[m] = None => jobs[m] = V!NoJob)
        /\ Worded(jobs[m])
        /\ m \notin indexOvertaken => RowFits(jobs[m], archive[m])
    BY DEF IndexInv, V!TypeOK, RowsFit
  <2>1. CASE jobs'[m] = jobs[m]
    BY <2>0, <2>1
  <2>2. CASE m \in DOMAIN b /\ V!Holds(m, p) /\ jobs'[m] = Put(m)
    <3>1. Put(m) \in V!Job
      BY <1>2, <2>0, <2>2 DEF V!Job, V!Vector, V!Readable, Worded, V!Holds
    <3>2. archive[m] # None
      BY <2>0, <2>2, RowsMade DEF V!Holds
    <3>3. Put(m).st = "ready" /\ Put(m).space = jobs[m].space
          /\ Put(m).vec = [text |-> b[m], space |-> indexer[p].space]
      BY <2>0 DEF V!Job
    <3>4. m \notin indexOvertaken => RowFits(Put(m), archive[m])
      <4> HIDE DEF Put
      <4> QED  BY <2>0, <2>2, <3>3 DEF RowFits, V!Holds
    <3>5. Worded(Put(m))
      BY <3>3 DEF Worded
    <3> QED  BY <2>2, <3>1, <3>2, <3>4, <3>5
  <2> QED  BY <1>1, <2>1, <2>2
<1>6. jobs' \in [Msgs -> V!Job] /\ indexOvertaken' \subseteq Msgs
  <2>1. jobs' \in [Msgs -> V!Job]
    BY <1>1, <1>5
  <2> QED  BY <1>1, <2>1 DEF IndexInv, V!TypeOK
<1> QED  BY <1>1, <1>3, <1>4, <1>5, <1>6, IndexStepKeeps

\* No vectors came back, the pass failed, or it was cut short.
LEMMA IndexFailureKeeps ==
  ASSUME V!IndexAssumption, IndexInv, NEW p \in Indexers,
         V!NoVectors(p) \/ V!MarkFailed(p) \/ V!Abandon(p)
  PROVE  IndexInv'
<1>1. UNCHANGED <<archive, space, indexOvertaken, textEdits, spaceChanges>> /\ (V!Fine
          \/ V!Fails)
  BY DEF V!NoVectors, V!MarkFailed, V!Abandon
<1>2. PICK to \in IndexPasses : V!Goes(p, to)
  <2>1. [indexer[p] EXCEPT !.at = "fail"] \in IndexPasses
    BY BatchCut DEF IndexPasses
  <2> QED  BY <2>1, AsleepFits DEF V!NoVectors, V!MarkFailed, V!Abandon
<1>3. ASSUME NEW m \in Msgs
      PROVE  jobs'[m] \in {jobs[m], [jobs[m] EXCEPT !.st = "failed", !.due = FALSE]}
             /\ (jobs'[m] # jobs[m] => jobs[m].st = "indexing")
  BY DEF V!NoVectors, V!MarkFailed, V!Abandon, V!Holds
<1>4. ASSUME NEW m \in Msgs
      PROVE  /\ jobs'[m] \in V!Job /\ (archive[m] = None => jobs'[m] = V!NoJob)
             /\ Worded(jobs'[m])
             /\ m \notin indexOvertaken => RowFits(jobs'[m], archive[m])
  <2>0. /\ jobs[m] \in V!Job /\ (archive[m] = None => jobs[m] = V!NoJob)
        /\ Worded(jobs[m])
        /\ m \notin indexOvertaken => RowFits(jobs[m], archive[m])
    BY DEF IndexInv, V!TypeOK, RowsFit
  <2>1. CASE jobs'[m] = jobs[m]
    BY <2>0, <2>1
  <2>2. CASE jobs'[m] # jobs[m]
    <3>1. jobs[m].st = "indexing" /\ jobs'[m] = [jobs[m] EXCEPT !.st = "failed", !.due = FALSE]
      BY <1>3, <2>2
    <3>2. jobs'[m] \in V!Job /\ jobs'[m].st = "failed"
      BY <2>0, <3>1 DEF V!Job
    <3> QED  BY <2>0, <3>1, <3>2, RowsMade DEF RowFits, Worded
  <2> QED  BY <2>1, <2>2
<1>5. jobs' \in [Msgs -> V!Job] /\ indexOvertaken' \subseteq Msgs
  <2>1. jobs' = jobs \/ jobs' = [m \in Msgs |-> jobs'[m]]
    BY DEF V!NoVectors, V!MarkFailed, V!Abandon
  <2>2. jobs' \in [Msgs -> V!Job]
    BY <1>4, <2>1 DEF IndexInv, V!TypeOK
  <2> QED  BY <1>1, <2>2 DEF IndexInv, V!TypeOK
<1>6. indexFaults' \in 0..MaxIndexFaults
  BY <1>1, IndexFaultCounted
<1> QED  BY <1>1, <1>2, <1>4, <1>5, <1>6, IndexStepKeeps

\* Time passes, or a process is configured for other embeddings.
LEMMA OtherIndexKeeps ==
  ASSUME V!IndexAssumption, IndexInv,
         (\E m \in Msgs : V!ComesDue(m)) \/ (\E p \in Indexers : V!Reconfigure(p))
  PROVE  IndexInv'
<1>1. CASE \E m \in Msgs : V!ComesDue(m)
  <2>1. PICK m \in Msgs : V!ComesDue(m)
    BY <1>1
  <2>2. /\ jobs' = [jobs EXCEPT ![m].due = TRUE] /\ jobs[m].st \in {"failed", "indexing"}
        /\ UNCHANGED <<archive, space, indexer, indexOvertaken, textEdits, spaceChanges,
                       indexFaults>>
    BY <2>1 DEF V!ComesDue
  <2>3. jobs[m] \in V!Job /\ RowsFit
    BY DEF IndexInv, V!TypeOK
  <2>4. [jobs[m] EXCEPT !.due = TRUE] \in V!Job
    BY <2>3 DEF V!Job
  <2>5. jobs' \in [Msgs -> V!Job]
    BY <2>2, <2>4 DEF IndexInv, V!TypeOK
  <2>6. V!TypeOK'
    BY <2>2, <2>5, IndexTyped DEF IndexInv, V!TypeOK
  <2>7. ASSUME NEW n \in Msgs
        PROVE  /\ jobs[n].st = jobs'[n].st /\ jobs[n].vec = jobs'[n].vec
               /\ jobs[n].hash = jobs'[n].hash /\ jobs[n].space = jobs'[n].space
               /\ n # m => jobs'[n] = jobs[n]
    BY <2>2, <2>3 DEF IndexInv, V!TypeOK, V!Job
  <2>8. RowsFit'
    <3>1. ASSUME NEW n \in Msgs
          PROVE  /\ archive'[n] = None => jobs'[n] = V!NoJob
                 /\ Worded(jobs'[n])
                 /\ n \notin indexOvertaken' => RowFits(jobs'[n], archive'[n])
      <4>1. archive[n] = None => jobs[n] = V!NoJob
        BY <2>3 DEF RowsFit
      <4>2. n \notin indexOvertaken => RowFits(jobs[n], archive[n])
        BY <2>3 DEF RowsFit
      <4>3. archive'[n] = None => jobs'[n] = V!NoJob
        BY <2>2, <2>7, <4>1, RowsMade
      <4>4. n \notin indexOvertaken' => RowFits(jobs'[n], archive'[n])
        BY <2>2, <2>7, <4>2 DEF RowFits
      <4>5. Worded(jobs'[n])
        BY <2>3, <2>7 DEF RowsFit, Worded
      <4> QED  BY <4>3, <4>4, <4>5
    <3> QED  BY <3>1 DEF RowsFit
  <2> QED  BY <2>2, <2>6, <2>8 DEF IndexInv
<1>2. CASE \E p \in Indexers : V!Reconfigure(p)
  <2>1. PICK p \in Indexers : V!Reconfigure(p)
    BY <1>2
  <2>2. /\ UNCHANGED <<archive, jobs, indexer, indexOvertaken, textEdits, indexFaults>>
        /\ space' \in [Indexers -> Spaces \cup {None}]
    BY <2>1 DEF V!Reconfigure, IndexInv, V!TypeOK
  <2>3. spaceChanges' \in 0..MaxSpaceChanges
    BY <2>1 DEF V!Reconfigure, IndexInv, V!TypeOK, V!IndexAssumption
  <2>4. V!TypeOK'
    BY <2>2, <2>3, IndexTyped DEF IndexInv, V!TypeOK
  <2> QED  BY <2>2, <2>4 DEF IndexInv, RowsFit
<1> QED  BY <1>1, <1>2

\* The invariant of the index: a vector that is recalled is of what its message says now,
\* unless the message was edited between a claim's read and its write, and only a message
\* without words is passed over, for any messages, processes, spaces and faults
\* (archive_vector.py:317-402).
THEOREM IndexInvariant ==
  ASSUME V!IndexAssumption
  PROVE  V!Init /\ [][V!Next]_indexVars => [](IndexInv /\ V!VectorsCurrent)
<1>1. V!Init => IndexInv
  <2> SUFFICES ASSUME V!Init PROVE IndexInv
    OBVIOUS
  <2>1. /\ archive = [m \in Msgs |-> None] /\ jobs = [m \in Msgs |-> V!NoJob]
        /\ space \in [Indexers -> Spaces \cup {None}]
        /\ indexer = [p \in Indexers |-> V!Asleep] /\ indexOvertaken = {}
        /\ textEdits = 0 /\ spaceChanges = 0 /\ indexFaults = 0
    BY DEF V!Init
  <2>2. indexer \in [Indexers -> IndexPasses]
    BY <2>1, AsleepFits
  <2>3. \A p \in Indexers :
          /\ indexer[p].at \in {"idle", "read", "ask", "fail"}
          /\ indexer[p].space \in Spaces \cup {None} /\ indexer[p].batch \in Batches
    BY <2>2 DEF IndexPasses
  <2>4. 0 \in 0..MaxTextEdits /\ 0 \in 0..MaxSpaceChanges /\ 0 \in 0..MaxIndexFaults
    BY DEF V!IndexAssumption
  <2>5. archive \in [Msgs -> V!Readable \cup {None}] /\ jobs \in [Msgs -> V!Job]
    BY <2>1, RowsMade
  <2>6. V!TypeOK
    BY <2>1, <2>3, <2>4, <2>5, BatchFits DEF V!TypeOK
  <2>7. RowsFit
    BY <2>1, RowsMade DEF RowsFit
  <2> QED  BY <2>2, <2>6, <2>7 DEF IndexInv
<1>2. IndexInv /\ [V!Next]_indexVars => IndexInv'
  <2> SUFFICES ASSUME IndexInv, [V!Next]_indexVars PROVE IndexInv'
    OBVIOUS
  <2>1. CASE UNCHANGED indexVars
    BY <2>1 DEF indexVars, IndexInv, V!TypeOK, RowsFit
  <2>2. CASE V!Next
    BY <2>2, EditKeeps, ReadBatchKeeps, MarkKeeps, StoreVectorsKeeps, IndexFailureKeeps,
       OtherIndexKeeps DEF V!Next
  <2> QED  BY <2>1, <2>2
<1>3. IndexInv => V!VectorsCurrent
  BY DEF IndexInv, RowsFit, RowFits, V!VectorsCurrent, V!Recalled
<1> QED  BY <1>1, <1>2, <1>3, PTL

-----------------------------------------------------------------------------
(* The composition *)

\* A behaviour of the whole is, for each of the modules, a behaviour of the module.
LEMMA Projection ==
  Spec => /\ C!Init /\ [][C!Next]_cleanupVars
          /\ S!Init /\ [][S!Next]_postVars
          /\ G!Init /\ [][G!Next]_permVars
          /\ F!Init /\ [][F!Next]_configVars
          /\ Y!Init /\ [][Y!Next]_memoryVars
          /\ Y2!StyleInit /\ [][Y2!StyleNext]_styleVars
          /\ T!Init /\ [][T!Next]_topicVars
          /\ K!Init /\ [][K!Next]_callVars
          /\ V!Init /\ [][V!Next]_indexVars
<1>1. Init => /\ C!Init /\ S!Init /\ G!Init /\ F!Init
              /\ Y!Init /\ Y2!StyleInit /\ T!Init /\ K!Init /\ V!Init
  BY DEF Init
<1>2. [Next]_everything => /\ [C!Next]_cleanupVars /\ [S!Next]_postVars
                           /\ [G!Next]_permVars /\ [F!Next]_configVars
                           /\ [Y!Next]_memoryVars /\ [Y2!StyleNext]_styleVars
                           /\ [T!Next]_topicVars /\ [K!Next]_callVars
                           /\ [V!Next]_indexVars
  BY DEF Next, everything
<1> QED  BY <1>1, <1>2, PTL DEF Spec

\* What was accepted is kept: deletion requests until they are settled, each in one covered
\* call; publications once but for a failure, a crash or a lapsed lease; a status "applied"
\* only of permissions that are in force; a save that has seen what it replaces, and
\* processes that run what was saved (services/telegram_cleanup.py, scheduled_messages.py,
\* group_permissions.py, runtime_config.py).
THEOREM WorkIsKept == Spec => []WorkKept
<1>0. /\ C!CleanupAssumption /\ S!ScheduleAssumption
      /\ G!PermissionAssumption /\ F!ConfigAssumption
  BY ServicesAssumption
<1>1. QueueInv => C!RequestsKept /\ C!CallCovered
  BY DEF QueueInv
<1>2. ScheduleInv => S!SentAccounted
  BY <1>0, PublishedOnce
<1>3. PermissionInv => G!StatusAccounted
  BY DEF PermissionInv
<1>4. ConfigInv => F!RevisionTells /\ F!SettingsFollow
  BY DEF ConfigInv
<1>5. QueueInv /\ ScheduleInv /\ PermissionInv /\ ConfigInv => WorkKept
  BY <1>1, <1>2, <1>3, <1>4 DEF WorkKept
<1> QED  BY <1>0, <1>5, Projection, QueueInvariant, ScheduleInvariant, PermissionInvariant,
         ConfigInvariant, PTL

\* The context is sound: the history loses no message to a compaction, a learnt style is the
\* present target's, a silence is broken once, a call to the administrators keeps its cooldown
\* and its pin has an owner, and a recalled vector is of what its message says
\* (services/memory.py, speech_style.py, proactive.py, call_admin.py, archive_vector.py).
THEOREM ContextIsSound == Spec => []ContextSound
<1>0. /\ Y!HistoryAssumption /\ Y2!StyleAssumption /\ T!TopicAssumption
      /\ K!CallAssumption /\ V!IndexAssumption
  BY ServicesAssumption
<1>1. HistoryInv => Y!HistorySound
  BY DEF HistoryInv, Y!HistorySound
<1>2. StyleInv => Y2!StyleCurrent
  BY DEF StyleInv
<1>3. CallInv => K!CooldownHeld /\ K!PinsOwned
  BY DEF CallInv, FreshKept, K!CooldownHeld
<1>4. HistoryInv /\ StyleInv /\ T!OneTopic /\ CallInv /\ V!VectorsCurrent => ContextSound
  BY <1>1, <1>2, <1>3 DEF ContextSound
<1> QED  BY <1>0, <1>4, Projection, HistoryInvariant, StyleInvariant, TopicInvariant,
         CallInvariant, IndexInvariant, PTL
=============================================================================
