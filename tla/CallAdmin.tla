----------------------------- MODULE CallAdmin -----------------------------
(***************************************************************************)
(* A member calls the administrators (services/call_admin.py): the call    *)
(* claims the group's cooldown, looks the administrators up, sends one     *)
(* message and may pin it.  Whoever pins it sees that it ends with a       *)
(* button to unpin it, or unpinned (services/notification_pins.py); the    *)
(* button is in handlers/group.py.                                         *)
(*                                                                         *)
(* One group.  Nothing here is persisted.                                  *)
(***************************************************************************)
EXTENDS Naturals, FiniteSets

CONSTANTS
  Calls, Nobody,
  PinTries,       \* _CALL_ADMIN_RECONCILE_ATTEMPTS
  MaxCallFaults   \* bound: failed, late and cancelled calls, restarts

CallAssumption == Nobody \notin Calls /\ PinTries \in Nat \ {0} /\ MaxCallFaults \in Nat

VARIABLES
  cooldown, \* _last_call_at: the call whose stamp is in force
  at,       \* call -> what it does next
  tries,    \* call -> rounds of _settle_call_admin_pin_ownership
  sure,     \* call -> its pin was confirmed
  pinned, button, \* call -> its message is pinned, has the button
  late,     \* call -> a pin that was given up is still on its way
  fresh,    \* history: call -> its message was sent and its cooldown is not over
  excused,  \* history: calls whose pin nobody could settle
  faults

vars == <<cooldown, at, tries, sure, pinned, button, late, fresh, excused, faults>>

Steps == {"idle", "lookup", "send", "pin", "attach", "unpin", "over"}
pin   == <<tries, sure, pinned, button, late>>

TypeOK ==
  /\ cooldown \in Calls \cup {Nobody} /\ at \in [Calls -> Steps]
  /\ tries \in [Calls -> 0..PinTries] /\ sure \in [Calls -> BOOLEAN]
  /\ pinned \in [Calls -> BOOLEAN] /\ button \in [Calls -> BOOLEAN] /\ late \in [Calls -> BOOLEAN]
  /\ fresh \in [Calls -> BOOLEAN] /\ excused \subseteq Calls /\ faults \in 0..MaxCallFaults

No == [c \in Calls |-> FALSE]
Init ==
  /\ cooldown = Nobody /\ at = [c \in Calls |-> "idle"] /\ tries = [c \in Calls |-> 0]
  /\ sure = No /\ pinned = No /\ button = No /\ late = No /\ fresh = No /\ excused = {}
  /\ faults = 0

Fine  == UNCHANGED faults
Fails == faults < MaxCallFaults /\ faults' = faults + 1
Go(c, s) == at' = [at EXCEPT ![c] = s]

Stamp(c) == cooldown' = c
\* Between the check and the claim nothing is awaited.
Claim(c) ==
  /\ at[c] = "idle" /\ cooldown = Nobody
  /\ Stamp(c) /\ Go(c, "lookup")
  /\ UNCHANGED <<pin, fresh, excused, faults>>

Suppressed(c) ==
  /\ at[c] = "idle" /\ cooldown # Nobody /\ Go(c, "over")
  /\ UNCHANGED <<cooldown, pin, fresh, excused, faults>>

\* A bug for the mutation runs: the group's claim is dropped whosever it is.
ReleaseAny(c) == cooldown' = Nobody /\ UNCHANGED <<pin, fresh, excused>>
\* _release_call: a claim made meanwhile stays
Release(c) ==
  cooldown' = (IF cooldown = c THEN Nobody ELSE cooldown) /\ UNCHANGED <<pin, fresh, excused>>

\* The claim of a call that is not made is given back.
Abandon(c) == Go(c, "over") /\ Release(c)

\* Telegram's administrators or, without them, the table's; none: no call.
Lookup(c) ==
  /\ at[c] = "lookup"
  /\ \/ Fine /\ Go(c, "send") /\ UNCHANGED <<cooldown, pin, fresh, excused>>
     \/ Fine /\ Abandon(c)
     \/ Fails /\ Abandon(c)

\* With or without the pin.
HandedOn(c) == Go(c, "pin") \/ Go(c, "over")
Send(c) ==
  /\ at[c] = "send"
  /\ \/ /\ Fine /\ HandedOn(c)
        /\ fresh' = [fresh EXCEPT ![c] = cooldown = c]
        /\ UNCHANGED <<cooldown, pin, excused>>
     \/ Fails /\ Abandon(c)

\* The handler's cancellation is not an Exception: the claim stays.
Cancelled(c) ==
  /\ at[c] \in {"lookup", "send"} /\ Fails /\ Go(c, "over")
  /\ UNCHANGED <<cooldown, pin, fresh, excused>>

-----------------------------------------------------------------------------
(* _establish_call_admin_pin, a task of its own that outlives its handler's cancellation *)

\* The owner of the pin settles it by what the call answered.
Established(c, ok) ==
  IF ok THEN Go(c, "attach") /\ sure' = [sure EXCEPT ![c] = TRUE]
  ELSE Go(c, "unpin") /\ UNCHANGED sure

\* Confirmed; rejected or lost, in force or not; given up and on its way.
Pin(c) ==
  /\ at[c] = "pin"
  /\ \/ /\ Fine /\ Established(c, TRUE)
        /\ pinned' = [pinned EXCEPT ![c] = TRUE] /\ UNCHANGED late
     \/ /\ Fails /\ Established(c, FALSE)
        /\ \/ UNCHANGED <<pinned, late>>
           \/ pinned' = [pinned EXCEPT ![c] = TRUE] /\ UNCHANGED late
           \/ late' = [late EXCEPT ![c] = TRUE] /\ UNCHANGED pinned
  /\ UNCHANGED <<cooldown, tries, button, fresh, excused>>

\* The other means, then the next round, then nobody's.
First(c) == IF sure[c] THEN "attach" ELSE "unpin"
Other(c, s) ==
  IF s = First(c)
    THEN Go(c, IF s = "attach" THEN "unpin" ELSE "attach") /\ UNCHANGED <<tries, excused>>
    ELSE /\ tries' = [tries EXCEPT ![c] = @ + 1]
         /\ IF tries[c] + 1 < PinTries THEN Go(c, First(c)) /\ UNCHANGED excused
            ELSE Go(c, "over") /\ excused' = excused \cup {c}

\* A bug for the mutation runs: an edit that fails is the end of it.
AttachOnce(c) ==
  /\ at[c] = "attach" /\ Go(c, "over")
  /\ \/ Fine /\ button' = [button EXCEPT ![c] = TRUE]
     \/ Fails /\ \E b \in {TRUE, button[c]} : button' = [button EXCEPT ![c] = b]
  /\ UNCHANGED <<cooldown, tries, sure, pinned, late, fresh, excused>>
\* The message with the button or without it.
Keyboard(c, b) == button' = [button EXCEPT ![c] = b]

\* A call that fails may have taken effect.
Attach(c) ==
  /\ at[c] = "attach"
  /\ \/ Fine /\ Keyboard(c, TRUE) /\ Go(c, "over") /\ UNCHANGED <<tries, excused>>
     \/ Fails /\ (\E b \in {TRUE, button[c]} : Keyboard(c, b)) /\ Other(c, "attach")
  /\ UNCHANGED <<cooldown, sure, pinned, late, fresh>>

Unpin(c) ==
  /\ at[c] = "unpin"
  /\ \/ Fine /\ pinned' = [pinned EXCEPT ![c] = FALSE] /\ Go(c, "over") /\ UNCHANGED <<tries, excused>>
     \/ Fails /\ (\E b \in {FALSE, pinned[c]} : pinned' = [pinned EXCEPT ![c] = b]) /\ Other(c, "unpin")
  /\ UNCHANGED <<cooldown, sure, button, late, fresh>>

\* The pin that was given up lands: whoever owned it has gone or goes on without it.
LatePin(c) ==
  /\ late[c] /\ late' = [late EXCEPT ![c] = FALSE] /\ pinned' = [pinned EXCEPT ![c] = TRUE]
  /\ excused' = excused \cup {c}
  /\ UNCHANGED <<cooldown, at, tries, sure, button, fresh, faults>>

\* on_call_admin_resolved: unpinned first, then without its button
Resolve(c) ==
  /\ button[c]
  /\ \/ /\ Fine /\ pinned' = [pinned EXCEPT ![c] = FALSE]
        /\ Keyboard(c, FALSE)
     \/ /\ Fails /\ UNCHANGED button
        /\ \E b \in {FALSE, pinned[c]} : pinned' = [pinned EXCEPT ![c] = b]
  /\ UNCHANGED <<cooldown, at, tries, sure, late, fresh, excused>>

-----------------------------------------------------------------------------
CooldownEnds ==
  /\ cooldown # Nobody /\ cooldown' = Nobody
  /\ fresh' = [fresh EXCEPT ![cooldown] = FALSE]
  /\ UNCHANGED <<at, pin, excused, faults>>

Restart ==
  /\ Fails /\ cooldown' = Nobody /\ fresh' = No /\ late' = No
  /\ excused' = excused \cup {c \in Calls : at[c] \in {"attach", "unpin", "pin"}}
  /\ at' = [c \in Calls |-> IF at[c] = "idle" THEN "idle" ELSE "over"]
  /\ UNCHANGED <<tries, sure, pinned, button>>

Next ==
  \/ \E c \in Calls :
       \/ Claim(c) \/ Suppressed(c) \/ Lookup(c) \/ Send(c) \/ Cancelled(c)
       \/ Pin(c) \/ Attach(c) \/ Unpin(c) \/ LatePin(c) \/ Resolve(c)
  \/ CooldownEnds \/ Restart

Spec == Init /\ [][Next]_vars

-----------------------------------------------------------------------------
\* A call that was sent keeps the group quiet until its cooldown is over: a failing call
\* whose own claim has run out does not take it back (_claim_call, _release_call).
CooldownHeld == \A c \in Calls : fresh[c] => cooldown = c

\* A pinned call has the button that ends it, however pinning, editing and unpinning went:
\* excepted are a pin that lands after it was given up, a restart in between and rounds
\* that all failed (_settle_call_admin_pin_ownership, on_call_admin_resolved).
PinsOwned == \A c \in Calls : at[c] = "over" /\ pinned[c] => button[c] \/ c \in excused
=============================================================================
