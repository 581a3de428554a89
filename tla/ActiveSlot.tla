------------------------------- MODULE ActiveSlot -------------------------------
(***************************************************************************)
(* The host's one active slot, as functions on its value: each operator    *)
(* takes the slot and gives the slot the method leaves behind.             *)
(*                                                                         *)
(*   active     the device whose session carries audio and input           *)
(*   preferred  the device that gets the slot back when it returns         *)
(*   reserved   the device whose pairing was promised the slot             *)
(*   pending    the device the slot is kept for, until a deadline          *)
(*                                                                         *)
(* A fifth, withdrawn, is history, which the code does not keep: since the *)
(* slot was promised, the user or a deadline has taken back what the       *)
(* promise rested on, although the promise itself stands.                  *)
(***************************************************************************)

CONSTANT Nobody     \* no device

Slots(D) ==
    [active : D \cup {Nobody}, preferred : D \cup {Nobody},
     reserved : D \cup {Nobody}, pending : D \cup {Nobody}, withdrawn : BOOLEAN]

WithPreferred(d) ==
    [active |-> Nobody, preferred |-> d, reserved |-> Nobody, pending |-> Nobody,
     withdrawn |-> FALSE]

(* The device it is promised to is the preferred one, or the one it is kept*)
(* for; a later value of the slot may not say so any more.                 *)
RestsOn(slot, d) == d # Nobody /\ d \in {slot.pending, slot.preferred}
Noting(slot, later) ==
    [later EXCEPT !.withdrawn =
        @ \/ (RestsOn(slot, slot.reserved) /\ ~RestsOn(later, slot.reserved))]

(* reserve: everything is granted when the slot is free, kept for this     *)
(* device, or this is the preferred device and it does not hold it.        *)
GrantsFull(slot, d) ==
    \/ slot.pending = d
    \/ slot.preferred = d /\ slot.active # d
    \/ slot.active = Nobody /\ slot.reserved = Nobody /\ slot.pending = Nobody

Reserve(slot, d) ==
    IF GrantsFull(slot, d) THEN [slot EXCEPT !.reserved = d, !.withdrawn = FALSE] ELSE slot

(* claim: only the device that is still reserved takes the slot.           *)
Claims(slot, d) == slot.reserved = d

Claim(slot, d) ==
    IF ~Claims(slot, d) THEN slot
    ELSE [active |-> d,
          preferred |-> IF slot.preferred = Nobody THEN d ELSE slot.preferred,
          reserved |-> Nobody,
          pending |-> IF slot.pending = d THEN Nobody ELSE slot.pending,
          withdrawn |-> FALSE]

(* mutant DemotesForKept: the preferred device that returns demotes nobody.*)
DemotesForKept(slot, d) == IF Claims(slot, d) /\ d = slot.pending THEN slot.active ELSE Nobody

(* The device a claim displaces: its session must end.                     *)
Demoted(slot, d) ==
    IF Claims(slot, d) /\ d \in {slot.pending, slot.preferred} THEN slot.active ELSE Nobody

(* mutant NeverReleases: a pairing that fails keeps its promise.           *)
NeverReleases(slot, d) == slot

(* release: a reservation that was dropped without a claim.                *)
Release(slot, d) == IF slot.reserved = d THEN [slot EXCEPT !.reserved = Nobody] ELSE slot

(* on_session_end: the slot waits for the preferred device to come back,   *)
(* or is kept for the oldest trusted session, which is told to reconnect.  *)
Promotes(slot, d, candidate) ==
    IF slot.active = d /\ slot.preferred # d /\ slot.pending = Nobody THEN candidate ELSE Nobody

OnSessionEnd(slot, d, candidate) ==
    IF slot.active = d
    THEN [slot EXCEPT !.active = Nobody,
                      !.pending = IF slot.preferred = d THEN d
                                  ELSE IF @ = Nobody THEN candidate ELSE @]
    ELSE Release(slot, d)

(* mutant SwitchesAtOnce: the target does not have to come back first.     *)
SwitchesAtOnce(slot, d) == [slot EXCEPT !.active = d, !.preferred = d]

(* request_switch.                                                         *)
RequestSwitch(slot, d) == Noting(slot, [slot EXCEPT !.preferred = d, !.pending = d])

(* clear_preferred: also stops waiting for its return.                     *)
ClearPreferred(slot) ==
    Noting(slot, [slot EXCEPT !.preferred = Nobody,
                              !.pending = IF @ = slot.preferred THEN Nobody ELSE @])

(* pending_expired, once the deadline has passed.                          *)
PromotesStandIn(slot) == slot.active = Nobody /\ slot.preferred = slot.pending
Expire(slot) == Noting(slot, [slot EXCEPT !.pending = Nobody])
================================================================================
