--------------------------- MODULE ClipboardDelivery ---------------------------
(***************************************************************************)
(* Reliable delivery of the newest clipboard, one direction of a session.  *)
(*                                                                         *)
(* A publisher (the clipboard watcher or the host's hub) drops payloads    *)
(* into a slot that holds one; a worker task takes the newest, gives it a  *)
(* stamp, writes it on the committed path and repeats it until the peer    *)
(* says it was applied, at most MaxAttempts times on one path; the session *)
(* loop switches the paths and the direction on and off underneath.  The   *)
(* receiving session applies one payload at a time, asynchronously.        *)
(*                                                                         *)
(* The worker runs one arm of its biased select! at a time: an arm is      *)
(* taken only when the arms before it have nothing.  Its arm for a new     *)
(* payload is split in two, because the slot is shared with the publisher. *)
(*                                                                         *)
(* A payload is a number, in the order of publication.  The slot is        *)
(* emptied into the outbox in that order, so the number also serves as the *)
(* stamp: the code's sequence number and random id.                        *)
(***************************************************************************)
EXTENDS Naturals, Sequences, FiniteSets

CONSTANTS
    MaxAttempts,      \* writes of one payload on one path
    MailboxLimit,     \* receipts the worker has not looked at
    MaxPayloads,      \* bound: payloads published
    MaxPaths,         \* bound: paths opened
    MaxModes,         \* bound: calls of set_enabled
    MaxPermissions    \* bound: changes of the receiver's permission

ASSUME DeliveryAssumption ==
    /\ MaxAttempts \in Nat \ {0} /\ MailboxLimit \in Nat \ {0}
    /\ MaxPayloads \in Nat /\ MaxPaths \in Nat
    /\ MaxModes \in Nat /\ MaxPermissions \in Nat

VARIABLES
    made,         \* payloads published so far
    putting,      \* the payload publish has admitted and not yet stored, or 0
    slot,         \* the mailbox of one payload, as [value, changed]
    mode,         \* the sending direction, as [enabled, changed, revoking, calls]
    hand,         \* the payload the worker has read from the slot, or 0
    worker,       \* the worker's own state
    paths,        \* paths opened so far
    wire,         \* whole frames on the way to the receiver
    inbox,        \* the receiver, as [applied, pending]
    permission,   \* the receiver's direction, as [granted, changes]
    replies,      \* receipts on the way back, on the control lane
    mailbox,      \* receipts handed to the worker
    confirmed,    \* ghost: the last payload the worker took as delivered
    revoked       \* ghost: what was waiting when the direction was switched off

vars == <<made, putting, slot, mode, hand, worker, paths, wire, inbox,
          permission, replies, mailbox, confirmed, revoked>>
sender == <<made, putting, slot, mode, hand, worker, paths, mailbox, confirmed, revoked>>
receiver == <<inbox, permission>>

Nothing == 0
Payloads == 1 .. MaxPayloads
Receipts == [stamp : Payloads, ok : BOOLEAN]

(* "begun" is a ghost: writes of this payload begun on this path.          *)
Workers == [path : 0 .. MaxPaths, outbox : 0 .. MaxPayloads, sending : 0 .. MaxPayloads,
            out : BOOLEAN, attempts : 0 .. MaxAttempts, deadline : BOOLEAN, begun : Nat]

Init ==
    /\ made = 0 /\ putting = Nothing /\ hand = Nothing /\ paths = 0
    /\ slot = [value |-> Nothing, changed |-> FALSE]
    /\ mode = [enabled |-> TRUE, changed |-> FALSE, revoking |-> FALSE, calls |-> 0]
    /\ worker = [path |-> 0, outbox |-> Nothing, sending |-> Nothing, out |-> FALSE,
                 attempts |-> 0, deadline |-> FALSE, begun |-> 0]
    /\ wire = <<>> /\ replies = <<>> /\ mailbox = <<>>
    /\ inbox = [applied |-> Nothing, pending |-> Nothing]
    /\ permission = [granted |-> TRUE, changes |-> 0]
    /\ confirmed = Nothing /\ revoked = {}

--------------------------------------------------------------------------------
(* The worker's helpers.                                                   *)

(* start_write: begin the next attempt, unless one is running, nothing may *)
(* be sent, the attempts are used up or there is no path.                  *)
StartWrite(w) ==
    IF w.sending # Nothing \/ ~mode.enabled \/ w.outbox = Nothing
    THEN w
    ELSE IF w.attempts >= MaxAttempts \/ w.path = 0
    THEN [w EXCEPT !.deadline = FALSE]
    ELSE [w EXCEPT !.sending = w.outbox, !.out = FALSE, !.deadline = FALSE,
                   !.attempts = @ + 1, !.begun = @ + 1]

(* schedule: arm the retry timer, or give up on this payload on this path. *)
Schedule(w) == [w EXCEPT !.deadline = w.attempts < MaxAttempts]

(* A write that is abandoned or finished.                                  *)
StopSending(w) == [w EXCEPT !.sending = Nothing, !.out = FALSE]

--------------------------------------------------------------------------------
(* The publisher and the session loop.                                     *)

(* publish, first half: a payload is admitted while the direction is on.   *)
PublishAdmit ==
    /\ mode.enabled /\ putting = Nothing /\ made < MaxPayloads
    /\ made' = made + 1
    /\ putting' = made + 1
    /\ UNCHANGED <<slot, mode, hand, worker, paths, wire, receiver, replies, mailbox,
                   confirmed, revoked>>

(* publish, second half: it replaces whatever the slot holds.              *)
PublishStore ==
    /\ putting # Nothing
    /\ slot' = [value |-> putting, changed |-> TRUE]
    /\ putting' = Nothing
    /\ UNCHANGED <<made, mode, hand, worker, paths, wire, receiver, replies, mailbox,
                   confirmed, revoked>>

(* What waits, apart from a payload the worker has just read: the worker   *)
(* looked at the flag before it changed and may still begin that one.      *)
Waiting == {slot.value, worker.outbox} \ {Nothing, hand}

(* set_enabled: the flag and its generation first ...                      *)
SetEnabled(on) ==
    /\ ~mode.revoking /\ mode.calls < MaxModes
    /\ mode' = [enabled |-> on, changed |-> mode.changed \/ mode.enabled # on,
                revoking |-> ~on, calls |-> mode.calls + 1]
    /\ revoked' = IF on THEN revoked ELSE revoked \cup Waiting
    /\ UNCHANGED <<made, putting, slot, hand, worker, paths, wire, receiver, replies,
                   mailbox, confirmed>>

(* ... and then, when it switches off, the slot is emptied.                *)
EmptySlot ==
    /\ mode.revoking
    /\ mode' = [mode EXCEPT !.revoking = FALSE]
    /\ revoked' = revoked \cup ({slot.value} \ {Nothing, hand})
    /\ slot' = [value |-> Nothing, changed |-> TRUE]
    /\ UNCHANGED <<made, putting, hand, worker, paths, wire, receiver, replies, mailbox,
                   confirmed>>

--------------------------------------------------------------------------------
(* The worker's arms, in the order of the select!.                         *)

(* mutant RerouteTired: the new path inherits the attempts of the old one. *)
RerouteTired(path) ==
    [StopSending(worker) EXCEPT
        !.path = path, !.deadline = FALSE, !.begun = 0,
        !.outbox = IF mode.changed THEN Nothing ELSE @]

(* The state a route update starts the worker from: no write, no timer, no *)
(* attempts, and nothing waiting if the direction has been switched since. *)
Rerouted(path) ==
    [StopSending(worker) EXCEPT
        !.path = path, !.deadline = FALSE, !.attempts = 0, !.begun = 0,
        !.outbox = IF mode.changed THEN Nothing ELSE @]

(* A route update: route() waits for the worker, so it is one step of both.*)
(* Frames of the old path may still be read until a new one is committed.  *)
RouteTo(path) ==
    /\ hand = Nothing /\ ~mode.revoking
    /\ worker' = StartWrite(Rerouted(path))
    /\ mode' = [mode EXCEPT !.changed = FALSE]
    /\ UNCHANGED <<made, putting, slot, hand, receiver, replies, mailbox, confirmed, revoked>>

ClosePath ==
    /\ worker.path # 0
    /\ RouteTo(0)
    /\ UNCHANGED <<paths, wire>>

OpenPath ==
    /\ worker.path = 0 /\ paths < MaxPaths
    /\ RouteTo(paths + 1)
    /\ paths' = paths + 1
    /\ wire' = <<>>

(* mutant SeeModeTimer: the retry timer is left running.                   *)
SeeModeTimer ==
    /\ hand = Nothing /\ mode.changed
    /\ mode' = [mode EXCEPT !.changed = FALSE]
    /\ worker' = [worker EXCEPT !.outbox = Nothing, !.attempts = 0]
    /\ UNCHANGED <<made, putting, slot, hand, paths, wire, receiver, replies, mailbox,
                   confirmed, revoked>>

(* The direction changed: what waits is forgotten, also when an off and an *)
(* on were seen as one change.                                             *)
SeeMode ==
    /\ hand = Nothing /\ mode.changed
    /\ mode' = [mode EXCEPT !.changed = FALSE]
    /\ worker' = [worker EXCEPT !.outbox = Nothing, !.deadline = FALSE, !.attempts = 0]
    /\ UNCHANGED <<made, putting, slot, hand, paths, wire, receiver, replies, mailbox,
                   confirmed, revoked>>

(* A receipt for the payload that waits.  A refusal arms the timer only    *)
(* when no write is running; the end of the write does it otherwise.       *)
SeeReceipt ==
    /\ hand = Nothing /\ ~mode.changed /\ mailbox # <<>>
    /\ mailbox' = Tail(mailbox)
    /\ LET receipt == Head(mailbox)
           current == worker.outbox = receipt.stamp
       IN /\ worker' =
                IF current /\ receipt.ok
                THEN [worker EXCEPT !.outbox = Nothing, !.deadline = FALSE]
                ELSE IF current /\ worker.sending = Nothing THEN Schedule(worker) ELSE worker
          /\ confirmed' = IF current /\ receipt.ok THEN receipt.stamp ELSE confirmed
    /\ UNCHANGED <<made, putting, slot, mode, hand, paths, wire, receiver, replies, revoked>>

(* Earlier arms are empty.                                                 *)
NothingBefore == hand = Nothing /\ ~mode.changed /\ mailbox = <<>>

(* A new payload, first half: read the slot and mark it seen.  With the    *)
(* direction off, whatever waits is dropped; an emptied slot needs nothing.*)
ReadSlot ==
    /\ NothingBefore /\ slot.changed
    /\ slot' = [slot EXCEPT !.changed = FALSE]
    /\ hand' = IF mode.enabled THEN slot.value ELSE Nothing
    /\ worker' = IF mode.enabled THEN worker
                 ELSE [worker EXCEPT !.outbox = Nothing, !.deadline = FALSE]
    /\ UNCHANGED <<made, putting, mode, paths, wire, receiver, replies, mailbox, confirmed,
                   revoked>>

(* mutant ClearAny: it is emptied whatever it holds.                       *)
ClearAny == [value |-> Nothing, changed |-> TRUE]

(* The slot is emptied only if it still holds what was read.               *)
ClearedSlot == IF slot.value = hand THEN [value |-> Nothing, changed |-> TRUE] ELSE slot

(* Second half: the payload replaces what waits and gets fresh attempts; a *)
(* write that is running is not cut short.                                 *)
TakePayload ==
    /\ hand # Nothing
    /\ slot' = ClearedSlot
    /\ worker' = StartWrite([worker EXCEPT !.outbox = hand, !.attempts = 0,
                                           !.deadline = FALSE, !.begun = 0])
    /\ hand' = Nothing
    /\ revoked' = IF mode.changed THEN revoked \cup {hand} ELSE revoked
    /\ UNCHANGED <<made, putting, mode, paths, wire, receiver, replies, mailbox, confirmed>>

(* mutant AfterWriteRests: a payload that came meanwhile is not started.   *)
AfterWriteRests(w) ==
    IF w.sending = w.outbox THEN Schedule(StopSending(w)) ELSE StopSending(w)

(* The end of a write: wait for the receipt, or go on with what replaced   *)
(* the payload meanwhile.                                                  *)
AfterWrite(w) ==
    IF w.sending = w.outbox THEN Schedule(StopSending(w)) ELSE StartWrite(StopSending(w))

(* A write ends: whole, or with an error after which nothing arrives.      *)
WriteEnds ==
    /\ NothingBefore /\ ~slot.changed /\ worker.sending # Nothing
    /\ worker' = AfterWrite(worker)
    /\ UNCHANGED <<made, putting, slot, mode, hand, paths, wire, receiver, replies, mailbox,
                   confirmed, revoked>>

(* The retry timer.                                                        *)
Retry ==
    /\ NothingBefore /\ ~slot.changed /\ worker.deadline
    /\ worker' = StartWrite(worker)
    /\ UNCHANGED <<made, putting, slot, mode, hand, paths, wire, receiver, replies, mailbox,
                   confirmed, revoked>>

(* The writer task puts the last byte of the frame on the path; the write  *)
(* future may learn of it later than the peer.                             *)
FrameOut ==
    /\ worker.sending # Nothing /\ ~worker.out /\ worker.path # 0
    /\ worker' = [worker EXCEPT !.out = TRUE]
    /\ wire' = Append(wire, worker.sending)
    /\ UNCHANGED <<made, putting, slot, mode, hand, paths, receiver, replies, mailbox,
                   confirmed, revoked>>

--------------------------------------------------------------------------------
(* The receiving session.                                                  *)

Reply(stamp, ok) == Append(replies, [stamp |-> stamp, ok |-> ok])

(* mutant FrameInHasty: a payload in hand is answered as applied.          *)
FrameInHasty ==
    /\ wire # <<>>
    /\ wire' = Tail(wire)
    /\ LET stamp == Head(wire)
       IN IF stamp \in {inbox.applied, inbox.pending}
          THEN replies' = Reply(stamp, TRUE) /\ UNCHANGED inbox
          ELSE IF ~permission.granted \/ stamp < inbox.applied \/ inbox.pending # Nothing
          THEN replies' = Reply(stamp, FALSE) /\ UNCHANGED inbox
          ELSE inbox' = [inbox EXCEPT !.pending = stamp] /\ UNCHANGED replies
    /\ UNCHANGED <<sender, permission>>

(* Delivery::begin over ClipboardInbox::begin: refuse without permission,  *)
(* when older than what is applied or being applied, or while busy; answer *)
(* a repetition of what is applied; say nothing about what is in hand.     *)
FrameIn ==
    /\ wire # <<>>
    /\ wire' = Tail(wire)
    /\ LET stamp == Head(wire)
           repeated == stamp = inbox.applied
           inHand == stamp = inbox.pending
           refused == stamp < inbox.applied \/ inbox.pending # Nothing
       IN \/ /\ ~permission.granted
             /\ replies' = Reply(stamp, FALSE)
             /\ UNCHANGED inbox
          \/ /\ permission.granted /\ repeated
             /\ replies' = Reply(stamp, TRUE)
             /\ UNCHANGED inbox
          \/ /\ permission.granted /\ ~repeated /\ inHand
             /\ UNCHANGED <<inbox, replies>>
          \/ /\ permission.granted /\ ~repeated /\ ~inHand /\ refused
             /\ replies' = Reply(stamp, FALSE)
             /\ UNCHANGED inbox
          \/ /\ permission.granted /\ ~repeated /\ ~inHand /\ ~refused
             /\ inbox' = [inbox EXCEPT !.pending = stamp]
             /\ UNCHANGED replies
    /\ UNCHANGED <<sender, permission>>

(* The application of the payload in hand ends, well or not, and only then *)
(* is it answered.                                                         *)
Applied(ok) ==
    /\ inbox.pending # Nothing
    /\ inbox' = [applied |-> IF ok THEN inbox.pending ELSE inbox.applied, pending |-> Nothing]
    /\ replies' = Reply(inbox.pending, ok)
    /\ UNCHANGED <<sender, permission, wire>>

(* mutant ReceiptInAlways: the mailbox has no limit.                       *)
ReceiptInAlways ==
    /\ replies # <<>>
    /\ replies' = Tail(replies)
    /\ mailbox' = Append(mailbox, Head(replies))
    /\ UNCHANGED <<made, putting, slot, mode, hand, worker, paths, wire, receiver, confirmed,
                   revoked>>

(* A receipt reaches the sending session, which hands it to the worker or  *)
(* drops it when the mailbox is full.                                      *)
ReceiptIn ==
    /\ replies # <<>>
    /\ replies' = Tail(replies)
    /\ mailbox' = IF Len(mailbox) < MailboxLimit THEN Append(mailbox, Head(replies)) ELSE mailbox
    /\ UNCHANGED <<made, putting, slot, mode, hand, worker, paths, wire, receiver, confirmed,
                   revoked>>

(* The capabilities grant or withdraw the permission to receive.           *)
ChangePermission ==
    /\ permission.changes < MaxPermissions
    /\ permission' = [granted |-> ~permission.granted, changes |-> permission.changes + 1]
    /\ UNCHANGED <<sender, inbox, wire, replies>>

--------------------------------------------------------------------------------
Worker ==
    SeeMode \/ SeeReceipt \/ ReadSlot \/ TakePayload \/ WriteEnds \/ Retry \/ FrameOut

Next ==
    \/ PublishAdmit \/ PublishStore \/ \E on \in BOOLEAN : SetEnabled(on) \/ EmptySlot
    \/ ClosePath \/ OpenPath
    \/ Worker
    \/ FrameIn \/ \E ok \in BOOLEAN : Applied(ok)
    \/ ReceiptIn \/ ChangePermission

Spec == Init /\ [][Next]_vars

(* Every task that can run is scheduled, timers fire, applications end.    *)
Fairness ==
    /\ WF_vars(PublishStore) /\ WF_vars(EmptySlot)
    /\ WF_vars(SeeMode) /\ WF_vars(SeeReceipt) /\ WF_vars(ReadSlot) /\ WF_vars(TakePayload)
    /\ WF_vars(WriteEnds) /\ WF_vars(Retry)
    /\ WF_vars(FrameIn) /\ WF_vars(\E ok \in BOOLEAN : Applied(ok)) /\ WF_vars(ReceiptIn)

FairSpec == Spec /\ Fairness

--------------------------------------------------------------------------------
(* Every variable has its type; the worker's mailbox keeps to its limit.   *)
TypeOK ==
    /\ made \in 0 .. MaxPayloads /\ putting \in 0 .. MaxPayloads /\ hand \in 0 .. MaxPayloads
    /\ slot \in [value : 0 .. MaxPayloads, changed : BOOLEAN]
    /\ mode \in [enabled : BOOLEAN, changed : BOOLEAN, revoking : BOOLEAN, calls : 0 .. MaxModes]
    /\ worker \in Workers /\ paths \in 0 .. MaxPaths
    /\ wire \in Seq(Payloads) /\ replies \in Seq(Receipts)
    /\ mailbox \in Seq(Receipts) /\ Len(mailbox) <= MailboxLimit
    /\ inbox \in [applied : 0 .. MaxPayloads, pending : 0 .. MaxPayloads]
    /\ permission \in [granted : BOOLEAN, changes : 0 .. MaxPermissions]
    /\ confirmed \in 0 .. MaxPayloads /\ revoked \subseteq Payloads

(* What the sender takes as delivered is on the receiver's clipboard, or   *)
(* was until something newer replaced it (clipboard.rs: only a successful  *)
(* application is acknowledged, and only for the payload that waits).      *)
ConfirmedIsApplied == confirmed <= inbox.applied

(* The receiver only ever begins to apply something newer than what it has *)
(* applied, and one payload at a time: nothing is applied twice or put back*)
(* over something newer, whatever is repeated on whatever path.            *)
NeverBackwards ==
    [][inbox'.pending \notin {Nothing, inbox.pending} =>
        inbox.pending = Nothing /\ inbox'.pending > inbox.applied]_inbox

(* The retry timer runs only when firing it starts a write: otherwise the  *)
(* worker's select! would find the timer expired again and again and spin. *)
TimerHasWork ==
    worker.deadline =>
        /\ worker.sending = Nothing /\ worker.outbox # Nothing
        /\ worker.attempts < MaxAttempts

(* A payload that waits on an open path is being written, has a retry      *)
(* ahead, or has used up its attempts: nothing is silently forgotten.      *)
KeepsTrying ==
    worker.outbox # Nothing /\ worker.path # 0 /\ ~mode.changed =>
        worker.sending # Nothing \/ worker.deadline \/ worker.begun >= MaxAttempts

(* The newest payload is never lost on its way: until it is confirmed it   *)
(* is in the publisher's hands, in the slot, with the worker, or it was    *)
(* dropped because the direction was switched off.                         *)
NewestIsKept ==
    made # 0 /\ mode.calls = 0 =>
        made \in {putting, slot.value, hand, worker.outbox, confirmed}

(* Nothing is left to do: the newest payload is confirmed, or its attempts *)
(* are used up, or there is no path.                                       *)
Settled ==
    \/ worker.path = 0
    \/ made = confirmed
    \/ worker.outbox = made /\ worker.begun = MaxAttempts /\ worker.sending = Nothing

(* With the direction left on, the newest payload is in the end confirmed  *)
(* or given up after all its attempts: coalescing, a busy receiver and a   *)
(* receipt that overtakes the end of its own write do not strand it.       *)
Settles == <>(mode.calls # 0) \/ <>[]Settled
================================================================================
