------------------------ MODULE ClipboardDeliveryProofs ------------------------
(***************************************************************************)
(* The delivery of the newest clipboard is honest, never goes backwards    *)
(* and loses nothing, for any number of payloads, paths, attempts, changes *)
(* of mode and permission, and any size of the mailbox.                    *)
(***************************************************************************)
EXTENDS ClipboardDelivery, SequenceTheorems, TLAPS

(* A payload is only ever in front of newer ones: each place holds nothing *)
(* or something no older than what the places after it hold.               *)
Behind(p, q) == p # Nothing /\ q # Nothing => p <= q

InOrder ==
    /\ Behind(confirmed, worker.outbox) /\ Behind(confirmed, hand)
    /\ Behind(confirmed, slot.value) /\ Behind(worker.outbox, hand)
    /\ Behind(worker.outbox, slot.value) /\ Behind(hand, slot.value)
    /\ confirmed <= made /\ worker.outbox <= made /\ hand <= made /\ slot.value <= made
    /\ putting # Nothing => putting = made

(* Until the first call of set_enabled nothing is ever revoked.            *)
NeverOff == mode.calls = 0 => mode.enabled /\ ~mode.changed /\ ~mode.revoking

(* What is in hand at the receiver is newer than what it has applied.      *)
HandIsNewer == inbox.pending # Nothing => inbox.pending > inbox.applied

(* Receipts under way and in the mailbox that say ok are for payloads no   *)
(* newer than what is applied.                                             *)
Honest(receipts) ==
    \A k \in DOMAIN receipts : receipts[k].ok => receipts[k].stamp <= inbox.applied

IInv ==
    /\ TypeOK
    /\ InOrder /\ NeverOff /\ NewestIsKept
    /\ HandIsNewer /\ Honest(replies) /\ Honest(mailbox) /\ ConfirmedIsApplied

--------------------------------------------------------------------------------
(* The worker's helpers keep the type of the worker and what waits.        *)
LEMMA StartWriteType ==
    ASSUME NEW w \in Workers
    PROVE  StartWrite(w) \in Workers /\ StartWrite(w).outbox = w.outbox
<1> DEFINE tired == [w EXCEPT !.deadline = FALSE]
           begun == [w EXCEPT !.sending = w.outbox, !.out = FALSE, !.deadline = FALSE,
                              !.attempts = @ + 1, !.begun = @ + 1]
<1>1. tired \in Workers /\ tired.outbox = w.outbox
  BY DEF Workers
<1>2. ASSUME ~(w.attempts >= MaxAttempts)
      PROVE  begun \in Workers /\ begun.outbox = w.outbox
  <2>1. w.attempts + 1 \in 0 .. MaxAttempts /\ w.begun + 1 \in Nat /\ w.outbox \in 0 .. MaxPayloads
    BY <1>2, DeliveryAssumption DEF Workers
  <2>2. QED  BY <2>1 DEF Workers
<1>3. StartWrite(w) \in {w, tired} \/ (~(w.attempts >= MaxAttempts) /\ StartWrite(w) = begun)
  BY Zenon DEF StartWrite
<1>4. QED  BY <1>1, <1>2, <1>3

LEMMA ScheduleType ==
    ASSUME NEW w \in Workers
    PROVE  Schedule(w) \in Workers /\ Schedule(w).outbox = w.outbox
<1> DEFINE more == w.attempts < MaxAttempts
<1>1. more \in BOOLEAN
  OBVIOUS
<1>2. Schedule(w) = [w EXCEPT !.deadline = more]
  BY DEF Schedule
<1> HIDE DEF more
<1>3. QED  BY <1>1, <1>2 DEF Workers

LEMMA StopSendingType ==
    ASSUME NEW w \in Workers
    PROVE  StopSending(w) \in Workers /\ StopSending(w).outbox = w.outbox
<1>1. 0 \in 0 .. MaxPayloads
  BY DeliveryAssumption
<1>2. QED  BY <1>1 DEF StopSending, Workers, Nothing

LEMMA AfterWriteType ==
    ASSUME NEW w \in Workers
    PROVE  AfterWrite(w) \in Workers /\ AfterWrite(w).outbox = w.outbox
BY StartWriteType, ScheduleType, StopSendingType DEF AfterWrite

LEMMA ReroutedType ==
    ASSUME worker \in Workers, NEW path \in 0 .. MaxPaths
    PROVE  /\ Rerouted(path) \in Workers
           /\ Rerouted(path).outbox = IF mode.changed THEN Nothing ELSE worker.outbox
<1>1. 0 \in 0 .. MaxPayloads /\ 0 \in 0 .. MaxAttempts /\ 0 \in Nat
  BY DeliveryAssumption
<1>2. QED  BY <1>1 DEF Rerouted, StopSending, Workers, Nothing

--------------------------------------------------------------------------------
LEMMA InitIInv == Init => IInv
BY DeliveryAssumption DEF Init, IInv, TypeOK, Workers, Receipts, Payloads, Nothing, InOrder,
    Behind, NeverOff, NewestIsKept, HandIsNewer, Honest, ConfirmedIsApplied

(* The first and the rest of a queue of receipts, and a queue with one     *)
(* more.                                                                   *)
LEMMA QueueFacts ==
    ASSUME NEW q \in Seq(Receipts), NEW r \in Receipts
    PROVE  /\ Append(q, r) \in Seq(Receipts)
           /\ \A k \in DOMAIN Append(q, r) :
                 Append(q, r)[k] = r \/ (k \in DOMAIN q /\ Append(q, r)[k] = q[k])
           /\ Len(Append(q, r)) = Len(q) + 1
           /\ q # <<>> => /\ Head(q) \in Receipts /\ Tail(q) \in Seq(Receipts)
                         /\ Len(Tail(q)) = Len(q) - 1
                         /\ \A k \in DOMAIN Tail(q) : k + 1 \in DOMAIN q /\ Tail(q)[k] = q[k + 1]
                         /\ 1 \in DOMAIN q /\ Head(q) = q[1]
OBVIOUS

LEMMA HonestAppend ==
    ASSUME NEW q \in Seq(Receipts), NEW r \in Receipts, Honest(q),
           r.ok => r.stamp <= inbox.applied
    PROVE  Honest(Append(q, r))
BY QueueFacts DEF Honest

LEMMA HonestTail ==
    ASSUME NEW q \in Seq(Receipts), q # <<>>, Honest(q)
    PROVE  Honest(Tail(q)) /\ (Head(q).ok => Head(q).stamp <= inbox.applied)
<1>1. PICK r \in Receipts : r = Head(q)
  BY HeadTailProperties
<1>2. QED  BY <1>1, QueueFacts DEF Honest

(* Every step of the publisher, the session loop, the worker and the       *)
(* receiver keeps the invariant.                                           *)
LEMMA StepIInv == IInv /\ [Next]_vars => IInv'
<1> SUFFICES ASSUME IInv, [Next]_vars
             PROVE  IInv'
    OBVIOUS
<1> USE DeliveryAssumption DEF IInv
<1>0. /\ worker \in Workers /\ worker.outbox \in 0 .. MaxPayloads
      /\ worker.sending \in 0 .. MaxPayloads
      /\ made \in 0 .. MaxPayloads /\ hand \in 0 .. MaxPayloads /\ putting \in 0 .. MaxPayloads
      /\ slot \in [value : 0 .. MaxPayloads, changed : BOOLEAN]
      /\ slot.value \in 0 .. MaxPayloads /\ slot.changed \in BOOLEAN
      /\ 0 \in 0 .. MaxPayloads /\ 0 \in 0 .. MaxAttempts
      /\ confirmed \in 0 .. MaxPayloads /\ revoked \subseteq Payloads
      /\ mode \in [enabled : BOOLEAN, changed : BOOLEAN, revoking : BOOLEAN, calls : 0 .. MaxModes]
      /\ mode.enabled \in BOOLEAN /\ mode.changed \in BOOLEAN /\ mode.revoking \in BOOLEAN
      /\ mode.calls \in 0 .. MaxModes
  BY DEF TypeOK, Workers
<1>00. ASSUME NEW w \in Workers
       PROVE  [w EXCEPT !.outbox = Nothing, !.deadline = FALSE] \in Workers
  BY <1>0 DEF Workers, Nothing
<1>1. CASE PublishAdmit
  <2>1. TypeOK'
    BY <1>1 DEF PublishAdmit, receiver, TypeOK, Receipts, Payloads, Nothing
  <2>2. InOrder' /\ NeverOff' /\ NewestIsKept'
    BY <1>0, <1>1 DEF PublishAdmit, Nothing, InOrder, Behind, NeverOff, NewestIsKept
  <2>3. HandIsNewer' /\ Honest(replies)' /\ Honest(mailbox)' /\ ConfirmedIsApplied'
    BY <1>1 DEF PublishAdmit, receiver, TypeOK, Receipts, Payloads, Nothing, HandIsNewer, Honest, ConfirmedIsApplied, receiver
  <2>4. QED  BY <2>1, <2>2, <2>3
<1>2. CASE PublishStore
  <2>1. TypeOK'
    BY <1>2 DEF PublishStore, receiver, TypeOK, Receipts, Payloads, Nothing
  <2>2. InOrder' /\ NeverOff' /\ NewestIsKept'
    BY <1>2 DEF PublishStore, receiver, TypeOK, Receipts, Payloads, Nothing, InOrder, Behind, NeverOff, NewestIsKept
  <2>3. HandIsNewer' /\ Honest(replies)' /\ Honest(mailbox)' /\ ConfirmedIsApplied'
    BY <1>2 DEF PublishStore, receiver, TypeOK, Receipts, Payloads, Nothing, HandIsNewer, Honest, ConfirmedIsApplied, receiver
  <2>4. QED  BY <2>1, <2>2, <2>3
<1>3. ASSUME NEW on \in BOOLEAN, SetEnabled(on) PROVE IInv'
  <2>1. TypeOK'
    <3> DEFINE differs == mode.changed \/ mode.enabled # on
    <3>0. mode.calls < MaxModes
      BY <1>3 DEF SetEnabled
    <3>1. differs \in BOOLEAN /\ (~on) \in BOOLEAN /\ mode.calls + 1 \in 0 .. MaxModes
      <4>1. mode.calls + 1 \in 0 .. MaxModes
        BY <1>0, <3>0
      <4>2. differs \in BOOLEAN
        OBVIOUS
      <4>3. (~on) \in BOOLEAN
        OBVIOUS
      <4>4. QED  BY <4>1, <4>2, <4>3
    <3>2. mode' = [enabled |-> on, changed |-> differs, revoking |-> ~on, calls |-> mode.calls + 1]
      BY <1>3 DEF SetEnabled
    <3> HIDE DEF differs
    <3>3. mode' \in [enabled : BOOLEAN, changed : BOOLEAN, revoking : BOOLEAN, calls : 0 .. MaxModes]
      BY <3>1, <3>2
    <3>4. revoked' \subseteq Payloads
      <4>1. Waiting \subseteq Payloads
        BY <1>0 DEF Waiting, Payloads, Nothing
      <4>2. revoked' \in {revoked, revoked \cup Waiting}
        BY <1>3 DEF SetEnabled
      <4>3. QED  BY <1>0, <4>1, <4>2
    <3>5. QED  BY <1>3, <3>3, <3>4 DEF SetEnabled, TypeOK, receiver
  <2>2. InOrder' /\ NeverOff' /\ NewestIsKept'
    BY <1>3 DEF SetEnabled, Waiting, receiver, TypeOK, Receipts, Payloads, Nothing, InOrder, Behind, NeverOff, NewestIsKept
  <2>3. HandIsNewer' /\ Honest(replies)' /\ Honest(mailbox)' /\ ConfirmedIsApplied'
    BY <1>3 DEF SetEnabled, Waiting, receiver, TypeOK, Receipts, Payloads, Nothing, HandIsNewer, Honest, ConfirmedIsApplied, receiver
  <2>4. QED  BY <2>1, <2>2, <2>3
<1>4. CASE EmptySlot
  <2>1. TypeOK'
    <3>1. mode' \in [enabled : BOOLEAN, changed : BOOLEAN, revoking : BOOLEAN, calls : 0 .. MaxModes]
      BY <1>0, <1>4 DEF EmptySlot
    <3>2. slot' \in [value : 0 .. MaxPayloads, changed : BOOLEAN] /\ revoked' \subseteq Payloads
      BY <1>0, <1>4 DEF EmptySlot, Payloads, Nothing
    <3>3. QED  BY <1>4, <3>1, <3>2 DEF EmptySlot, TypeOK, receiver
  <2>2. InOrder' /\ NeverOff' /\ NewestIsKept'
    BY <1>4 DEF EmptySlot, receiver, TypeOK, Receipts, Payloads, Nothing, InOrder, Behind, NeverOff, NewestIsKept
  <2>3. HandIsNewer' /\ Honest(replies)' /\ Honest(mailbox)' /\ ConfirmedIsApplied'
    BY <1>4 DEF EmptySlot, receiver, TypeOK, Receipts, Payloads, Nothing, HandIsNewer, Honest, ConfirmedIsApplied, receiver
  <2>4. QED  BY <2>1, <2>2, <2>3
<1>5. ASSUME NEW path \in 0 .. MaxPaths, RouteTo(path), paths' \in 0 .. MaxPaths, wire' \in {wire, <<>>}
      PROVE  IInv'
  <2>1. TypeOK'
    <3>1. worker' \in Workers
      BY <1>0, <1>5, ReroutedType, StartWriteType DEF RouteTo
    <3>2. mode' \in [enabled : BOOLEAN, changed : BOOLEAN, revoking : BOOLEAN, calls : 0 .. MaxModes]
      BY <1>0, <1>5 DEF RouteTo
    <3>3. wire' \in Seq(Payloads)
      <4>1. wire \in Seq(Payloads) /\ <<>> \in Seq(Payloads)
        BY DEF TypeOK
      <4>2. QED  BY <1>5, <4>1
    <3>4. QED  BY <1>5, <3>1, <3>2, <3>3 DEF RouteTo, TypeOK, receiver
  <2>2. InOrder' /\ NeverOff' /\ NewestIsKept'
    BY <1>5, ReroutedType, StartWriteType DEF RouteTo, receiver, TypeOK, Receipts, Payloads, Nothing, InOrder, Behind, NeverOff, NewestIsKept
  <2>3. HandIsNewer' /\ Honest(replies)' /\ Honest(mailbox)' /\ ConfirmedIsApplied'
    BY <1>5 DEF RouteTo, receiver, TypeOK, Receipts, Payloads, Nothing, HandIsNewer, Honest, ConfirmedIsApplied, receiver
  <2>4. QED  BY <2>1, <2>2, <2>3
<1>6. CASE SeeMode
  <2>1. TypeOK'
    <3>1. worker' \in Workers
      BY <1>0, <1>6 DEF SeeMode, Workers, Nothing
    <3>2. mode' \in [enabled : BOOLEAN, changed : BOOLEAN, revoking : BOOLEAN, calls : 0 .. MaxModes]
      BY <1>0, <1>6 DEF SeeMode
    <3>3. QED  BY <1>6, <3>1, <3>2 DEF SeeMode, TypeOK, receiver
  <2>2. InOrder' /\ NeverOff' /\ NewestIsKept'
    BY <1>6 DEF SeeMode, receiver, TypeOK, Receipts, Payloads, Nothing, InOrder, Behind, NeverOff, NewestIsKept, Workers
  <2>3. HandIsNewer' /\ Honest(replies)' /\ Honest(mailbox)' /\ ConfirmedIsApplied'
    BY <1>6 DEF SeeMode, receiver, TypeOK, Receipts, Payloads, Nothing, HandIsNewer, Honest, ConfirmedIsApplied, receiver
  <2>4. QED  BY <2>1, <2>2, <2>3
<1>7. CASE SeeReceipt
  <2> DEFINE receipt == Head(mailbox)
  <2>1. /\ receipt \in Receipts /\ Tail(mailbox) \in Seq(Receipts)
        /\ Len(Tail(mailbox)) <= MailboxLimit
        /\ Honest(Tail(mailbox)) /\ (receipt.ok => receipt.stamp <= inbox.applied)
    <3>1. mailbox \in Seq(Receipts) /\ mailbox # <<>> /\ Len(mailbox) <= MailboxLimit
      BY <1>7 DEF SeeReceipt, TypeOK
    <3>2. receipt \in Receipts
      BY <3>1
    <3>3. QED  BY <3>1, <3>2, QueueFacts, HonestTail
  <2>2. receipt.stamp \in 1 .. MaxPayloads
    BY <2>1 DEF Receipts, Payloads
  <2>3. /\ mailbox' = Tail(mailbox)
        /\ \/ worker.outbox = receipt.stamp /\ receipt.ok /\ confirmed' = receipt.stamp
              /\ worker' = [worker EXCEPT !.outbox = Nothing, !.deadline = FALSE]
           \/ worker' \in {worker, Schedule(worker)} /\ confirmed' = confirmed
    BY <1>7 DEF SeeReceipt
  <2>4. worker' \in Workers /\ worker'.outbox \in {worker.outbox, Nothing}
    <3>1. [worker EXCEPT !.outbox = Nothing, !.deadline = FALSE].outbox = Nothing
      BY <1>0 DEF Workers
    <3>2. QED  BY <1>0, <1>00, <2>3, <3>1, ScheduleType
  <2>5. /\ confirmed' \in 0 .. MaxPayloads /\ confirmed' <= inbox.applied
        /\ \/ confirmed' = confirmed /\ worker'.outbox = worker.outbox
           \/ worker.outbox # Nothing /\ confirmed' = worker.outbox /\ worker'.outbox = Nothing
    <3>1. [worker EXCEPT !.outbox = Nothing, !.deadline = FALSE].outbox = Nothing
      BY <1>0 DEF Workers
    <3>2. Schedule(worker).outbox = worker.outbox /\ confirmed <= inbox.applied
      BY <1>0, ScheduleType DEF ConfirmedIsApplied
    <3>3. CASE worker' \in {worker, Schedule(worker)} /\ confirmed' = confirmed
      BY <1>0, <3>2, <3>3
    <3>4. CASE /\ worker.outbox = receipt.stamp /\ receipt.ok /\ confirmed' = receipt.stamp
               /\ worker' = [worker EXCEPT !.outbox = Nothing, !.deadline = FALSE]
      BY <2>1, <2>2, <3>1, <3>4 DEF Nothing
    <3>5. QED  BY <2>3, <3>3, <3>4
  <2>6. UNCHANGED <<made, putting, slot, mode, hand, paths, wire, inbox, permission, replies, revoked>>
    BY <1>7 DEF SeeReceipt, receiver
  <2> HIDE DEF receipt
  <2>7. TypeOK'
    BY <2>1, <2>3, <2>4, <2>5, <2>6 DEF TypeOK
  <2>8. InOrder' /\ NeverOff' /\ NewestIsKept'
    BY <1>0, <2>5, <2>6 DEF InOrder, Behind, NeverOff, NewestIsKept, Nothing
  <2>9. HandIsNewer' /\ Honest(replies)' /\ Honest(mailbox)' /\ ConfirmedIsApplied'
    BY <2>1, <2>3, <2>5, <2>6 DEF HandIsNewer, Honest, ConfirmedIsApplied
  <2>10. QED  BY <2>7, <2>8, <2>9
<1>8. CASE ReadSlot
  <2>1. TypeOK'
    BY <1>8 DEF ReadSlot, NothingBefore, receiver, TypeOK, Receipts, Payloads, Nothing, Workers
  <2>2. InOrder' /\ NeverOff' /\ NewestIsKept'
    <3>1. /\ UNCHANGED <<made, putting, mode, confirmed>> /\ slot'.value = slot.value
          /\ hand = Nothing /\ hand' = (IF mode.enabled THEN slot.value ELSE Nothing)
          /\ worker'.outbox = (IF mode.enabled THEN worker.outbox ELSE Nothing)
      BY <1>0, <1>8 DEF ReadSlot, NothingBefore, Workers
    <3>2. QED  BY <1>0, <3>1 DEF InOrder, Behind, NeverOff, NewestIsKept, Nothing
  <2>3. HandIsNewer' /\ Honest(replies)' /\ Honest(mailbox)' /\ ConfirmedIsApplied'
    BY <1>8 DEF ReadSlot, NothingBefore, receiver, TypeOK, Receipts, Payloads, Nothing, HandIsNewer, Honest, ConfirmedIsApplied, receiver
  <2>4. QED  BY <2>1, <2>2, <2>3
<1>9. CASE TakePayload
  <2>0. worker' \in Workers /\ worker'.outbox = hand
    <3> DEFINE fresh == [worker EXCEPT !.outbox = hand, !.attempts = 0, !.deadline = FALSE, !.begun = 0]
    <3>1. fresh \in Workers /\ fresh.outbox = hand
      BY <1>0 DEF Workers
    <3>2. worker' = StartWrite(fresh)
      BY <1>9 DEF TakePayload
    <3>3. QED  BY <3>1, <3>2, StartWriteType
  <2>1. TypeOK'
    <3>1. worker' \in Workers
      BY <2>0
    <3>2. slot' \in [value : 0 .. MaxPayloads, changed : BOOLEAN] /\ revoked' \subseteq Payloads
      BY <1>0, <1>9 DEF TakePayload, ClearedSlot, Payloads, Nothing
    <3>3. QED  BY <1>0, <1>9, <3>1, <3>2 DEF TakePayload, TypeOK, receiver, Nothing
  <2>2. InOrder' /\ NeverOff' /\ NewestIsKept'
    <3>1. /\ UNCHANGED <<made, putting, mode, confirmed>> /\ hand # Nothing /\ hand' = Nothing
          /\ slot'.value = (IF slot.value = hand THEN Nothing ELSE slot.value)
      BY <1>0, <1>9 DEF TakePayload, ClearedSlot
    <3>2. QED  BY <1>0, <2>0, <3>1 DEF InOrder, Behind, NeverOff, NewestIsKept, Nothing
  <2>3. HandIsNewer' /\ Honest(replies)' /\ Honest(mailbox)' /\ ConfirmedIsApplied'
    BY <1>9 DEF TakePayload, ClearedSlot, receiver, TypeOK, Receipts, Payloads, Nothing, HandIsNewer, Honest, ConfirmedIsApplied, receiver
  <2>4. QED  BY <2>1, <2>2, <2>3
<1>10. CASE WriteEnds
  <2>1. TypeOK'
    BY <1>10, AfterWriteType DEF WriteEnds, receiver, TypeOK, Receipts, Payloads, Nothing
  <2>2. InOrder' /\ NeverOff' /\ NewestIsKept'
    BY <1>10, AfterWriteType DEF WriteEnds, receiver, TypeOK, Receipts, Payloads, Nothing, InOrder, Behind, NeverOff, NewestIsKept
  <2>3. HandIsNewer' /\ Honest(replies)' /\ Honest(mailbox)' /\ ConfirmedIsApplied'
    BY <1>10 DEF WriteEnds, receiver, TypeOK, Receipts, Payloads, Nothing, HandIsNewer, Honest, ConfirmedIsApplied, receiver
  <2>4. QED  BY <2>1, <2>2, <2>3
<1>11. CASE Retry
  <2>1. TypeOK'
    BY <1>11, StartWriteType DEF Retry, receiver, TypeOK, Receipts, Payloads, Nothing
  <2>2. InOrder' /\ NeverOff' /\ NewestIsKept'
    BY <1>11, StartWriteType DEF Retry, receiver, TypeOK, Receipts, Payloads, Nothing, InOrder, Behind, NeverOff, NewestIsKept
  <2>3. HandIsNewer' /\ Honest(replies)' /\ Honest(mailbox)' /\ ConfirmedIsApplied'
    BY <1>11 DEF Retry, receiver, TypeOK, Receipts, Payloads, Nothing, HandIsNewer, Honest, ConfirmedIsApplied, receiver
  <2>4. QED  BY <2>1, <2>2, <2>3
<1>12. CASE FrameOut
  <2>1. TypeOK'
    <3>1. worker' \in Workers
      BY <1>0, <1>12 DEF FrameOut, Workers
    <3>2. wire' \in Seq(Payloads)
      <4>1. wire \in Seq(Payloads) /\ wire' = Append(wire, worker.sending)
        BY <1>12 DEF FrameOut, TypeOK
      <4>2. worker.sending \in Payloads
        BY <1>0, <1>12 DEF FrameOut, Payloads, Nothing
      <4>3. QED  BY <4>1, <4>2, AppendProperties
    <3>3. QED  BY <1>12, <3>1, <3>2 DEF FrameOut, TypeOK, receiver
  <2>2. InOrder' /\ NeverOff' /\ NewestIsKept'
    BY <1>12 DEF FrameOut, receiver, TypeOK, Receipts, Payloads, Nothing, InOrder, Behind, NeverOff, NewestIsKept, Workers
  <2>3. HandIsNewer' /\ Honest(replies)' /\ Honest(mailbox)' /\ ConfirmedIsApplied'
    BY <1>12 DEF FrameOut, receiver, TypeOK, Receipts, Payloads, Nothing, HandIsNewer, Honest, ConfirmedIsApplied, receiver
  <2>4. QED  BY <2>1, <2>2, <2>3
<1>13. CASE FrameIn
  <2> DEFINE stamp == Head(wire)
  <2>1. stamp \in 1 .. MaxPayloads /\ wire' \in Seq(Payloads)
    <3>1. wire \in Seq(Payloads) /\ wire # <<>> /\ wire' = Tail(wire)
      BY <1>13 DEF FrameIn, TypeOK
    <3>2. QED  BY <3>1, HeadTailProperties DEF Payloads
  <2>2. \/ replies' = Reply(stamp, FALSE) /\ inbox' = inbox
        \/ replies' = Reply(stamp, TRUE) /\ inbox' = inbox /\ stamp = inbox.applied
        \/ replies' = replies /\ inbox' = inbox
        \/ /\ replies' = replies /\ inbox' = [inbox EXCEPT !.pending = stamp]
           /\ stamp # inbox.applied /\ ~(stamp < inbox.applied)
    BY <1>13 DEF FrameIn
  <2>3. UNCHANGED <<made, putting, slot, mode, hand, worker, paths, mailbox, confirmed, revoked, permission>>
    BY <1>13 DEF FrameIn, sender
  <2> HIDE DEF stamp
  <2>4. /\ inbox \in [applied : 0 .. MaxPayloads, pending : 0 .. MaxPayloads]
        /\ inbox.applied \in 0 .. MaxPayloads /\ inbox.pending \in 0 .. MaxPayloads
        /\ replies \in Seq(Receipts)
    BY DEF TypeOK
  <2>5. ASSUME NEW ok \in BOOLEAN
        PROVE  [stamp |-> stamp, ok |-> ok] \in Receipts
    BY <2>1 DEF Receipts, Payloads
  <2>6. /\ inbox' \in [applied : 0 .. MaxPayloads, pending : 0 .. MaxPayloads]
        /\ inbox'.applied = inbox.applied /\ HandIsNewer'
    <3>1. CASE inbox' = inbox
      BY <2>4, <3>1 DEF HandIsNewer
    <3>2. CASE inbox' = [inbox EXCEPT !.pending = stamp] /\ stamp > inbox.applied
      <4>1. stamp \in 0 .. MaxPayloads
        BY <2>1
      <4>2. /\ inbox' \in [applied : 0 .. MaxPayloads, pending : 0 .. MaxPayloads]
            /\ inbox'.applied = inbox.applied /\ inbox'.pending = stamp
        BY <2>4, <3>2, <4>1
      <4>3. QED  BY <3>2, <4>2 DEF HandIsNewer
    <3>3. stamp # inbox.applied /\ ~(stamp < inbox.applied) => stamp > inbox.applied
      BY <2>1, <2>4
    <3>4. CASE inbox' = [inbox EXCEPT !.pending = stamp]
               /\ stamp # inbox.applied /\ ~(stamp < inbox.applied)
      BY <3>2, <3>3, <3>4
    <3>5. QED  BY <2>2, <3>1, <3>4
  <2>7. replies' \in Seq(Receipts) /\ Honest(replies')
    <3>1. CASE replies' = replies
      BY <2>4, <3>1
    <3>2. CASE replies' = Reply(stamp, FALSE)
      BY <2>4, <2>5, <3>2, QueueFacts, HonestAppend DEF Reply
    <3>3. CASE replies' = Reply(stamp, TRUE) /\ stamp = inbox.applied
      <4>1. [stamp |-> stamp, ok |-> TRUE].stamp <= inbox.applied
        BY <2>4, <3>3
      <4>2. QED  BY <2>4, <2>5, <3>3, <4>1, QueueFacts, HonestAppend DEF Reply
    <3>4. QED  BY <2>2, <3>1, <3>2, <3>3
  <2>8. TypeOK'
    BY <2>1, <2>3, <2>6, <2>7 DEF TypeOK
  <2>9. InOrder' /\ NeverOff' /\ NewestIsKept'
    BY <2>3 DEF InOrder, Behind, NeverOff, NewestIsKept
  <2>10. Honest(replies)' /\ Honest(mailbox)' /\ ConfirmedIsApplied'
    BY <2>3, <2>6, <2>7 DEF Honest, ConfirmedIsApplied
  <2>11. QED  BY <2>6, <2>8, <2>9, <2>10
<1>14. ASSUME NEW ok \in BOOLEAN, Applied(ok)
       PROVE  IInv'
  <2>1. /\ inbox.pending \in 1 .. MaxPayloads /\ inbox.applied \in 0 .. MaxPayloads
        /\ inbox.pending > inbox.applied
    BY <1>14 DEF Applied, TypeOK, HandIsNewer, Nothing
  <2>2. /\ inbox' = [applied |-> IF ok THEN inbox.pending ELSE inbox.applied, pending |-> Nothing]
        /\ replies' = Append(replies, [stamp |-> inbox.pending, ok |-> ok])
        /\ UNCHANGED <<made, putting, slot, mode, hand, worker, paths, mailbox, confirmed, revoked,
                       permission, wire>>
    BY <1>14 DEF Applied, Reply, sender
  <2>3. /\ inbox' \in [applied : 0 .. MaxPayloads, pending : 0 .. MaxPayloads]
        /\ inbox'.applied \in 0 .. MaxPayloads /\ inbox.applied <= inbox'.applied
        /\ ok => inbox'.applied = inbox.pending
        /\ inbox'.pending = Nothing
    BY <1>0, <2>1, <2>2 DEF Nothing
  <2>4. [stamp |-> inbox.pending, ok |-> ok] \in Receipts /\ replies \in Seq(Receipts) /\ mailbox \in Seq(Receipts)
    BY <2>1 DEF Receipts, Payloads, TypeOK
  <2>5. ASSUME NEW q \in Seq(Receipts), Honest(q), NEW k \in DOMAIN q, q[k].ok
        PROVE  q[k].stamp <= inbox'.applied
    <3>1. q[k].stamp <= inbox.applied /\ q[k].stamp \in Nat
      <4>1. q[k] \in Receipts
        BY <2>5, ElementOfSeq
      <4>2. QED  BY <2>5, <4>1 DEF Honest, Receipts, Payloads
    <3>2. QED  BY <2>1, <2>3, <3>1
  <2>6. replies' \in Seq(Receipts) /\ Honest(replies)' /\ Honest(mailbox)'
    <3>1. \A k \in DOMAIN replies' : replies'[k].ok => replies'[k].stamp <= inbox'.applied
      <4>1. TAKE k \in DOMAIN replies'
      <4>2. CASE replies'[k] = [stamp |-> inbox.pending, ok |-> ok]
        BY <2>1, <2>3, <4>2
      <4>3. CASE k \in DOMAIN replies /\ replies'[k] = replies[k]
        BY <2>4, <2>5, <4>3
      <4>4. QED  BY <2>2, <2>4, <4>2, <4>3, QueueFacts
    <3>2. QED  BY <2>2, <2>4, <2>5, <3>1, QueueFacts DEF Honest
  <2>7. TypeOK'
    BY <2>2, <2>3, <2>6 DEF TypeOK
  <2>8. InOrder' /\ NeverOff' /\ NewestIsKept'
    BY <2>2 DEF InOrder, Behind, NeverOff, NewestIsKept
  <2>9. HandIsNewer' /\ ConfirmedIsApplied'
    BY <1>0, <2>1, <2>2, <2>3 DEF HandIsNewer, ConfirmedIsApplied
  <2>10. QED  BY <2>6, <2>7, <2>8, <2>9
<1>15. CASE ReceiptIn
  <2>1. /\ replies \in Seq(Receipts) /\ replies # <<>> /\ mailbox \in Seq(Receipts)
        /\ Len(mailbox) <= MailboxLimit
    BY <1>15 DEF ReceiptIn, TypeOK
  <2>2. PICK r \in Receipts : r = Head(replies)
    BY <2>1
  <2>3. /\ replies' = Tail(replies)
        /\ mailbox' = mailbox \/ (mailbox' = Append(mailbox, r) /\ Len(mailbox) < MailboxLimit)
        /\ UNCHANGED <<made, putting, slot, mode, hand, worker, paths, wire, inbox, permission,
                       confirmed, revoked>>
    BY <1>15, <2>2 DEF ReceiptIn, receiver
  <2>4. Honest(Tail(replies)) /\ (r.ok => r.stamp <= inbox.applied)
    BY <2>1, <2>2, HonestTail
  <2>5. /\ replies' \in Seq(Receipts) /\ mailbox' \in Seq(Receipts) /\ Len(mailbox') <= MailboxLimit
        /\ Honest(replies') /\ Honest(mailbox')
    <3>1. replies' \in Seq(Receipts) /\ Honest(replies')
      BY <2>1, <2>3, <2>4, HeadTailProperties
    <3>2. CASE mailbox' = mailbox
      BY <2>1, <3>1, <3>2
    <3>3. CASE mailbox' = Append(mailbox, r) /\ Len(mailbox) < MailboxLimit
      <4>1. Append(mailbox, r) \in Seq(Receipts) /\ Len(Append(mailbox, r)) = Len(mailbox) + 1
        BY <2>1, <2>2, QueueFacts
      <4>2. Honest(Append(mailbox, r))
        BY <2>1, <2>2, <2>4, HonestAppend
      <4>3. QED  BY <2>1, <3>1, <3>3, <4>1, <4>2
    <3>4. QED  BY <2>3, <3>2, <3>3
  <2>6. TypeOK'
    BY <2>3, <2>5 DEF TypeOK
  <2>7. InOrder' /\ NeverOff' /\ NewestIsKept'
    BY <2>3 DEF InOrder, Behind, NeverOff, NewestIsKept
  <2>8. HandIsNewer' /\ Honest(replies)' /\ Honest(mailbox)' /\ ConfirmedIsApplied'
    BY <2>3, <2>5 DEF HandIsNewer, Honest, ConfirmedIsApplied
  <2>9. QED  BY <2>6, <2>7, <2>8
<1>16. CASE ChangePermission
  <2>1. TypeOK'
    BY <1>16 DEF ChangePermission, sender, TypeOK, Receipts, Payloads, Nothing
  <2>2. InOrder' /\ NeverOff' /\ NewestIsKept'
    BY <1>16 DEF ChangePermission, sender, TypeOK, Receipts, Payloads, Nothing, InOrder, Behind, NeverOff, NewestIsKept
  <2>3. HandIsNewer' /\ Honest(replies)' /\ Honest(mailbox)' /\ ConfirmedIsApplied'
    BY <1>16 DEF ChangePermission, sender, TypeOK, Receipts, Payloads, Nothing, HandIsNewer, Honest, ConfirmedIsApplied, receiver
  <2>4. QED  BY <2>1, <2>2, <2>3
<1>17. CASE ClosePath
  <2>1. RouteTo(0) /\ paths' \in 0 .. MaxPaths /\ wire' = wire /\ 0 \in 0 .. MaxPaths
    BY <1>17 DEF ClosePath, TypeOK
  <2>2. QED  BY <1>5, <2>1
<1>18. CASE OpenPath
  <2>1. RouteTo(paths + 1) /\ paths' = paths + 1 /\ paths + 1 \in 0 .. MaxPaths /\ wire' = <<>>
    BY <1>18 DEF OpenPath, TypeOK
  <2>2. QED  BY <1>5, <2>1
<1>19. CASE UNCHANGED vars
  BY <1>19 DEF vars, TypeOK, InOrder, Behind, NeverOff, NewestIsKept, HandIsNewer, Honest,
      ConfirmedIsApplied
<1>20. QED
  BY <1>1, <1>2, <1>3, <1>4, <1>6, <1>7, <1>8, <1>9, <1>10, <1>11, <1>12, <1>13, <1>14,
     <1>15, <1>16, <1>17, <1>18, <1>19 DEF Next, Worker

--------------------------------------------------------------------------------
LEMMA InvariantHolds == Spec => []IInv
BY InitIInv, StepIInv, PTL DEF Spec

(* Every variable keeps its type for any bounds; in particular the worker's *)
(* mailbox of receipts keeps to its limit and a payload's attempts to      *)
(* theirs.                                                                 *)
THEOREM TypeCorrect == Spec => []TypeOK
<1>1. IInv => TypeOK
  BY DEF IInv
<1>2. QED  BY <1>1, InvariantHolds, PTL

(* What the worker takes as delivered, the receiver has applied, whatever  *)
(* is repeated, replaced, refused or lost on the way (clipboard.rs: only a *)
(* successful application of the payload that waits is acknowledged).      *)
THEOREM ConfirmedApplied == Spec => []ConfirmedIsApplied
<1>1. IInv => ConfirmedIsApplied
  BY DEF IInv
<1>2. QED  BY <1>1, InvariantHolds, PTL

(* As long as the direction is not switched, the newest payload is with    *)
(* the publisher, in the slot, with the worker or confirmed: replacing and *)
(* emptying the slot while the worker reads it loses none.                 *)
THEOREM NewestKept == Spec => []NewestIsKept
<1>1. IInv => NewestIsKept
  BY DEF IInv
<1>2. QED  BY <1>1, InvariantHolds, PTL

(* The receiver begins to apply only what is newer than all it has applied *)
(* and only when its hands are empty.                                      *)
THEOREM OnlyForward == Spec => NeverBackwards
<1> DEFINE Forward == inbox'.pending \notin {Nothing, inbox.pending} =>
                          inbox.pending = Nothing /\ inbox'.pending > inbox.applied
<1>1. ASSUME IInv, [Next]_vars
      PROVE  [Forward]_inbox
  <2>1. inbox \in [applied : 0 .. MaxPayloads, pending : 0 .. MaxPayloads]
    BY <1>1 DEF IInv, TypeOK
  <2>2. CASE UNCHANGED inbox
    BY <2>2
  <2>3. CASE FrameIn
    <3> DEFINE stamp == Head(wire)
    <3>1. stamp \in 1 .. MaxPayloads /\ inbox.applied \in 0 .. MaxPayloads
      <4>1. wire \in Seq(Payloads) /\ wire # <<>>
        BY <1>1, <2>3 DEF FrameIn, IInv, TypeOK
      <4>2. QED  BY <2>1, <4>1, HeadTailProperties DEF Payloads
    <3>2. \/ inbox' = inbox
          \/ /\ inbox' = [inbox EXCEPT !.pending = stamp] /\ inbox.pending = Nothing
             /\ stamp # inbox.applied /\ ~(stamp < inbox.applied)
      BY <2>3 DEF FrameIn
    <3> HIDE DEF stamp
    <3>3. QED  BY <2>1, <3>1, <3>2
  <2>4. CASE \E ok \in BOOLEAN : Applied(ok)
    <3>1. inbox'.pending = Nothing
      BY <2>4 DEF Applied
    <3>2. QED  BY <3>1
  <2>5. CASE ~FrameIn /\ ~\E ok \in BOOLEAN : Applied(ok)
    <3>1. UNCHANGED inbox
      BY <1>1, <2>5 DEF Next, Worker, PublishAdmit, PublishStore, SetEnabled, EmptySlot, ClosePath,
          OpenPath, RouteTo, SeeMode, SeeReceipt, ReadSlot, TakePayload, WriteEnds, Retry, FrameOut,
          ReceiptIn, ChangePermission, receiver, vars
    <3>2. QED  BY <3>1
  <2>6. QED  BY <2>2, <2>3, <2>4, <2>5
<1>2. QED  BY <1>1, InvariantHolds, PTL DEF Spec, NeverBackwards
================================================================================
