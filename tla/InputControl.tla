---------------------------- MODULE InputControl ----------------------------
(***************************************************************************)
(* Input control (input/runtime.rs): the keyboard and mouse of one         *)
(* machine, the sender, act on another, the receiver, over a substream of  *)
(* their session.  Control goes over when the cursor crosses an edge and   *)
(* comes back when the receiver asks and the sender agrees, when either    *)
(* user presses the reset hotkey, when macOS Secure Input begins, or when  *)
(* the substream ends.  Every activation has a generation.  The hooks of   *)
(* the platform report a key only while capture is on, and capture starts  *)
(* some time after the keys that are down were read.                       *)
(* Cursor positions and motion are left out (Pointer has them), and the    *)
(* wheel: they change no state here but the edge being crossed, which may  *)
(* happen at any time.                                                     *)
(***************************************************************************)
EXTENDS Naturals, Sequences

CONSTANTS Keys,           \* keys and buttons
          Capacity,       \* of the queue to the writer of each side (256 in the code)
          MaxGenerations, \* bound: activations within one substream
          MaxToggles,     \* bound: keys pressed and released
          MaxUpsets,      \* bound: hotkeys, Secure Input, failures of the platform and the link
          MaxSubstreams   \* bound: substreams

ASSUME InputAssumption ==
    /\ Capacity \in Nat \ {0}
    /\ {MaxGenerations, MaxToggles, MaxUpsets, MaxSubstreams} \subseteq Nat

VARIABLES
    keyboard,   \* keys the user of the sender holds down
    hooked,     \* key events the hooks reported, not yet taken by the loop
    sender, receiver,
    toReceiver, toSender, \* messages under way
    cut,        \* the connection broke
    blocking,   \* the option block_switch_on_press
    missed,     \* history: keys that changed while capture was starting
    lost,       \* history: a Deactivate found its queue full
    tally       \* how often what is bounded happened

inputVars == <<keyboard, hooked, sender, receiver, toReceiver, toSender, cut, blocking,
               missed, lost, tally>>

SenderStart(gate) == [up |-> TRUE, gen |-> 0, phase |-> "watching", pressed |-> {},
                      wants |-> FALSE, secure |-> FALSE, gate |-> gate]
ReceiverStart == [up |-> TRUE, gen |-> 0, active |-> FALSE, held |-> {}, secure |-> FALSE]

InputInit ==
    /\ keyboard = {} /\ hooked = <<>>
    /\ sender = SenderStart(FALSE) /\ receiver = ReceiverStart
    /\ toReceiver = <<>> /\ toSender = <<>> /\ cut = FALSE
    /\ blocking \in BOOLEAN
    /\ missed = {} /\ lost = FALSE
    /\ tally = [toggles |-> 0, upsets |-> 0, substreams |-> 1]

Count(what, bound) == tally[what] < bound /\ tally' = [tally EXCEPT ![what] = @ + 1]
Upset == Count("upsets", MaxUpsets)

\* enqueue_message fails on a full queue, try_send gives up.
Room(queue) == Len(queue) < Capacity

InControl == sender.phase = "sending"

\* The loop of the sender has its turn: it is not inside set_capture.
SenderTurn == sender.up /\ sender.phase # "arming" /\ UNCHANGED <<keyboard, cut, blocking>>
ReceiverTurn ==
    receiver.up /\ UNCHANGED <<keyboard, hooked, sender, toReceiver, cut, blocking, missed>>

-----------------------------------------------------------------------------
(* How a side ends its part of the substream.                              *)

\* Dropping the recovery guard and cleanup_platform give the cursor and the
\* keyboard back.  After a failure the next substream waits for the hotkey.
SenderEnd(gate) == [sender EXCEPT !.up = FALSE, !.phase = "watching", !.wants = FALSE, !.gate = gate]

\* cleanup_platform releases what was injected.
ReceiverEnd == [receiver EXCEPT !.up = FALSE, !.active = FALSE, !.held = {}]

\* Mutant: the end of control forgets the keys.
ReleasedLater == [receiver EXCEPT !.active = FALSE]

\* SenderControl::deactivate, and the end of control at the receiver.
Watching == [sender EXCEPT !.phase = "watching", !.wants = FALSE]
Released == [receiver EXCEPT !.active = FALSE, !.held = {}]

\* let _ = tx.try_send(Deactivate), where there is control to give up.
DropControl ==
    toReceiver' = IF InControl /\ Room(toReceiver)
                  THEN Append(toReceiver, [kind |-> "deactivate", gen |-> sender.gen])
                  ELSE toReceiver

GiveControl ==
    toSender' = IF receiver.active /\ Room(toSender)
                THEN Append(toSender, [kind |-> "deactivate", gen |-> receiver.gen])
                ELSE toSender

-----------------------------------------------------------------------------
(* The user.                                                               *)

Toggle(k) ==
    /\ Count("toggles", MaxToggles)
    /\ keyboard' = IF k \in keyboard THEN keyboard \ {k} ELSE keyboard \cup {k}
    /\ hooked' = IF InControl THEN Append(hooked, [key |-> k, down |-> k \notin keyboard]) ELSE hooked
    /\ missed' = IF sender.phase = "arming" THEN missed \cup {k} ELSE missed \ {k}
    /\ UNCHANGED <<sender, receiver, toReceiver, toSender, cut, blocking, lost>>

-----------------------------------------------------------------------------
(* The sender (run_sender_with_activity).                                  *)

\* sender_return_now with sender s: Return, and the local cursor is restored.
ReturnNow(s, queue) ==
    IF Len(queue) < Capacity
    THEN /\ toReceiver' = Append(queue, [kind |-> "return", gen |-> s.gen])
         /\ sender' = [s EXCEPT !.phase = "watching", !.wants = FALSE]
    ELSE toReceiver' = queue /\ sender' = SenderEnd(TRUE)

\* finish_pending_sender_return
FinishReturn(s, queue) ==
    IF s.wants /\ s.pressed = {} THEN ReturnNow(s, queue) ELSE sender' = s /\ toReceiver' = queue

\* The cursor reaches the edge: the keys that are down go with the activation,
\* and capture begins.
Activate ==
    /\ SenderTurn /\ sender.phase = "watching" /\ ~sender.gate /\ ~sender.secure
    /\ sender.gen < MaxGenerations /\ hooked = <<>>
    /\ blocking => keyboard = {}
    /\ IF Room(toReceiver)
       THEN /\ toReceiver' = Append(toReceiver, [kind |-> "activate", gen |-> sender.gen + 1,
                                                  keys |-> keyboard])
            /\ sender' = [sender EXCEPT !.gen = @ + 1, !.phase = "arming",
                                        !.pressed = keyboard, !.wants = FALSE]
       ELSE sender' = SenderEnd(TRUE) /\ UNCHANGED toReceiver
    /\ missed' = {}
    /\ UNCHANGED <<hooked, receiver, toSender, lost, tally>>

\* set_capture(true) returns, or fails and ends the substream.
Capture ==
    /\ sender.up /\ sender.phase = "arming"
    /\ \/ sender' = [sender EXCEPT !.phase = "sending"] /\ UNCHANGED tally
       \/ sender' = SenderEnd(TRUE) /\ Upset
    /\ UNCHANGED <<keyboard, hooked, receiver, toReceiver, toSender, cut, blocking, missed, lost>>

\* A key event is forwarded in the generation that has control now, or dropped.
Forward ==
    /\ SenderTurn /\ hooked # <<>>
    /\ hooked' = Tail(hooked)
    /\ LET e == Head(hooked)
           s == [sender EXCEPT !.pressed = IF e.down THEN @ \cup {e.key} ELSE @ \ {e.key}]
       IN IF ~InControl THEN UNCHANGED <<sender, toReceiver>>
          ELSE IF Room(toReceiver)
          THEN FinishReturn(s, Append(toReceiver, [kind |-> "key", gen |-> s.gen,
                                                   key |-> e.key, down |-> e.down]))
          ELSE sender' = SenderEnd(TRUE) /\ UNCHANGED toReceiver
    /\ UNCHANGED <<receiver, toSender, missed, lost, tally>>

\* Every 250 ms the keys are read again while they block the return.
Poll ==
    /\ SenderTurn /\ blocking /\ sender.pressed # keyboard
    /\ FinishReturn([sender EXCEPT !.pressed = keyboard], toReceiver)
    /\ UNCHANGED <<hooked, receiver, toSender, missed, lost, tally>>

SenderHears ==
    /\ SenderTurn /\ toSender # <<>>
    /\ toSender' = Tail(toSender)
    /\ LET m == Head(toSender) IN
       IF ~InControl \/ m.gen # sender.gen THEN UNCHANGED <<sender, toReceiver>>
       ELSE IF m.kind = "deactivate" THEN sender' = Watching /\ UNCHANGED toReceiver
       ELSE IF blocking /\ sender.pressed # {}
       THEN sender' = [sender EXCEPT !.wants = TRUE] /\ UNCHANGED toReceiver
       ELSE ReturnNow(sender, toReceiver)
    /\ UNCHANGED <<hooked, receiver, missed, lost, tally>>

\* No heartbeat of this generation within the time: none will come, unless the
\* receiver still gets the activation or has it.
SenderTimesOut ==
    /\ SenderTurn /\ InControl
    /\ \/ /\ receiver.gen # sender.gen /\ UNCHANGED tally
          /\ \A i \in 1..Len(toReceiver) :
                ~(toReceiver[i].kind = "activate" /\ toReceiver[i].gen = sender.gen)
       \/ Upset
    /\ sender' = SenderEnd(TRUE)
    /\ UNCHANGED <<hooked, receiver, toReceiver, toSender, missed, lost>>

\* Secure Input begins or ends; the hotkey; hooks that fail or overflow.
SenderSecure ==
    /\ SenderTurn /\ Upset
    /\ IF sender.secure THEN UNCHANGED toReceiver ELSE DropControl
    /\ lost' = (lost \/ (InControl /\ ~Room(toReceiver)))
    /\ sender' = [Watching EXCEPT !.secure = ~@]
    /\ UNCHANGED <<hooked, receiver, toSender, missed>>

SenderStops ==
    /\ SenderTurn /\ Upset
    /\ \/ DropControl /\ \E gate \in BOOLEAN : sender' = SenderEnd(gate)
       \/ UNCHANGED toReceiver /\ sender' = SenderEnd(TRUE)
    /\ UNCHANGED <<hooked, receiver, toSender, missed, lost>>

\* The reader comes to the end of the stream.
SenderLosesPeer ==
    /\ SenderTurn /\ (cut \/ (~receiver.up /\ toSender = <<>>))
    /\ sender' = SenderEnd(TRUE)
    /\ UNCHANGED <<hooked, receiver, toReceiver, toSender, missed, lost, tally>>

-----------------------------------------------------------------------------
(* The receiver (run_receiver_with_activity).                              *)

\* Mutant: the keys that came with the activation are not pressed.
ObeysBareActivation(m) ==
    CASE m.kind = "activate" /\ ~receiver.secure /\ m.gen > receiver.gen ->
            [receiver EXCEPT !.gen = m.gen, !.active = TRUE, !.held = {}]
      [] m.kind \in {"deactivate", "return"} /\ m.gen = receiver.gen -> Released
      [] m.kind = "key" /\ receiver.active /\ m.gen = receiver.gen ->
            [receiver EXCEPT !.held = IF m.down THEN @ \cup {m.key} ELSE @ \ {m.key}]
      [] OTHER -> receiver

\* What it becomes after message m.
Obeys(m) ==
    CASE m.kind = "activate" /\ ~receiver.secure /\ m.gen > receiver.gen ->
            [receiver EXCEPT !.gen = m.gen, !.active = TRUE, !.held = m.keys]
      [] m.kind = "deactivate" /\ m.gen = receiver.gen -> Released
      [] m.kind = "return" /\ receiver.active /\ m.gen = receiver.gen -> Released
      [] m.kind = "key" /\ receiver.active /\ m.gen = receiver.gen ->
            [receiver EXCEPT !.held = IF m.down THEN @ \cup {m.key} ELSE @ \ {m.key}]
      [] OTHER -> receiver

\* The backend may refuse, which ends the substream.
ReceiverHears ==
    /\ receiver.up /\ toReceiver # <<>>
    /\ toReceiver' = Tail(toReceiver)
    /\ \/ receiver' = Obeys(Head(toReceiver)) /\ UNCHANGED tally
       \/ receiver' = ReceiverEnd /\ Upset
    /\ UNCHANGED <<keyboard, hooked, sender, toSender, cut, blocking, missed, lost>>

\* Motion leaves the screen at the edge where it came in.
AskReturn ==
    /\ ReceiverTurn /\ receiver.active
    /\ \A i \in 1..Len(toSender) : toSender[i].kind # "ask" \/ toSender[i].gen # receiver.gen
    /\ IF Room(toSender)
       THEN toSender' = Append(toSender, [kind |-> "ask", gen |-> receiver.gen]) /\ UNCHANGED receiver
       ELSE receiver' = ReceiverEnd /\ UNCHANGED toSender
    /\ UNCHANGED <<lost, tally>>

ReceiverSecure ==
    /\ ReceiverTurn /\ Upset
    /\ IF receiver.secure
       THEN UNCHANGED toSender /\ receiver' = [receiver EXCEPT !.secure = FALSE]
       ELSE GiveControl /\ receiver' = [Released EXCEPT !.secure = TRUE]
    /\ lost' = (lost \/ (receiver.active /\ ~Room(toSender)))

\* The hotkey, a heartbeat timeout, or a backend that fails.
ReceiverStops ==
    /\ ReceiverTurn /\ Upset
    /\ GiveControl \/ UNCHANGED toSender
    /\ receiver' = ReceiverEnd
    /\ UNCHANGED lost

ReceiverLosesPeer ==
    /\ ReceiverTurn /\ (cut \/ (~sender.up /\ toReceiver = <<>>))
    /\ receiver' = ReceiverEnd
    /\ UNCHANGED <<toSender, lost, tally>>

-----------------------------------------------------------------------------
(* The substream.                                                          *)

Cut ==
    /\ Upset /\ ~cut
    /\ cut' = TRUE /\ toReceiver' = <<>> /\ toSender' = <<>>
    /\ UNCHANGED <<keyboard, hooked, sender, receiver, blocking, missed, lost>>

Reestablish ==
    /\ ~sender.up /\ ~receiver.up
    /\ Count("substreams", MaxSubstreams)
    /\ sender' = SenderStart(sender.gate) /\ receiver' = ReceiverStart
    /\ toReceiver' = <<>> /\ toSender' = <<>> /\ cut' = FALSE /\ hooked' = <<>>
    /\ UNCHANGED <<keyboard, blocking, missed, lost>>

SenderGoesOn == Capture \/ Forward \/ Poll \/ SenderHears
ReceiverGoesOn == ReceiverHears \/ ReceiverLosesPeer

InputNext ==
    \/ \E k \in Keys : Toggle(k)
    \/ Activate \/ SenderGoesOn \/ SenderTimesOut \/ SenderSecure \/ SenderStops \/ SenderLosesPeer
    \/ ReceiverGoesOn \/ AskReturn \/ ReceiverSecure \/ ReceiverStops
    \/ Cut \/ Reestablish

\* Both loops are polled; their timers fire; a stream that ended is noticed.
InputFairness ==
    /\ WF_inputVars(SenderGoesOn) /\ WF_inputVars(SenderTimesOut) /\ WF_inputVars(SenderLosesPeer)
    /\ WF_inputVars(ReceiverGoesOn)

InputSpec == InputInit /\ [][InputNext]_inputVars /\ InputFairness

-----------------------------------------------------------------------------
InputTypeOK ==
    /\ keyboard \subseteq Keys /\ missed \subseteq Keys
    /\ sender.gen \in 0..MaxGenerations /\ receiver.gen \in 0..MaxGenerations
    /\ sender.phase \in {"watching", "arming", "sending"}
    /\ sender.pressed \subseteq Keys /\ receiver.held \subseteq Keys
    /\ Len(toReceiver) <= Capacity /\ Len(toSender) <= Capacity

Settled ==
    /\ InControl /\ receiver.active /\ receiver.gen = sender.gen
    /\ hooked = <<>> /\ toReceiver = <<>> /\ ~cut

\* While control is there and nothing is under way, the receiver holds exactly the
\* keys the user holds, those aside that changed while capture was starting.
KeysAgree == Settled => receiver.held \ missed = keyboard \ missed

\* The same without the exception.
KeysAlwaysAgree == Settled => receiver.held = keyboard

\* A machine whose keyboard is captured controls the receiver, or gets its keyboard
\* back: the user is not left with a keyboard that acts nowhere, unless the message
\* that control ended found a full queue.
KeyboardActs ==
    (InControl /\ ~lost) ~> (~InControl \/ lost \/ (receiver.active /\ receiver.gen = sender.gen))

\* Keys held on behalf of a sender that is no longer in control are released, with
\* the same exception.
KeysReleased ==
    (receiver.held # {} /\ ~InControl /\ ~lost) ~> (receiver.held = {} \/ InControl \/ lost)
=============================================================================
