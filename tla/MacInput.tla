------------------------------- MODULE MacInput -------------------------------
(***************************************************************************)
(* Input on macOS (input/platform/macos/mod.rs) under the loops of         *)
(* input/runtime.rs.  An event tap hears keys and buttons on a thread of   *)
(* its own: its callback reads once whether capture is on, and decides     *)
(* later.  A loop that sends switches capture on and off in several steps; *)
(* each time it is on, one more thread keeps the cursor hidden and apart   *)
(* from the mouse, and looks every 250 ms whether it still shall.  A loop  *)
(* that receives posts events.  How often the cursor is hidden is counted  *)
(* by the system, for the whole program.                                   *)
(***************************************************************************)
EXTENDS Integers, Sequences, FiniteSets

CONSTANTS MacKeys,
          MacModifiers, \* the keys, left and right, of one modifier
          MacHotkey, MacUnmapped, MacButtons,
          MaxMacs,    \* bound: platforms started one after the other
          MaxMail,    \* bound: events not yet read, so that the queue is never full
          MacStarts   \* what a behaviour may start with, to split the instance: the role, the
                      \* option block_switch_on_press, and how often what is bounded may happen

ASSUME MacAssumption ==
    /\ MacModifiers \subseteq MacKeys /\ {MacHotkey, MacUnmapped} \subseteq MacKeys \ MacModifiers
    /\ MacKeys \cap MacButtons = {} /\ {MaxMacs, MaxMail} \subseteq Nat
    /\ \A s \in MacStarts : /\ s.first \in 1..MaxMacs /\ s.role \in {"send", "receive"} /\ s.blocks \in BOOLEAN
                           /\ s.spare \in [{"strokes", "turns", "mishaps", "faults"} -> Nat]

VARIABLES
    mac,     \* per platform: its MacState
    keepers, \* the threads synly-macos-capture-maintain: the platform, and what each does next
    pointer0, \* the system: hides, counted; whether it shows the cursor all the same; whether
              \* the mouse moves it; history: a call of the last attempt failed
    board0,  \* the keyboard: down by the user; local: down for the system; held: posted down;
             \* unheard: history, changed when no tap listened; blurred: history, let go of while
             \* the other key of the modifier was held; lost: history, never released
    tapped,  \* the callback under way: <<>> or one event with the flag it has read
    side,    \* the loop: its platform, its role, where it is; pressed: local_pressed; told: what
             \* the peer was told to hold; missed: history, changed without a word to the peer
    mail,    \* events for the loop
    secure,  \* IsSecureEventInputEnabled
    macSpare \* how often what is bounded may still happen

macVars == <<mac, keepers, pointer0, board0, tapped, side, mail, secure, macSpare>>

Macs == 1..MaxMacs
Inputs == MacKeys \cup MacButtons
Mapped == Inputs \ {MacUnmapped}   \* mac_keycode_to_hid

NoMac == [tap |-> "off", active |-> FALSE, pressed |-> {}, injected |-> {}]
MacStarted == [NoMac EXCEPT !.tap = "on"]

NewSide(i, role, blocks) ==
    [of |-> i, role |-> role, at |-> "watching", blocks |-> blocks, pressed |-> {}, told |-> {},
     missed |-> {}, secure |-> FALSE, ends |-> FALSE, next |-> "none"]

MacInit == \E s \in MacStarts :
    /\ mac = [i \in Macs |-> IF i = s.first THEN MacStarted ELSE NoMac]
    /\ keepers = [n \in 1..s.spare.turns |-> [of |-> 0, at |-> "none"]]
    /\ pointer0 = [hides |-> 0, forced |-> FALSE, coupled |-> TRUE, failed |-> FALSE]
    /\ board0 = [down |-> {}, local |-> {}, held |-> {}, unheard |-> {}, blurred |-> {}, lost |-> {}]
    /\ tapped = <<>> /\ mail = <<>> /\ secure = FALSE
    /\ side = NewSide(s.first, s.role, s.blocks)
    /\ macSpare = s.spare

MacSpends(what) == macSpare[what] > 0 /\ macSpare' = [macSpare EXCEPT ![what] = @ - 1]

MyMac == mac[side.of]
SideAt(stage) == side' = [side EXCEPT !.at = stage]
LoopOnly == UNCHANGED <<keepers, pointer0, board0, tapped, mail, secure>>

-----------------------------------------------------------------------------
(* The cursor, as the system keeps it.                                     *)

Visible(p) == p.hides = 0 \/ p.forced
HideCursor(p) == [p EXCEPT !.hides = @ + 1, !.forced = FALSE]
ShowCursor(p) == [p EXCEPT !.hides = IF @ = 0 THEN 0 ELSE @ - 1]
Coupled(p, connected) == [p EXCEPT !.coupled = connected]

\* show_macos_cursor_until_visible
ShownUntilVisible(p) == IF Visible(p) \/ p.hides > 8 THEN p ELSE [p EXCEPT !.hides = 0]

\* Another program shows the cursor although it is hidden.
Forced ==
    /\ pointer0.hides > 0 /\ ~pointer0.forced /\ MacSpends("mishaps")
    /\ pointer0' = [pointer0 EXCEPT !.forced = TRUE]
    /\ UNCHANGED <<mac, keepers, board0, tapped, side, mail, secure>>

-----------------------------------------------------------------------------
(* set_capture, step by step.                                              *)

\* The flag goes on.
SwapOn ==
    /\ side.at = "snapped" /\ SideAt("hiding")
    /\ mac' = [mac EXCEPT ![side.of].active = TRUE]
    /\ LoopOnly /\ UNCHANGED macSpare

\* Under capture_lock: the cursor is hidden and let go.  When a call fails it is shown once; a
\* keeper of the capture before, not yet ended, may have hidden it too.
Hiding ==
    /\ side.at = "hiding"
    /\ \/ /\ pointer0' = Coupled(HideCursor(pointer0), FALSE)
          /\ SideAt("keeping") /\ UNCHANGED <<mac, macSpare>>
       \/ /\ MacSpends("faults")
          /\ \E hidden \in {pointer0, HideCursor(pointer0)} :
                pointer0' = [Coupled(ShowCursor(hidden), TRUE) EXCEPT !.failed = TRUE]
          /\ mac' = [mac EXCEPT ![side.of].active = FALSE]
          /\ SideAt("toClean")
    /\ UNCHANGED <<keepers, board0, tapped, mail, secure>>

\* The thread that keeps the cursor starts.  When it cannot, capture goes off again.
Keeping ==
    /\ side.at = "keeping"
    /\ \/ \E n \in DOMAIN keepers :
             /\ keepers[n].at = "none" /\ \A k \in 1..n - 1 : keepers[k].at # "none"
             /\ keepers' = [keepers EXCEPT ![n] = [of |-> side.of, at |-> "looks"]]
             /\ SideAt("sending") /\ UNCHANGED macSpare
       \/ /\ MacSpends("faults") /\ UNCHANGED keepers
          /\ side' = [side EXCEPT !.at = "swapping", !.next = "toClean"]
    /\ UNCHANGED <<mac, pointer0, board0, tapped, mail, secure>>

\* The flag goes off; a second call does nothing.
SwapOff ==
    /\ side.at = "swapping"
    /\ mac' = [mac EXCEPT ![side.of].active = FALSE]
    /\ SideAt(IF MyMac.active THEN "showing" ELSE side.next)
    /\ LoopOnly /\ UNCHANGED macSpare

\* Under capture_lock: the cursor is shown, as often as it takes, and follows the mouse.  A
\* call that fails is not made again, since the flag is off.
Showing ==
    /\ side.at = "showing"
    /\ \/ /\ pointer0' = [ShownUntilVisible(Coupled(ShowCursor(pointer0), TRUE)) EXCEPT !.failed = FALSE]
          /\ SideAt(side.next) /\ UNCHANGED macSpare
       \/ /\ MacSpends("faults")
          /\ pointer0' \in {[p EXCEPT !.failed = TRUE] :
                             p \in {Coupled(pointer0, TRUE), ShowCursor(pointer0)}}
          /\ SideAt(IF side.ends THEN "toClean" ELSE side.next)
    /\ UNCHANGED <<mac, keepers, board0, tapped, mail, secure>>

\* The loop of a keeper: it ends when capture is off.
KeeperLooks(n) ==
    /\ keepers[n].at = "looks"
    /\ keepers' = [keepers EXCEPT ![n] = IF mac[@.of].active THEN [@ EXCEPT !.at = "asserts"]
                                         ELSE [of |-> 0, at |-> "none"]]
    /\ UNCHANGED <<mac, pointer0, board0, tapped, side, mail, secure, macSpare>>

\* Mutant: the flag is not looked at again under the lock.
StillCapturing(i) == TRUE

Capturing(i) == mac[i].active

\* reassert_macos_capture, under capture_lock.
KeeperAsserts(n) ==
    /\ keepers[n].at = "asserts"
    /\ keepers' = [keepers EXCEPT ![n].at = "looks"]
    /\ pointer0' = IF ~Capturing(keepers[n].of) THEN pointer0
                   ELSE LET apart == Coupled(pointer0, FALSE) IN
                        IF Visible(apart) THEN HideCursor(ShowCursor(apart)) ELSE apart
    /\ UNCHANGED <<mac, board0, tapped, side, mail, secure, macSpare>>

-----------------------------------------------------------------------------
(* The event tap.                                                          *)

Place0(set, k, down) == IF down THEN set \cup {k} ELSE set \ {k}   \* update_set

\* modifier_usage_is_down: of a modifier the event says whether either of its keys is held.
Reported(k, held) == IF k \in MacModifiers THEN MacModifiers \cap held # {} ELSE k \in held

\* The user presses or releases k.  The callback begins, or the system alone hears of it.
Strike(k) ==
    /\ tapped = <<>> /\ Len(mail) < MaxMail /\ MacSpends("strokes")
    /\ LET down == k \notin board0.down
           held == Place0(board0.down, k, down)
           heard == MyMac.tap = "on"
       IN /\ board0' = [board0 EXCEPT !.down = held,
                                      !.local = IF heard THEN @ ELSE Place0(@, k, down),
                                      !.unheard = Place0(@, k, ~heard),
                                      !.blurred = Place0(@, k, heard /\ ~down /\ Reported(k, held))]
          /\ tapped' = IF heard THEN <<[of |-> side.of, key |-> k, down |-> Reported(k, held),
                                        active |-> MyMac.active,
                                        chord |-> k = MacHotkey /\ MacModifiers \cap held # {}]>>
                       ELSE <<>>
    /\ UNCHANGED <<mac, keepers, pointer0, side, mail, secure>>

\* What is passed to the loop: buttons always.
Emits(e) == e.key \in MacButtons \/ (e.active /\ ~e.chord /\ e.key # MacUnmapped)

\* Mutant: modifiers are swallowed as other keys are.
SwallowsAll(e) == e.active \/ e.chord

\* What the system does not hear of; modifiers it always does.
Swallows(e) == (e.active /\ e.key \notin MacModifiers) \/ e.chord

\* Mutant: keys are noted only while capture is on.
NotesCaptured(e) == e.key \in MacButtons \/ e.active

\* What is noted as pressed, whether it is passed on or not.
Notes(e) == e.key # MacUnmapped

\* event_callback, after it has read whether capture is on.
Callback ==
    /\ tapped # <<>> /\ tapped' = <<>>
    /\ LET e == tapped[1] IN
       /\ mac' = IF Notes(e) THEN [mac EXCEPT ![e.of].pressed = Place0(@, e.key, e.down)] ELSE mac
       /\ board0' = IF Swallows(e) THEN board0 ELSE [board0 EXCEPT !.local = Place0(@, e.key, e.key \in board0.down)]
       /\ IF e.of # side.of \/ side.at = "gone" THEN UNCHANGED <<mail, side>>
          ELSE /\ mail' = IF e.chord /\ e.down THEN Append(mail, [is |-> "emergency"])
                          ELSE IF Emits(e) THEN Append(mail, [is |-> "input", key |-> e.key, down |-> e.down])
                          ELSE mail
               /\ side' = IF side.at \in {"watching", "crossing"} THEN side
                          ELSE [side EXCEPT !.missed = Place0(@, e.key, ~Emits(e))]
    /\ UNCHANGED <<keepers, pointer0, secure, macSpare>>

\* Secure Input begins: the system stops the taps, and their callbacks wait.
SecureBegins ==
    /\ ~secure /\ tapped = <<>> /\ MacSpends("mishaps") /\ secure' = TRUE
    /\ mac' = [i \in Macs |-> IF mac[i].tap = "on" THEN [mac[i] EXCEPT !.tap = "paused"] ELSE mac[i]]
    /\ UNCHANGED <<keepers, pointer0, board0, tapped, side, mail>>

\* It ends; the taps stay as they are.
SecureEnds ==
    /\ secure /\ secure' = FALSE
    /\ UNCHANGED <<mac, keepers, pointer0, board0, tapped, side, mail, macSpare>>

\* The system stops the tap of a callback that took too long, or for another reason.
TapStopped ==
    /\ MyMac.tap = "on" /\ tapped = <<>> /\ side.at # "gone" /\ Len(mail) < MaxMail /\ MacSpends("mishaps")
    /\ mac' = [mac EXCEPT ![side.of].tap = "paused"]
    /\ mail' = Append(mail, [is |-> "failed"])
    /\ UNCHANGED <<keepers, pointer0, board0, tapped, side, secure>>

-----------------------------------------------------------------------------
(* The sender.  Its select reads events before it looks at the mouse.      *)

InCharge == side.role = "send" /\ side.at = "sending"

\* refresh_mac_pressed_state: what the system does not know as down is forgotten.
Recent(pressed) == (pressed \cap MacKeys \cap board0.down) \cup (pressed \cap MacButtons \cap board0.local)

\* pressed_poll
MacRefresh ==
    /\ side.role = "send" /\ side.blocks /\ side.at \in {"watching", "sending"}
    /\ mac' = [mac EXCEPT ![side.of].pressed = Recent(@)]
    /\ side' = [side EXCEPT !.pressed = Recent(MyMac.pressed)]
    /\ LoopOnly /\ UNCHANGED macSpare

\* The motion tick finds the cursor at the edge; no event is waiting, and the cooldown of 300 ms
\* is over, which no callback under way at the return outlasts.
MacCross ==
    /\ side.role = "send" /\ side.at = "watching" /\ mail = <<>> /\ ~side.secure /\ MacSpends("turns")
    /\ \A n \in DOMAIN tapped : ~tapped[n].active
    /\ SideAt("crossing") /\ LoopOnly /\ UNCHANGED mac

\* The snapshot goes out with Activate; with the option, only an empty one.
MacSnapshot ==
    /\ side.at = "crossing"
    /\ LET pressed == IF side.blocks THEN Recent(MyMac.pressed) ELSE MyMac.pressed IN
       /\ mac' = [mac EXCEPT ![side.of].pressed = pressed]
       /\ side' = IF side.blocks /\ pressed # {}
                  THEN [side EXCEPT !.at = "watching", !.pressed = pressed]
                  ELSE [side EXCEPT !.at = "snapped", !.pressed = pressed, !.missed = {},
                                    !.told = pressed]
    /\ LoopOnly /\ UNCHANGED macSpare

\* restore_sender: the cursor is put inside the edge, then capture goes off.  Where its result
\* is looked at (ends), a failure ends the loop.
Returning(next, ends) == [side EXCEPT !.at = "swapping", !.next = next, !.ends = ends]

MacComeBack ==
    /\ InCharge
    /\ \/ /\ side.blocks => side.pressed = {}          \* sender_return_now
          /\ side' = Returning("watching", TRUE) /\ UNCHANGED macSpare
       \/ side' = Returning("watching", FALSE) /\ UNCHANGED macSpare  \* the peer lets go
       \/ side' = Returning("toClean", FALSE) /\ MacSpends("faults")      \* the cursor stays; no peer
    /\ LoopOnly /\ UNCHANGED mac

\* One event is read.  While this machine has control, keys are dropped and buttons noted.
MacReads ==
    /\ side.role = "send" /\ side.at \in {"watching", "sending"} /\ mail # <<>> /\ mail' = Tail(mail)
    /\ LET e == Head(mail)
           noted == [side EXCEPT !.pressed = Place0(@, e.key, e.down)]
       IN side' = IF e.is # "input"
                  THEN IF InCharge THEN Returning("toClean", FALSE) ELSE [side EXCEPT !.at = "toClean"]
                  ELSE IF InCharge
                  THEN [noted EXCEPT !.told = Place0(@, e.key, e.down)]
                  ELSE IF e.key \in MacButtons THEN noted ELSE side
    /\ UNCHANGED <<mac, keepers, pointer0, board0, tapped, secure, macSpare>>

-----------------------------------------------------------------------------
(* The receiver.                                                           *)

Posting == side.role = "receive" /\ side.at = "posting"

\* Mutant: what was not posted is forgotten with the rest, and what is held stays.
Forgotten(m, left) ==
    /\ mac' = [m EXCEPT ![side.of].injected = {}]
    /\ board0' = board0

\* release_all: the sets are emptied first, and what cannot be posted stays down.
Released(m, left) ==
    /\ mac' = [m EXCEPT ![side.of].injected = {}]
    /\ board0' = [board0 EXCEPT !.held = (@ \ m[side.of].injected) \cup left, !.lost = @ \cup left]

ReleaseAll(m) ==
    \/ Released(m, {}) /\ UNCHANGED macSpare
    \/ MacSpends("faults") /\ \E left \in SUBSET MyMac.injected \ {{}} : Released(m, left)

ReceiverOnly == UNCHANGED <<keepers, pointer0, tapped, secure>>

\* Activate: what was held is let go of, the cursor is placed, and apply_snapshot presses what
\* the peer holds.  A key this system has not, or a call that fails, ends the loop half-way.
MacAccept ==
    /\ side.role = "receive" /\ side.at \in {"watching", "posting"} /\ ~side.secure /\ macSpare.turns > 0
    /\ \E snapshot \in SUBSET Inputs, left \in SUBSET MyMac.injected, fails \in BOOLEAN :
          LET ends == fails \/ MacUnmapped \in snapshot
              used == IF fails \/ left # {} THEN 1 ELSE 0
          IN \E done \in IF ends THEN SUBSET (snapshot \cap Mapped) ELSE {snapshot} :
                /\ macSpare.faults >= used
                /\ macSpare' = [macSpare EXCEPT !.turns = @ - 1, !.faults = @ - used]
                /\ mac' = [mac EXCEPT ![side.of].injected = done]
                /\ board0' = [board0 EXCEPT !.held = (@ \ MyMac.injected) \cup left \cup done,
                                            !.lost = @ \cup left]
                /\ SideAt(IF ends THEN "toClean" ELSE "posting")
    /\ ReceiverOnly /\ UNCHANGED mail

\* Key and Button (inject_key, inject_button): posted, then noted.
MacInject(k, down) ==
    /\ Posting /\ k \in Mapped /\ (k \in MyMac.injected <=> ~down)
    /\ mac' = [mac EXCEPT ![side.of].injected = Place0(@, k, down)]
    /\ board0' = [board0 EXCEPT !.held = Place0(@, k, down)]
    /\ ReceiverOnly /\ UNCHANGED <<mail, side, macSpare>>

\* Return or Deactivate.
MacLetsGo ==
    /\ Posting /\ SideAt("watching") /\ ReleaseAll(mac)
    /\ ReceiverOnly /\ UNCHANGED mail

\* Emergency releases at once; the tap's failure leaves that to the cleanup.
MacHears ==
    /\ side.role = "receive" /\ side.at \in {"watching", "posting"} /\ mail # <<>> /\ mail' = Tail(mail)
    /\ IF Head(mail).is = "input" THEN UNCHANGED <<mac, board0, side, macSpare>>
       ELSE /\ SideAt("toClean")
            /\ IF Head(mail).is = "emergency" /\ Posting THEN ReleaseAll(mac)
               ELSE UNCHANGED <<mac, board0, macSpare>>
    /\ ReceiverOnly

-----------------------------------------------------------------------------
(* Both.                                                                   *)

\* The overflow poll: secure_input_state starts the tap again once Secure Input is seen to
\* end; when it is seen to begin, whoever is in control lets go.
MacPoll ==
    /\ side.at \in {"watching", "sending", "posting"} /\ secure # side.secure
    /\ LET listening == [mac EXCEPT ![side.of].tap = IF side.secure /\ @ = "paused" THEN "on" ELSE @]
       IN IF secure /\ Posting THEN ReleaseAll(listening)
          ELSE mac' = listening /\ UNCHANGED <<board0, macSpare>>
    /\ side' = [(IF ~secure THEN side ELSE IF InCharge THEN Returning("watching", FALSE)
                 ELSE [side EXCEPT !.at = "watching"]) EXCEPT !.secure = secure]
    /\ ReceiverOnly /\ UNCHANGED mail

\* The substream ends; or an event cannot be posted (inject_cursor, inject_motion,
\* inject_wheel and the others), or the permission was withdrawn (health_check).
MacEnds ==
    /\ side.at \in {"watching", "posting"} /\ SideAt("toClean")
    /\ LoopOnly /\ UNCHANGED <<mac, macSpare>>

\* cleanup_platform and Drop: capture is off by then; what is held is let go of.
MacClean ==
    /\ side.at = "toClean" /\ ReleaseAll(mac) /\ SideAt("stopping")
    /\ ReceiverOnly /\ UNCHANGED mail

\* Drop stops the tap and the thread it runs on.
MacDrop ==
    /\ side.at = "stopping" /\ SideAt("gone") /\ mail' = <<>>
    /\ mac' = [mac EXCEPT ![side.of].tap = "off"]
    /\ ReceiverOnly /\ UNCHANGED <<board0, macSpare>>

\* start: the next substream makes a tap, which hears nothing during Secure Input.
MacRestart ==
    /\ side.at = "gone" /\ side.of < MaxMacs
    /\ side' = NewSide(side.of + 1, side.role, side.blocks)
    /\ mac' = [mac EXCEPT ![side.of + 1] = [NoMac EXCEPT !.tap = IF secure THEN "paused" ELSE "on"]]
    /\ board0' = [board0 EXCEPT !.unheard = @ \cup board0.down]
    /\ ReceiverOnly /\ UNCHANGED <<mail, macSpare>>

SystemStep == Forced \/ SecureBegins \/ SecureEnds \/ TapStopped \/ \E k \in Inputs : Strike(k)

SenderStep ==
    \/ SwapOn \/ Hiding \/ Keeping \/ SwapOff \/ Showing
    \/ MacRefresh \/ MacCross \/ MacSnapshot \/ MacComeBack \/ MacReads

ReceiverStep == MacAccept \/ (\E k \in Mapped, down \in BOOLEAN : MacInject(k, down)) \/ MacLetsGo \/ MacHears

MacNext ==
    \/ SystemStep \/ Callback \/ SenderStep \/ ReceiverStep
    \/ \E n \in DOMAIN keepers : KeeperLooks(n) \/ KeeperAsserts(n)
    \/ MacPoll \/ MacEnds \/ MacClean \/ MacDrop \/ MacRestart

MacSpec == MacInit /\ [][MacNext]_macVars

-----------------------------------------------------------------------------
(* Properties.                                                             *)

\* While the peer is in control and all that was heard is read, it holds just what the user
\* holds, but for what changed while no tap listened or capture was being armed, for the hot
\* key's own key, and for a modifier let go of while its other key was held.
Told(k) == (InCharge /\ ~side.blocks /\ mail = <<>> /\ tapped = <<>>) => (k \in side.told <=> k \in board0.down)
MacPeerIsTold == \A k \in Mapped \ (board0.unheard \cup side.missed \cup board0.blurred) : Told(k)

\* The system knows of the modifiers what the user holds, whoever is in control.
ModifiersAreLocal == tapped = <<>> => board0.local \cap MacModifiers = board0.down \cap MacModifiers

\* Whatever threads keep it, the cursor is seen and follows the mouse once control is back,
\* and is neither while it is not, unless a call of the last attempt failed.
CursorIsBack ==
    ~pointer0.failed =>
        /\ side.at \in {"watching", "crossing", "snapped", "toClean", "stopping", "gone"} =>
               Visible(pointer0) /\ pointer0.coupled
        /\ InCharge => /\ pointer0.hides > 0 /\ ~pointer0.coupled
                       /\ \E n \in DOMAIN keepers : keepers[n].of = side.of

\* Once the peer has let go, or the platform is gone, nothing it pressed stays down but what
\* the system refused to let go of.
InjectedAreReleased ==
    (side.role = "receive" /\ side.at \in {"watching", "stopping", "gone"}) =>
        board0.held \subseteq board0.lost

\* One that the code does not keep: it cannot tell the two keys of a modifier apart when one is
\* let go of.
ModifiersAgree == \A k \in MacModifiers \ (board0.unheard \cup side.missed) : Told(k)

\* Input on macOS does what it says: both devices know what is pressed, and this one gets back
\* its cursor and its keys.
MacIsTrue == MacPeerIsTold /\ ModifiersAreLocal /\ CursorIsBack /\ InjectedAreReleased
=============================================================================
