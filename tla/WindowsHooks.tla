---------------------------- MODULE WindowsHooks ----------------------------
(***************************************************************************)
(* Capture on Windows (input/platform/windows/native.rs, cursor_capture.rs)*)
(* and the calls the sender of input/runtime.rs makes.  A thread of its    *)
(* own runs the low-level hooks and a message loop.  The hooks post what   *)
(* the mouse does to the thread's queue; callers send it messages and wait *)
(* for the answer.  GetMessageW runs hooks and sent messages inside        *)
(* itself, and the thread calls it again while it moves the cursor: a warp *)
(* posts two markers and drops the moves queued before the second, since   *)
(* they were measured from where the cursor was.  So one handler may run   *)
(* within another.  HOOK_STATE is one pointer for the process.             *)
(* Positions have one coordinate.                                          *)
(***************************************************************************)
EXTENDS Integers, Sequences, FiniteSets, SequencesExt

CONSTANTS Screens,       \* layouts: [left, right, anchor]
          Margin,        \* BOGUS_MOTION_MARGIN
          HookKeys, HookButtons,
          MaxPlatforms,  \* bound: platforms started one after the other
          MaxMotions,    \* bound: moves of the mouse
          MaxStrokes,    \* bound: keys and buttons pressed and released
          MaxTurns,      \* bound: times control goes over
          MaxLayouts,    \* bound: times the displays are rearranged
          MaxFaults,     \* bound: calls to the system that fail or time out
          Beginnings     \* what a behaviour may start with, to split the instance: the platform
                         \* that runs, the option block_switch_on_press, and what is used up

ASSUME HooksAssumption ==
    /\ \A s \in Screens : s.left < s.anchor /\ s.anchor < s.right
    /\ Margin \in Nat /\ {MaxPlatforms, MaxMotions, MaxStrokes, MaxTurns, MaxLayouts, MaxFaults} \subseteq Nat
    /\ HookKeys \cap HookButtons = {}

VARIABLES
    win,    \* per platform: its thread and WindowsState
    slot,   \* HOOK_STATE: a platform or 0
    mouse,  \* the system: where the cursor is, and a move no hook has seen yet
    display, \* the layout of the displays, and how often it changed
    keys,   \* down: held by the user; local: down for the system (GetAsyncKeyState);
            \* unheard: history, changed when no hook listened
    loop,   \* the sender loop, the caller
    jumped, \* history: a move was measured from another place than it began at
    count   \* how often what is bounded happened

hookVars == <<win, slot, mouse, display, keys, loop, jumped, count>>

Platforms == 1..MaxPlatforms
Edge == 1 + CHOOSE l \in {s.left : s \in Screens} : TRUE  \* point_inside_edge

Unstarted == [up |-> "none", phase |-> "Observing", anchor |-> 0, screen |-> 0, last |-> 0,
              warping |-> FALSE, posted |-> <<>>, sent |-> <<>>, frames |-> <<>>, hidden |-> FALSE,
              failed |-> FALSE, nested |-> FALSE, seen |-> {}]
Started == [Unstarted EXCEPT !.up = "running", !.anchor = display.now.anchor, !.screen = display.now,
                             !.last = mouse.at]
Watching(i, blocks) ==
    [of |-> i, at |-> "watching", ends |-> FALSE, blocks |-> blocks, told |-> {}, missed |-> {}]

HooksInit == \E b \in Beginnings :
    /\ display \in [now : Screens, changes : {b.changes}] /\ mouse = [at |-> Edge, flight |-> <<>>]
    /\ win = [i \in Platforms |-> IF i = b.first THEN Started ELSE Unstarted]
    /\ slot = b.first /\ keys = [down |-> {}, local |-> {}, unheard |-> {}]
    /\ loop = Watching(b.first, b.blocks) /\ jumped = FALSE /\ count = b.count

Counted(what, bound) == count[what] < bound /\ count' = [count EXCEPT ![what] = @ + 1]
Fault == Counted("faults", MaxFaults)

Running(i) == win[i].up = "running"
Suppresses(w) == w.phase # "Observing"      \* suppresses_local_input
Kinds(w) == {w.posted[n].kind : n \in DOMAIN w.posted}
Controls(i) == loop.of = i /\ loop.at \in {"arming", "sending", "placing", "toRelease", "releasing"}

-----------------------------------------------------------------------------
(* What the caller does with an answer, and what ends a handler.           *)

\* The sender loop l goes on after the call it waits in returned ok.
After(l, ok) ==
    CASE l.at = "arming" -> [l EXCEPT !.at = IF ok THEN "sending" ELSE "toClean"]
      [] l.at = "placing" -> [l EXCEPT !.at = "toRelease", !.ends = @ \/ ~ok]
      [] l.at = "releasing" -> [l EXCEPT !.at = IF ok /\ ~l.ends THEN "watching" ELSE "toClean"]
      [] l.at = "cleaning" -> [l EXCEPT !.at = "toDrop"]

\* Platform i answers message k, if its caller still waits.
Answered(i, k, ok) == IF loop.of = i /\ loop.at = k THEN After(loop, ok) ELSE loop

\* sync_cursor_capture(false): the cursor is shown, or capture stays on.
SyncOff(w) ==
    IF w.phase = "Observing" THEN {<<w, TRUE>>}
    ELSE {<<[w EXCEPT !.phase = "Observing", !.hidden = FALSE], TRUE>>,
          <<[w EXCEPT !.phase = "Relaying", !.hidden = TRUE, !.failed = TRUE], FALSE>>}

\* The part of a handler after warp_cursor_in_message_thread, which returned ok.
Finish(i, w, then, ok) ==
    CASE then = "arming" ->
             /\ win' = [win EXCEPT ![i] = IF ok THEN [w EXCEPT !.phase = "Relaying", !.hidden = TRUE]
                                          ELSE [w EXCEPT !.phase = "Observing", !.hidden = FALSE,
                                                         !.failed = TRUE]]
             /\ loop' = Answered(i, "arming", ok)
      [] then = "placing" ->
             win' = [win EXCEPT ![i] = w] /\ loop' = Answered(i, "placing", ok)
      [] then \in {"move", "screen"} /\ ~ok ->
             /\ \E r \in SyncOff(w) : win' = [win EXCEPT ![i] = [r[1] EXCEPT !.failed = TRUE]]
             /\ UNCHANGED loop
      [] OTHER -> win' = [win EXCEPT ![i] = w] /\ UNCHANGED loop

MovedTo(target) == [mouse EXCEPT !.at = target,
                        !.flight = IF @ = <<>> THEN @ ELSE <<[@[1] EXCEPT !.crossed = TRUE]>>]

\* begin_warp, and GetMessageW until the marker: a frame on top of the thread's handlers.
Drain(w, target, moved, then) ==
    [w EXCEPT !.warping = TRUE, !.last = target, !.nested = @ \/ w.frames # <<>>,
              !.frames = Append(@, [target |-> target, moved |-> moved, then |-> then])]

\* warp_cursor_in_message_thread for platform i in state w.
Warp(i, w, target, then) ==
    LET pre == [w EXCEPT !.posted = Append(@, [kind |-> "pre", to |-> target])]
        both == [pre EXCEPT !.posted = Append(@, [kind |-> "post"])]
    IN \/ /\ mouse' = MovedTo(target)
          /\ win' = [win EXCEPT ![i] = Drain(both, target, TRUE, then)]
          /\ UNCHANGED <<loop, count>>
       \/ /\ Fault
          /\ \/ \* SetCursorPos fails twice
                UNCHANGED <<mouse, loop>> /\ win' = [win EXCEPT ![i] = Drain(both, target, FALSE, then)]
             \/ \* the first marker cannot be posted
                UNCHANGED mouse /\ Finish(i, w, then, FALSE)
             \/ \* the second cannot
                mouse' = MovedTo(target) /\ Finish(i, pre, then, FALSE)

-----------------------------------------------------------------------------
(* The user, and the hooks.                                                *)

Hooks == {i \in Platforms : Running(i)}
Heard == slot # 0 /\ Hooks # {}

\* The hooks that see an event: the newest first, and no other once one swallows it.
Listeners == IF slot # 0 /\ Suppresses(win[slot]) THEN 1 ELSE Cardinality(Hooks)

Post(message) == win' = [win EXCEPT ![slot].posted = @ \o [n \in 1..Listeners |-> message]]

\* The mouse moves: the system takes the new position from the cursor of now.
Report(d) ==
    /\ mouse.flight = <<>> /\ Counted("reports", MaxMotions)
    /\ mouse' = [mouse EXCEPT !.flight = <<[at |-> mouse.at + d, by |-> d, crossed |-> FALSE]>>]
    /\ UNCHANGED <<win, slot, display, keys, loop, jumped>>

\* mouse_callback for a move, once the thread is inside GetMessageW.
MouseHook ==
    /\ mouse.flight # <<>>
    /\ LET m == mouse.flight[1]
           swallowed == Heard /\ Suppresses(win[slot])
       IN /\ mouse' = [mouse EXCEPT !.flight = <<>>, !.at = IF swallowed THEN @ ELSE m.at]
          /\ IF Heard THEN Post([kind |-> "move", at |-> m.at, by |-> m.by, crossed |-> m.crossed])
             ELSE UNCHANGED win
    /\ UNCHANGED <<slot, display, keys, loop, jumped, count>>

\* A change while capture is on is relayed; one while it is being armed is neither in
\* the snapshot nor relayed.
Relay(i, k, down) ==
    IF win[i].phase = "Relaying" /\ loop.of = i
    THEN [loop EXCEPT !.told = IF down THEN @ \cup {k} ELSE @ \ {k}, !.missed = @ \ {k}]
    ELSE IF loop.at = "arming" THEN [loop EXCEPT !.missed = @ \cup {k}] ELSE loop

Put(set, k, down) == IF down THEN set \cup {k} ELSE set \ {k}

\* The user presses or releases k; the hooks hear of it, and the system if they let it by.
Stroke(k, heard) ==
    LET down == k \notin keys.down
        swallowed == heard /\ Suppresses(win[slot])
    IN keys' = [down |-> Put(keys.down, k, down),
                local |-> IF swallowed THEN keys.local ELSE Put(keys.local, k, down),
                unheard |-> Put(keys.unheard, k, ~heard)]

\* keyboard_callback: the pressed set, the relay, and whether the system sees it.
KeyHook(k) ==
    /\ Counted("strokes", MaxStrokes) /\ Stroke(k, Heard)
    /\ IF Heard
       THEN /\ win' = [win EXCEPT ![slot].seen = Put(@, k, k \notin keys.down)]
            /\ loop' = Relay(slot, k, k \notin keys.down)
       ELSE UNCHANGED <<win, loop>>
    /\ UNCHANGED <<slot, mouse, display, jumped>>

\* mouse_callback for a button: the thread hears of it later.
ButtonHook(b) ==
    /\ Counted("strokes", MaxStrokes) /\ Stroke(b, Heard)
    /\ IF Heard THEN Post([kind |-> "button", button |-> b, down |-> b \notin keys.down])
       ELSE UNCHANGED win
    /\ UNCHANGED <<slot, mouse, display, loop, jumped>>

\* refresh_pressed_state, each time pressed_poll ticks under block_switch_on_press.
Refresh ==
    /\ loop.blocks /\ loop.at \in {"watching", "sending"}
    /\ win' = [win EXCEPT ![loop.of].seen = keys.local]
    /\ UNCHANGED <<slot, mouse, display, keys, loop, jumped, count>>

-----------------------------------------------------------------------------
(* The message loop (run_message_loop, handle_thread_message).             *)

Taking(i, kind) ==
    /\ Running(i) /\ win[i].frames = <<>> /\ win[i].posted # <<>>
    /\ win[i].posted[1].kind = kind

Rest(w) == [w EXCEPT !.posted = Tail(@)]

\* is_bogus_motion
Bogus(w, d) ==
    \/ d < 0 /\ Margin - d > w.anchor - w.screen.left
    \/ d > 0 /\ d + Margin > w.screen.right - w.anchor

\* CursorCaptureTracker::handle_move: what a move to a point is, and from where the next
\* one is measured.
HandleMove(w, at) ==
    IF w.warping \/ w.phase \in {"Arming", "Disarming"} THEN [is |-> "ignored", by |-> 0, last |-> w.last]
    ELSE IF w.phase = "Relaying" THEN [is |-> "relayed", by |-> at - w.last, last |-> w.anchor]
    ELSE [is |-> "observed", by |-> at - w.last, last |-> at]

\* handle_mouse_move: a move passed on puts the cursor back on the anchor.
TakeMove(i) ==
    /\ Taking(i, "move")
    /\ LET m == win[i].posted[1]
           move == HandleMove(win[i], m.at)
           w == [Rest(win[i]) EXCEPT !.last = move.last]
       IN IF move.is = "relayed" /\ move.by # 0
          THEN /\ jumped' = (jumped \/ (/\ loop.of = i /\ loop.at = "sending" /\ ~Bogus(w, move.by)
                                        /\ move.by # m.by /\ ~m.crossed /\ ~w.nested /\ ~w.failed))
               /\ Warp(i, w, w.anchor, "move")
          ELSE win' = [win EXCEPT ![i] = w] /\ UNCHANGED <<mouse, loop, jumped, count>>
    /\ UNCHANGED <<slot, display, keys>>

\* handle_mouse_button
TakeButton(i) ==
    /\ Taking(i, "button")
    /\ LET m == win[i].posted[1]
       IN /\ win' = [win EXCEPT ![i] = [Rest(@) EXCEPT !.seen = Put(@, m.button, m.down)]]
          /\ loop' = Relay(i, m.button, m.down)
    /\ UNCHANGED <<slot, mouse, display, keys, jumped, count>>

\* A marker no warp is waiting for: handle_pre_warp waits for the next second marker.
TakeMarker(i) ==
    /\ Taking(i, "pre") \/ Taking(i, "post")
    /\ LET m == win[i].posted[1]
       IN win' = [win EXCEPT ![i] = IF m.kind = "pre" THEN Drain(Rest(@), m.to, TRUE, "marker")
                                    ELSE Rest(@)]
    /\ UNCHANGED <<slot, mouse, display, keys, loop, jumped, count>>

\* Mutant: the range takes the markers only.
MarkersOnly == {"pre", "post"}

InRange == {"move", "pre", "post"}  \* WM_SYNLY_MOUSE_MOVE..WM_SYNLY_POST_WARP

\* The loop of handle_pre_warp: what is queued up to the marker is dropped, buttons stay.
Draining(i) ==
    /\ Running(i) /\ win[i].frames # <<>>
    /\ \E n \in DOMAIN win[i].posted :
           /\ win[i].posted[n].kind \in InRange
           /\ \A k \in 1..n - 1 : win[i].posted[k].kind \notin InRange
           /\ LET w == [win[i] EXCEPT !.posted = RemoveAt(@, n)]
                  frame == Last(w.frames)
                  ended == [w EXCEPT !.frames = Front(@), !.warping = FALSE, !.last = frame.target]
              IN IF win[i].posted[n].kind = "post"
                 THEN Finish(i, ended, frame.then, frame.moved)
                 ELSE win' = [win EXCEPT ![i] = w] /\ UNCHANGED loop
    /\ UNCHANGED <<slot, mouse, display, keys, jumped, count>>

\* WM_QUIT ends the loop of handle_pre_warp without its marker, and the thread's own.
QuitDraining(i) ==
    /\ Running(i) /\ win[i].frames # <<>> /\ "quit" \in Kinds(win[i])
    /\ LET w == win[i]
           frame == Last(w.frames)
       IN Finish(i, [w EXCEPT !.frames = Front(@), !.warping = FALSE, !.last = frame.target,
                              !.failed = TRUE], frame.then, frame.moved)
    /\ UNCHANGED <<slot, mouse, display, keys, jumped, count>>

\* The thread ends: capture off, hooks removed, HOOK_STATE cleared.
ThreadEnds(i) ==
    /\ Running(i) /\ win[i].frames = <<>> /\ "quit" \in Kinds(win[i])
    /\ \E r \in SyncOff(win[i]) :
           win' = [win EXCEPT ![i] = [r[1] EXCEPT !.up = "over", !.posted = <<>>, !.sent = <<>>]]
    /\ slot' = 0
    /\ UNCHANGED <<mouse, display, keys, loop, jumped, count>>

-----------------------------------------------------------------------------
(* What others send the thread (cursor_hider_window_proc), answered inside *)
(* any GetMessageW.                                                        *)

Delivering(i, kind) ==
    /\ Running(i) /\ win[i].sent # <<>> /\ win[i].sent[1] = kind
    /\ UNCHANGED <<slot, display, keys, jumped>>

Delivered(i) == [win[i] EXCEPT !.sent = Tail(@)]

\* WM_SYNLY_CAPTURE(true): sync_cursor_capture up to the warp.
CaptureOn(i) ==
    /\ Delivering(i, "arming")
    /\ LET w == Delivered(i)
       IN \/ /\ slot # i /\ win' = [win EXCEPT ![i] = w] /\ loop' = Answered(i, "arming", FALSE)
             /\ UNCHANGED <<mouse, count>>
          \/ /\ slot = i /\ w.phase = "Relaying"
             /\ win' = [win EXCEPT ![i] = w] /\ loop' = Answered(i, "arming", TRUE)
             /\ UNCHANGED <<mouse, count>>
          \/ /\ slot = i /\ w.phase # "Relaying"
             /\ \/ Warp(i, [w EXCEPT !.phase = "Arming"], w.anchor, "arming")
                \/ \* ShowCursor or SetWindowPos fails
                   Fault /\ Finish(i, w, "arming", FALSE) /\ UNCHANGED mouse

\* WM_SYNLY_CAPTURE(false), for restore_sender or cleanup_platform.
CaptureOff(i) ==
    /\ \E k \in {"releasing", "cleaning"} :
           /\ Delivering(i, k)
           /\ IF slot # i
              THEN win' = [win EXCEPT ![i] = Delivered(i)] /\ loop' = Answered(i, k, FALSE)
                   /\ UNCHANGED count
              ELSE \E r \in SyncOff(Delivered(i)) :
                       /\ IF r[2] THEN UNCHANGED count ELSE Fault
                       /\ win' = [win EXCEPT ![i] = r[1]] /\ loop' = Answered(i, k, r[2])
    /\ UNCHANGED mouse

\* WM_SYNLY_WARP
WarpTo(i) ==
    /\ Delivering(i, "placing")
    /\ IF slot = i THEN Warp(i, Delivered(i), Edge, "placing")
       ELSE /\ win' = [win EXCEPT ![i] = Delivered(i)] /\ loop' = Answered(i, "placing", FALSE)
            /\ UNCHANGED <<mouse, count>>

\* The displays change (refresh_display_layout).
Rearranged(i, s) ==
    /\ Running(i) /\ slot = i /\ s # display.now /\ display.changes < MaxLayouts
    /\ display' = [now |-> s, changes |-> display.changes + 1]
    /\ LET w == [win[i] EXCEPT !.screen = s, !.anchor = s.anchor]
       IN IF w.phase = "Relaying" THEN Warp(i, w, s.anchor, "screen")
          ELSE win' = [win EXCEPT ![i] = w] /\ UNCHANGED <<mouse, loop, count>>
    /\ UNCHANGED <<slot, keys, jumped>>

-----------------------------------------------------------------------------
(* The sender loop.                                                        *)

Send(k) == win' = [win EXCEPT ![loop.of].sent = Append(@, k)]
CallerOnly == UNCHANGED <<slot, mouse, display, keys, jumped>>

\* The cursor crosses the edge: the snapshot goes with Activate, then set_capture(true).
Cross ==
    /\ loop.at = "watching" /\ Counted("turns", MaxTurns)
    /\ LET w == win[loop.of]
           snapshot == IF loop.blocks THEN keys.local ELSE w.seen
           on == w.phase = "Relaying"
       IN /\ loop.blocks => snapshot = {}
          /\ loop' = [loop EXCEPT !.at = IF on THEN "sending" ELSE "arming",
                                  !.told = snapshot, !.missed = {}]
          /\ win' = [win EXCEPT ![loop.of].seen = snapshot,
                                ![loop.of].sent = IF on THEN @ ELSE Append(@, "arming")]
    /\ CallerOnly

\* restore_sender: warp_cursor, then set_capture(false).
ComeBack(ends) ==
    /\ loop.at = "sending"
    /\ Send("placing") /\ loop' = [loop EXCEPT !.at = "placing", !.ends = ends]
    /\ CallerOnly /\ UNCHANGED count

\* set_capture(false) asks the thread only where capture seems to be on.
Stop(from, k) ==
    /\ loop.at = from
    /\ IF win[loop.of].phase = "Observing"
       THEN UNCHANGED win /\ loop' = After([loop EXCEPT !.at = k], TRUE)
       ELSE Send(k) /\ loop' = [loop EXCEPT !.at = k]
    /\ CallerOnly /\ UNCHANGED count

\* The substream ends while nothing is captured.
End ==
    /\ loop.at = "watching" /\ loop' = [loop EXCEPT !.at = "toClean"]
    /\ CallerOnly /\ UNCHANGED <<win, count>>

\* SendMessageTimeoutW gives up after a second; the message is still delivered.
Timeout ==
    /\ loop.at \in {"arming", "placing", "releasing", "cleaning"} /\ Fault
    /\ loop' = After(loop, FALSE)
    /\ CallerOnly /\ UNCHANGED win

\* Mutant: the thread is not told to stop.
DropQuietly ==
    /\ loop.at = "toDrop" /\ loop' = [loop EXCEPT !.at = "gone"]
    /\ CallerOnly /\ UNCHANGED <<win, count>>

\* Drop: the thread is told to stop, and not waited for.
Drop ==
    /\ loop.at = "toDrop" /\ loop' = [loop EXCEPT !.at = "gone"]
    /\ win' = [win EXCEPT ![loop.of].posted = Append(@, [kind |-> "quit"])]
    /\ CallerOnly /\ UNCHANGED count

\* The next substream starts its platform (start).
Restart ==
    /\ loop.at = "gone" /\ loop.of < MaxPlatforms
    /\ win[loop.of].sent = <<>>   \* bound: what was sent to the last one has been delivered
    /\ slot' = loop.of + 1
    /\ win' = [win EXCEPT ![loop.of + 1] = Started]
    /\ loop' = Watching(loop.of + 1, loop.blocks)
    /\ keys' = [keys EXCEPT !.unheard = @ \cup keys.down]
    /\ UNCHANGED <<mouse, display, jumped, count>>

ThreadStep(i) ==
    \/ TakeMove(i) \/ TakeButton(i) \/ TakeMarker(i) \/ Draining(i) \/ QuitDraining(i) \/ ThreadEnds(i)
    \/ CaptureOn(i) \/ CaptureOff(i) \/ WarpTo(i)

LoopStep == Stop("toRelease", "releasing") \/ Stop("toClean", "cleaning") \/ Drop

HooksNext ==
    \/ \E d \in {-1, 1} : Report(d)
    \/ MouseHook
    \/ \E k \in HookKeys : KeyHook(k)
    \/ (\E b \in HookButtons : ButtonHook(b)) \/ Refresh
    \/ \E i \in Platforms : ThreadStep(i) \/ \E s \in Screens : Rearranged(i, s)
    \/ Cross \/ (\E ends \in BOOLEAN : ComeBack(ends)) \/ End \/ Timeout \/ Restart
    \/ LoopStep

-----------------------------------------------------------------------------
(* Properties.                                                             *)

\* While control is over, the peer has been told to hold just what the user holds, but
\* for keys that changed while no hook listened or while capture was being armed.
PeerIsTold ==
    (/\ loop.at = "sending" /\ ~loop.blocks /\ win[loop.of].phase = "Relaying"
     /\ "button" \notin Kinds(win[loop.of])) =>
        \A k \in (HookKeys \cup HookButtons) \ (keys.unheard \cup loop.missed) :
            k \in loop.told <=> k \in keys.down

\* A move passed on is one the mouse made: none is measured from where the cursor was
\* before a warp.  Excepted are moves the system had already placed when the cursor was
\* moved, those after a warp within a warp, and those after a call that failed.
NoPhantom == ~jumped

\* Once nothing is under way, the mouse and the keyboard of this machine are taken exactly
\* while the loop is in control, unless a call failed: not after a call that timed out and
\* took effect later, nor after the platform was dropped.
CaptureIsOwned ==
    \A i \in Platforms :
        LET w == win[i]
            atRest == /\ w.sent = <<>> /\ w.posted = <<>> /\ w.frames = <<>>
                      /\ loop.of = i => loop.at \notin {"toClean", "toDrop"}
        IN (Running(i) /\ atRest /\ ~w.failed) =>
               (w.phase = "Relaying" <=> loop.of = i /\ loop.at \in {"sending", "toRelease"})

\* What goes to the peer is what the user does.
RelayIsTrue == PeerIsTold /\ NoPhantom

\* Both: what the peer gets is true, and what is taken is given back.
HooksAreTrue == RelayIsTrue /\ CaptureIsOwned

\* Three that the code does not keep.  A platform that watches hears its hooks; the
\* cursor is inside the edge when control comes back; with block_switch_on_press,
\* control goes over only while the user holds nothing.
Listening == loop.at = "watching" => slot = loop.of
ReturnsToEdge ==
    [][loop.at \in {"toRelease", "releasing"} /\ loop'.at = "watching" => mouse.at = Edge]_hookVars
NothingHeld ==
    [][loop.blocks /\ loop.at = "watching" /\ loop'.at = "arming" => keys.down \subseteq keys.unheard]_hookVars

HooksSpec == HooksInit /\ [][HooksNext]_hookVars
=============================================================================
