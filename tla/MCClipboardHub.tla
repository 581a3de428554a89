----------------------------- MODULE MCClipboardHub -----------------------------
(* Small instances of ClipboardHub: two devices, the first of which may    *)
(* come back in a second session.                                          *)
EXTENDS ClipboardHub, TLC

CONSTANTS a, b, x, y

SameDevice == <<a, a>>

(* x is read as it is, y as x, when a part of it is left out, or not at    *)
(* all, when its files are gone.                                           *)
Partly == (x :> {x}) @@ (y :> {x, Nothing})

Scenario(sessions, received, copies, toggles) ==
    [sessions |-> sessions, transfers |-> received, copies |-> copies, toggles |-> toggles]

(* A device that comes back while a payload is under way; payloads and a   *)
(* change of the user's that follow one another in one session.            *)
Overlaps ==
    {Scenario(1, 3, 0, 0), Scenario(2, 1, 0, 0), Scenario(1, 1, 0, 1), Scenario(1, 1, 1, 0)}
================================================================================
