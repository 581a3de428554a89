------------------------------ MODULE MCDesktop ------------------------------
(***************************************************************************)
(* The desktop program beside its sessions: the updater with its           *)
(* installer, the files of the configuration with their two owners, and,   *)
(* on Windows, how an input agent is got and how it is called, and how     *)
(* the hooks on mouse and keyboard relay and take them; the clipboard of   *)
(* the system; and the mouse pointer over two desks.  They share no state; *)
(* a behaviour is one of one of them, with the others over.                *)
(***************************************************************************)
EXTENDS Updates, ConfigFiles, AgentHandshake, InputAgent, OsClipboard, WindowsHooks, Pointer

\* The weights of the files the other device sends.
FileWeight == [f \in Files |-> IF f = "large" THEN 3 ELSE IF f = "two" THEN 2 ELSE 1]

UpdatesOver ==
    /\ latest = MaxVersion /\ program = [installed |-> 1, running |-> 0, start |-> MaxStarts]
    /\ updater = Fresh /\ skipped = 0 /\ shown = "Idle" /\ looking = NoCheck /\ restoring = NoRestore
    /\ fetches = [g \in Fetches |-> NoFetch] /\ applying = [at |-> "none", of |-> 0, tag |-> 0]
    /\ part = [v \in Versions |-> "none"] /\ package = part
    /\ sums = 0 /\ pending = 0
    /\ installers = [h \in Handoffs |-> NoInstaller] /\ clicks = 0

ConfigOver ==
    /\ files = [main |-> "none", gui |-> "none", identity |-> 0, trusted |-> Nothing]
    /\ origin = [identity |-> 0, gui |-> "default"]
    /\ process = [at |-> "over", rest |-> <<>>] /\ config = Nobody0 /\ copy = NoCopy
    /\ saves = [o \in Owners |-> Idle0] /\ told = <<>>
    /\ spent = [saves |-> 0, crashes |-> MaxCrashes] /\ revoked = {} /\ paired = {}

HandshakeOver ==
    /\ caller = "error" /\ ready = <<>> /\ opened = {} /\ alive = FALSE /\ named = FALSE
    /\ gui = [p \in Pipes |-> "closed"]
    /\ agent = [main |-> "none", command |-> "none", event |-> "none"]
    /\ startup = "none" /\ pipe = [p \in Pipes |-> "nothing"]

AgentOver ==
    /\ clientUp = FALSE /\ calls = [c \in CallIds |-> NoCall] /\ lifecycle = 0 /\ lease = 0
    /\ items = <<>> /\ cursor = [latest |-> 0, queued |-> FALSE, last |-> 0, by |-> 0]
    /\ writing = [at |-> "gone", rest |-> <<>>, id |-> 0, hangs |-> 0] /\ awaited = <<>>
    /\ requests = <<>> /\ responses = <<>>
    /\ runtime = 0 /\ pointer = 0 /\ acted = [c \in CallIds |-> [on |-> 0, at |-> 0]]

OsOver ==
    /\ windows = TRUE /\ board = [text |-> NoText, files |-> {}, batch |-> 0, by |-> User]
    /\ cache = {} /\ job = [NoJob EXCEPT !.at = "gone"]
    /\ result = [id |-> 0, payload |-> NoContent, strict |-> FALSE, ok |-> TRUE]
    /\ sync = [last |-> NoSignature, suppress |-> NoSignature]
    /\ watch = [on |-> FALSE, unread |-> FALSE] /\ reports = <<>> /\ passed = User
    /\ used = [applications |-> 0, copies |-> MaxCopies]

\* A laptop's screen, and a larger one that becomes the main one.
Displays == {[left |-> 0, right |-> 8, anchor |-> 4], [left |-> 0, right |-> 16, anchor |-> 12]}

\* Two strokes of the keys; a move while the displays change; an option that blocks;
\* and one platform after another, with a call that fails.
Start(first, blocks, changes, motions, strokes, turns, faults) ==
    [first |-> first, blocks |-> blocks, changes |-> changes,
     count |-> [reports |-> motions, strokes |-> strokes, turns |-> turns, faults |-> faults]]
Hooking == {Start(2, FALSE, 1, 2, 0, 0, 1), Start(2, FALSE, 0, 1, 2, 0, 1),
            Start(2, TRUE, 1, 2, 0, 0, 1), Start(1, FALSE, 1, 2, 2, 0, 0)}

HooksOver ==
    /\ win = [i \in Platforms |-> Unstarted] /\ slot = 0
    /\ mouse = [at |-> Edge, flight |-> <<>>] /\ display = 0
    /\ keys = [down |-> {}, local |-> {}, unheard |-> {}] /\ jumped = FALSE
    /\ loop = [Watching(MaxPlatforms, FALSE) EXCEPT !.at = "gone"]
    /\ count = [reports |-> MaxMotions, strokes |-> MaxStrokes]

\* A display of the sender with a lower one beside it, which is the way out to the
\* right; a display of the receiver with a strip of one on its left.
Display(left, right, top, bottom) ==
    [x |-> [from |-> left, to |-> right], y |-> [from |-> top, to |-> bottom]]
Pixel(x, y) == [x |-> x, y |-> y]
Wide == {Display(0, 6, 0, 4), Display(6, 11, 0, 2)}
Small == {Display(0, 5, 0, 3), Display(-4, 0, 0, 1)}
Rightwards == [axis |-> "x", high |-> TRUE]
Moves == {Pixel(4, 0), Pixel(-5, 0), Pixel(-1, 1)}

\* Moves and presses, or one fewer, and a game, a secure desktop or a hotkey.
Opening(start, unclamped, game, primary, shoves, surprises) ==
    [here |-> start, there |-> Pixel(1, 1), raw |-> unclamped, game |-> game, primary |-> primary,
     happened |-> [shoves |-> MaxShoves - shoves, surprises |-> MaxSurprises - surprises]]
Pointing ==
    {Opening(Pixel(8, 1), FALSE, FALSE, NoDisplay, 3, 0),
     Opening(Pixel(4, 3), TRUE, FALSE, Display(0, 5, 0, 3), 3, 0),
     Opening(Pixel(4, 3), FALSE, TRUE, NoDisplay, 2, 1),
     Opening(Pixel(8, 1), FALSE, FALSE, NoDisplay, 2, 1)}

PointerOver ==
    /\ here = Pixel(8, 1) /\ there = Pixel(1, 1) /\ raw = FALSE
    /\ happened = [shoves |-> MaxShoves, surprises |-> MaxSurprises]
    /\ sample = [by |-> Stays, at |-> NoPoint] /\ presses = 0
    /\ leader = [gen |-> 0, active |-> FALSE, cooling |-> FALSE, armed |-> Start0, over |-> TRUE]
    /\ wire = <<>> /\ back = <<>> /\ queue = <<>>
    /\ reader = [gen |-> 0, gathered |-> NoMotion, holds |-> <<>>]
    /\ follower = [gen |-> 0, active |-> FALSE, cursor |-> NoPoint, game |-> FALSE,
                   secure |-> FALSE, primary |-> NoDisplay, idle |-> FALSE, over |-> TRUE]
    /\ trip = [sent |-> NoMotion, moved |-> NoMotion, left |-> Start0, straight |-> FALSE,
               back |-> FALSE, loose |-> {}, early |-> FALSE]

DesktopInit ==
    \/ UpdatesInit /\ ConfigOver /\ HandshakeOver /\ AgentOver /\ OsOver /\ HooksOver /\ PointerOver
    \/ UpdatesOver /\ ConfigInit /\ HandshakeOver /\ AgentOver /\ OsOver /\ HooksOver /\ PointerOver
    \/ UpdatesOver /\ ConfigOver /\ HandshakeInit /\ AgentOver /\ OsOver /\ HooksOver /\ PointerOver
    \/ UpdatesOver /\ ConfigOver /\ HandshakeOver /\ AgentInit /\ OsOver /\ HooksOver /\ PointerOver
    \/ UpdatesOver /\ ConfigOver /\ HandshakeOver /\ AgentOver /\ OsInit /\ HooksOver /\ PointerOver
    \/ UpdatesOver /\ ConfigOver /\ HandshakeOver /\ AgentOver /\ OsOver /\ HooksInit /\ PointerOver
    \/ UpdatesOver /\ ConfigOver /\ HandshakeOver /\ AgentOver /\ OsOver /\ HooksOver /\ PointerInit

DesktopNext ==
    \/ UpdatesNext /\ UNCHANGED <<configVars, handshakeVars, agentVars, osVars, hookVars, pointerVars>>
    \/ ConfigNext /\ UNCHANGED <<updateVars, handshakeVars, agentVars, osVars, hookVars, pointerVars>>
    \/ HandshakeNext /\ UNCHANGED <<updateVars, configVars, agentVars, osVars, hookVars, pointerVars>>
    \/ AgentNext /\ UNCHANGED <<updateVars, configVars, handshakeVars, osVars, hookVars, pointerVars>>
    \/ OsNext /\ UNCHANGED <<updateVars, configVars, handshakeVars, agentVars, hookVars, pointerVars>>
    \/ HooksNext /\ UNCHANGED <<updateVars, configVars, handshakeVars, agentVars, osVars, pointerVars>>
    \/ PointerNext /\ UNCHANGED <<updateVars, configVars, handshakeVars, agentVars, osVars, hookVars>>

desktopVars ==
    <<updateVars, configVars, handshakeVars, agentVars, osVars, hookVars, pointerVars>>

DesktopSpec ==
    /\ DesktopInit /\ [][DesktopNext]_desktopVars
    /\ UpdatesFairness /\ HandshakeFairness /\ AgentFairness

-----------------------------------------------------------------------------
\* Nobody waits for the agent for ever, and the agent for nobody.
AgentSettles == LoneAgentLeaves /\ CallersAnswered

\* The mouse, from the hooks of one device to the desk of the other: what is captured is
\* relayed and given back, and the pointers stay on their desks and come back.
MouseIsTrue == HooksAreTrue /\ PointerIsTrue
=============================================================================
