# Synly: verification project

Synly joins computers and phones into one desk: a clipboard they share, one
keyboard and mouse, one audio stream, over a LAN and over Bluetooth at once.
This directory holds TLA+ specifications of its parts, the TLC instances that
model-check them, and the theorems about them that TLAPS proves.

Paths below are relative to the repository: `core/` stands for
`crates/synly-core/src/`, `android/` for `android/app/src/main/java/com/azazo1/synly/`,
everything else for `src/`. `PROJECT.json` maps every definition to the lines it
translates, and lists the hazards at their lines.

1. Inventory · 2. Modules · 3. Runs · 4. Proofs · 5. Not modelled · 6. Plan

## 1. Inventory

A *session* joins a host and a client. Its control connection, LAN or
Bluetooth, carries control frames on a lane of its own; a *secondary* connection
of the other kind may be bound to the session later. Every Bluetooth connection
and every secondary one is multiplexed into lanes, and clipboard, input and
audio each choose the carrier they use while the session runs. A host has up to
eight sessions and one *active slot*: the session that holds it carries audio and
input, the others only the clipboard.

| Part | State | Operations | Talks to | What makes it correct |
|---|---|---|---|---|
| packet multiplexer, `core/transport/mux.rs` | credits and windows of three lanes in two directions, bounded queues, a burst counter | write, schedule, receive, deliver, grant, end | lanes above, byte stream below | no credit lost or minted, no overrun, no lane starves or blocks another, end after data |
| generation lanes, `core/transport/generation.rs` | at most one lease per lane, sequence numbers | lease, drop, send, receive | multiplexer, routes | a revoked lease never delivers |
| channel route, `core/transport/routing.rs` | offers for receive and send, the pending switch, highest number seen | choose, begin, quiesced, receive, reply sent, policy, pause, cancel | the routes below | nothing sent before it can be accepted, no way back to an old switch |
| clipboard route, `core/transport/clipboard_route.rs` | lease, switch number, target, deadline, blocked signature | reconcile, prepare, receive, fail, remote failed | channel route, lanes, session loop | both ends on one allowed carrier, or a reason not to |
| capabilities, `core/capabilities.rs` | own and peer's capabilities with generations, what is acknowledged | set, bump, apply remote, apply acknowledgement | session loop | both ends agree when a path is used; legal crossings are no errors |
| reliable clipboard, `core/transport/clipboard_sender.rs`, `clipboard.rs`, `app/clipboard_delivery.rs` | one-payload slot, outbox, write, timer, attempts; inbox | publish, enable, route, receipt, retry; begin, finish | clipboard route, hub, system clipboard | newest payload delivered or given up openly, never twice, never backwards |
| frames, `core/transport/frames.rs` | a writer and a reader task per lane | send, flush, read, finish | everything above | order within a lane |
| logical session, `core/transport/logical.rs`, `binding.rs`, `lan_candidate.rs`, `core/bluetooth/candidate.rs` | session id, one slot, one pending challenge | connect, challenge, prove, commit, attach, close | host, client, crypto | a link joins only the session it proves to know; the slot is held by who uses it |
| bridge, `core/transport/bridge.rs` | one write in flight, two fragments read | read, write, close | Bluetooth providers | no byte lost, a close wakes both sides |
| session loop, `app.rs` 2228-2920, `app/` | all of the above for one session | one arm per source of events | all of the above | survives every legal interleaving |
| host, `host/mod.rs`, `host/session.rs`, `app/lan_admission.rs` | table of sessions, session tasks, pairing permit, configuration lock, queue of events | accept, pair, start, join, end, revoke, switch, promote | active slot, hub, sessions | one active session, nobody forgotten |
| active slot, `host/active_slot.rs` | active, preferred, reserved, pending | reserve, claim, release, end, switch, expire | host, pairings | a slot given is taken or returned |
| clipboard hub, `host/clipboard_hub.rs` | subscribers, signatures and rates, waiting payload, suppression | ingest, subscribe, enable, apply, broadcast | sessions, system clipboard | receipts are honest, no echo, every session served |
| system clipboard, `clipboard.rs` | watcher, suppression, file cache, application under way | watch, apply, store, prune | hub, operating system | what is confirmed is whole, the user's copies are passed on |
| input and audio paths, `app/input_route.rs`, `app/audio_path.rs`, `app.rs` | offers, leases, bindings, tasks, what is blocked | choose, switch, start, fail, reset | session loop, channel route | both ends on one path, and running whenever one is allowed |
| input control, `input/runtime.rs` | who controls whom, keys pressed, generation | capture, activate, forward, return, recover | platform backends, input lane | keys released on every way out |
| mouse pointer, `input/geometry.rs`, `input/runtime.rs` | displays and edges, both pointers, motion gathered on both sides, cursor mode | cross, enter, move, clamp, return, anchor | input control, backends | on a display always, back where it left, no motion lost |
| Windows hooks, `input/platform/windows/native.rs`, `cursor_capture.rs` | one thread per platform, hook state, posted messages | hook, warp, anchor, capture, stop | input control | true relative motion, nobody captures for another |
| macOS input, `input/platform/macos/mod.rs` | event tap, capture flag, keeper threads, sets of pressed and injected keys | tap, capture, keep, refresh, inject, release | input control | both devices know what is pressed; cursor and keys come back |
| Windows agent, `input/platform/windows/agent/` | pipes, handshake threads, queue of calls, pending responses | elevate, introduce, call, answer, stop | input control, service | callers are answered, events act in order, no orphan process |
| Windows service, `input/platform/windows/service/` | service process, agents, commands with elevated rights | install, restart, uninstall, start agent | agent client, service manager | agents where they belong, and gone with their service |
| audio, `audio/` | replay window, RTP queue, frame queues, worker threads, devices | capture, encode, send, reorder, play | session loop, devices | order across wrap-around, fresh sound, every thread ends |
| supervisor, `core/supervisor.rs`, `runtime_control.rs` | one running session, snapshot, interactions | start, stop, restart, answer, configure | user interface, host, client | one session at a time, no event of an old one |
| reconnection, `reconnect.rs`, `app.rs`, `app/lan_admission.rs` | targets, what is remembered, the host's throttle | fast, known and discovered targets, PIN or mutual TLS | host, discovery | the two ends agree who is connected; a lost session comes back |
| mobile client, `core/client.rs`, `ffi.rs`, `android/SynlyEngine.kt` | generation, handle, command queue, shown state | connect, stop, replace, answer | host | what is shown is the present client's |
| discovery, `core/discovery.rs` | announcement, daemon, two caches, the list shown | advertise, update, browse, renew, expire | host, supervisor, client | what is announced and listed is current |
| Bluetooth authorization, `core/bluetooth/session.rs`, `candidate.rs`, `app/bluetooth.rs` | saved keys, pending tasks, connections | temporary TLS, question, mutual TLS, bind | host, client, crypto | both users consented, an unsaved identity stays second |
| pairing and crypto, `core/crypto.rs`; protocol, `core/protocol.rs` | keys, PINs, formats | | | |
| configuration, `config/` | files, the supervisor's list, the session's copy | load, migrate, save, revoke, remember | supervisor, session | a crash loses nothing the user began with |
| updates, `update/` | phase, tasks, download directory, marker of a pending update | check, download, restore, apply, start | installers, files | no package is installed that is not newer |
| logging, user interface, build | files, windows | | | |

The hard behaviour is where tasks meet: every session is a `select!` loop that
owns its state and is fed by queues, some of them bounded and lossy; two loops
change their minds at the same time; a message on one carrier overtakes one on
another; a task reads shared state and uses it after it changed; connections
break at any step; a session is replaced while the old one is still ending; a
process crashes between two writes; a callback of the system runs inside a call.

## 2. Modules

```
 MCPrograms   Supervisor · MobileClient · ClientSession ── CapabilityState
              HostSessions ── ActiveSlot
 MCPeers      Reconnect · LinkBinding · InputControl · FunctionPaths ── ChannelRoute
 MCDesktop    Updates · ConfigFiles · OsClipboard · AgentHandshake · InputAgent · WindowsHooks
              Pointer
 MCAudio      AudioStream · AudioPlayback ─┐ · AudioCapture ─┐
                                      AudioQueue ────────────┘
 MCProtocols  MuxCredit · RouteHandover · Discovery · InputService · BluetoothAuth · MacInput

 MCClipboardHub       ClipboardHub        (clipboard of the host)
 ClipboardDelivery                        (one payload to the peer, over paths that change)
 MCClipboardPath      ClipboardPath ── ChannelRoute, CapabilityState
                          │ implements
                      RouteHandover       (the four-phase switch, abstract)
 Mux                                      (one connection; its instance stands in it)
                          │ implements
                      MuxCredit           (credits of six flows, abstract)

 Proofs: ProtocolsProofs (MCProtocols), MuxProofs, ClipboardDeliveryProofs,
         ProgramsProofs (MCPrograms), PeersProofs (MCPeers), DesktopProofs and
         InputAgentProofs (MCDesktop), ClipboardHub (its own)
```

Conventions: an action is one turn of a task, from one `await` that may suspend
it with its state visible to others to the next; its comment says which turn.
Mutants, deliberately wrong versions of a definition, stand before the
definition they vary and are used by no specification; they document that a
property can fail. Constants commented "bound" only make a model finite.

The MC modules of the first block put together parts that share no state: a
behaviour is one of one part with the others in a state where they are over, so
that one run checks them all at the price of the sum of their states and not of
the product. Every part's specification (`SupervisorSpec`, `UpdatesSpec`, ...)
stands by itself, and the theorems are about it.

### MuxCredit (`core/transport/mux.rs`)

The abstract flow control. For each of six flows (three lanes, two directions)
`credits`, `data`, `queue`, `grants`, `window`, `returning`, `restored` count
where the flow's W credits are: with the sender, on the wire with a packet, in
the delivery queue, as a credit on its way back, in the receiver's window, in the
event queue. Every action moves one credit. `EventsNeverBlock` adds up what can
be in the event queue of 6 W entries (mux.rs:61).

### Mux

The code's tasks: `write` of a lane, the scheduler with `PRIORITY_BURST`, the
wire, the receive task, one delivery task per lane, and their bounded queues.
Packets carry a number, so order and completeness can be stated. `Credit` is
MuxCredit under the mapping that counts this state (`Places`). Two lanes (control,
clipboard) suffice for TLC, as input ranks like control; the proofs are for any
set of lanes. A writer that closes its lane ends it after what it has written.

### ChannelRoute, CapabilityState

Pure: `ChannelRoute` and `CapabilityState` as functions from a value to a value,
named after the Rust methods; `Bail` of the caller stands for their errors.

### RouteHandover

What the four-phase switch (Offer, Ready, Commit, Committed) promises, between
two ends that may leave at any time, over a network that loses, repeats and
reorders everything. `highest`, `current`, `listen`, `speak` are an end's last
switch, the one it is on, and where it accepts and sends.

### ClipboardPath (`core/transport/clipboard_route.rs`, `app.rs`)

Two session loops (`party`), control queues in both directions (`ctl`), clipboard
lanes of both carriers (`lanes`), and the secondary connection (`bond`). Turns of
the loop: a control message of each kind, a frame, a broken stream, the deadline,
an attached or lost secondary connection, and what the user changes. `LoopTop`
is what the loop does before it selects: send a new transport state, reconcile.
The dropped lease of a path ends on the wire as an `end` that may or may not
arrive, as the lane's tasks are aborted.

### ClipboardDelivery (`core/transport/clipboard_sender.rs`, `clipboard.rs`)

One direction. The worker's biased `select!` is in the guards: an arm runs only
when the arms before it have nothing. `ReadSlot` and `TakePayload` are one arm cut
in two, because a publisher may store between `borrow_and_update` (line 92) and
`send_if_modified` (line 96); likewise `set_enabled` and `publish` are cut where
another thread may come between. A payload is a number in order of publication;
the slot is emptied in that order, so it also is the sequence number. `route()`
waits for the worker's answer and is one step of session and worker. A frame may
reach the peer before the write that sent it is known to have ended. Frames of an
old path stay readable until the next path is committed. `ChangePermission` is the
receiver's side of a capability change.
`confirmed`, `revoked` and `worker.begun` are ghosts. A payload the worker had
already read when the direction went off may be begun once: the code checks the
flag before, and no property claims otherwise.

### ActiveSlot, HostSessions (`host/active_slot.rs`, `host/mod.rs`)

`slot` is the `ActiveSlot`; `pairing` the one pairing that holds permit and
configuration lock; `queue` the unbounded `HostEvent` channel; `sessions` the
table, as the instance running for a device; `tasks` the session tasks with their
profile, whether the logical session is open, whether the token was cancelled
(`told`). A turn of the loop that needs the configuration half-way (`close`,
`revoke`, `promote`) is two steps with `loop` in between: the lock is held by a
pairing for up to 90 seconds. Accepting a connection also waits for the lock
(mod.rs:212, 270), so `PairingStarts` needs it free; the answer for a busy
pairing slot is therefore practically never given. The refusal of a full host at
admission is subsumed by the check when the session would start, a mismatch of
identities by `PairingFails` and `TurnAway`. A second connection sets `second`,
which is never reset: its loss and return are the session's own affair.
`slot.withdrawn` is history: since `reserve` promised the slot, the preference or the wait
the promise rested on has been taken back, by a switch of the user, a cleared preference or a
deadline. `claim` (active_slot.rs:107) then takes the slot and returns nobody to demote, which
`HolderAlwaysTold` states and TLC finds; `HolderIsTold` leaves out the claims of such a promise
and nothing else, so every other switch, return and promotion is in it. By a deadline alone it
takes four sessions: that instance, and three sessions with two commands, were checked once.

### ClipboardHub (`host/clipboard_hub.rs`, `clipboard.rs`)

`events` is the bounded queue that drops, `local` the watcher's channel, `os` the
system's clipboard with a mark for what the watcher has yet to read; notifications
coalesce. `policy`, `sync`, `pending`, `subscribers` are the hub's; `resting` says
`next_allowed` has not come. `applying` splits the turn that awaits the system.
A session that ends on an error (`BreakOff`) does not tell the hub; a session that
is replaced may overlap with its successor, because the host waits for it three seconds at
most. `ReadsAs` says what the system may give back for a content: the same, another one (text
beside files is not read, clipboard.rs:289; files of one name, pruned files, an image that is
encoded anew), or nothing that can be read. The watcher, the snapshot for a new subscriber and
the comparison before an application all read that way. `NoEcho` is about what the hub wrote and
reads back as it wrote it; what comes back `altered` is taken for a copy of the user and passed
on (`NothingReturns`). How a content is altered is the subject of OsClipboard. A payload whose
files are over the limit is cut before it is noted; the model notes it whole.
Times are events. One assumption is about time: no echo stays unread, and no
application takes, the ten seconds a signature lives (`KeepsUp`).

### OsClipboard (`clipboard.rs`)

Under the hub: the watcher thread, and the application of a payload, which compares,
stores its files in the cache, prunes, sets the clipboard (on Windows with retries) and
notes a suppression. `board` is the clipboard with who wrote it, `cache` the set of
batches, `job` the application under way, `result` the last one that was over, `reports`
what the watcher read and has not handed on. A file is its size; two of them have one
name, which is what makes a stored name differ from the sent one.

### Supervisor (`core/supervisor.rs`, `runtime_control.rs`)

`turn` is what the loop awaits inside a turn (a session that stops, a restart), `session`
the handle it holds, `snap` the published snapshot, `runs` the session tasks and `reports`
their events, each with the run it came from, so that events of a stopped session arrive
late. `responders` are the questions whose answer channel is kept, `scan` the Bluetooth
discovery with its epoch. A report channel holds at least the three that a session sends
before anyone reads (`SupervisorAssumption`).

### MobileClient (`core/client.rs`, `ffi.rs`, `android/SynlyEngine.kt`)

`engine` is the Kotlin side: generation, handle, whether a start is queued; `clients` the
client tasks with their stage and command queue; `ui` what is shown, with the client it
came from; `reading` an update of the trusted devices between its read and its send. A
client hears commands only at a prompt and in a session.

### ClientSession (`core/client.rs`, the session loop of `app.rs`)

One of those clients seen from inside. `phone` is where it is (`idle`, `bootstrap`, `prompt`,
`asked`, `session`, `over`), its configuration and its target; `orders` the commands it has
not read, `wishes` what the application set last; `where` who answers at an address, `desks`
what the users of the desktops set. `ends` are both ends of the session, each with its
CapabilityState and what it said and heard of links and policies, `wire` the control frames
to each. Every action of an end is one turn of its loop: an arm of the select and the head,
which announces the links when they changed. A handshake on the LAN is one step, since the
client reads no command in it; over Bluetooth the offer is made before the question and kept
while commands are read, which is where the finding of section 3 comes from. Identity and
key of a device are one; the same device never has two keys.

### Reconnect (`app.rs`, `reconnect.rs`, `app/lan_admission.rs`)

`client` is the driver with its stage and target (fast, known, found, by address), `conn`
the one connection being authenticated and then the session's, `host` the authentication
task and the session the host still has, `trust` who trusts whom and whether that is on
disk, `failures` the throttle. TLS and PIN exchanges are reduced to whether they match.
The error of incompatible modes is left out. A trust the host could not save makes the
client fall back to a PIN (`excuse`).

### LinkBinding (`core/transport/logical.rs`, `binding.rs`, the candidate loops)

`link` holds an end's slot and its one pending challenge, `task` the attempt being bound
with what it waits for, `inbox` a bound connection on its way to the session, `tunnel` the
one the session uses, `wire` each attempt's connection with the message under way. An
attempt stands for its connection, its challenge and the tickets made from it.

### InputControl (`input/runtime.rs`)

One substream, both loops: activation with a generation and a snapshot of pressed keys,
capture that takes effect later, forwarding, return, heartbeats, Secure Input, hotkey,
recovery and a new substream. `hooked` is between the platform's hooks and the loop.
`missed` and `lost` are histories that say when a known loss has happened.

### Pointer (`input/geometry.rs`, the motion of `input/runtime.rs`)

What InputControl leaves out. The first half are operators over any set of displays, named for
the functions of geometry.rs: the exposed pixels of an edge (`Places`, ordered by their
segments), `EdgePosition`, `InnerPosition`, `Leaves` (a move that crosses the edge), `Entries`,
`MoveWithin`. A position is a fraction, `at` of `of` pixels; what single precision makes of
it is a choice of two pixels where it is not exact (`SameAs`). Coordinates do not overflow, and
of displays equally near either may be taken. `here` and `there` are the pointers as the
systems have them, `sample` the motion of the hooks, `wire` and `queue` the messages before
and after the reader with what it has gathered (`reader`), `follower` the loop of the
receiver with the point it reckons with, the cursor mode and the secure desktop. Loops take
one message or tick at a time; the timer of the receiver sees the queue empty in one step and
takes the motion in the next, since the reader may fill the queue in between. `trip` is history:
what was sent, what was applied, where the pointer left, whether it went straight, and for which
activations motion was put back (`loose`). Pressed keys, blocked switches, heartbeats and
Secure Input are InputControl's.

### FunctionPaths (`app.rs`, `app/input_route.rs`, `app/audio_path.rs`)

Both session loops as far as input and audio go: the head of a turn (state, policies,
selection, start and stop of tasks), the four-phase switch of the input over
`ChannelRoute`, the binding of the audio to a LAN address, the primary and a secondary
carrier that comes and breaks. The branch that offers input without a multiplexed carrier
(`InputHostChannel`, `InputChannelOffer` in refresh) cannot be reached, because
`input_mux` is there whenever a transport is chosen.

### Updates, ConfigFiles (`update/`, `config/`)

`Updates`: every task of the updater (check, download with its `.part` file, restore of an
earlier package, apply), the files in the download directory, the installers with a life of
their own, and the start of the program after a crash or an installation. Buttons follow
the phase late (`shown`).
`ConfigFiles`: `process.rest` lists the writes a load still owes, in the code's order; a
crash may come between any two. `config` and `copy` are the two lists of trusted devices,
the supervisor's and a session's; `saves` the list being written by each.

### AgentHandshake, InputAgent, InputService, WindowsHooks (`input/platform/windows/`)

`AgentHandshake`: the two pipes, a thread per pipe on both sides, and the caller, each
wait with its own limit. A caller that gives up drops its channel, and a thread that cannot
report then ends; but a report sent just before is left in the channel unread (`LeftUnread`), the
thread keeps the agent, and it stays: `GivenUpAgentLeaves` states that it leaves and TLC refutes
it. `LoneAgentLeaves` leaves out that one case, and only until a pipe is lost. `InputAgent`: the calls over those pipes, a queue that may be
full, a writer with one request under way, responses by number that may come after their
caller has left. `InputService`: the service, its one pipe, the agents it starts, and the
elevated commands; service manager, console sessions and prompts are external and may do
what they like. Reaping of handles is left out, a service is deleted at once, a request
frame (196 bytes) always fits the 256-byte wait buffer, and one automatic recovery runs at
a time. `WindowsHooks`: `win` is a platform with its thread and message queue, `slot` the
process-wide HOOK_STATE, `mouse.flight` a motion no hook has seen. Handlers run inside
handlers, as `GetMessageW` runs hooks and sent messages. Assumed of the system: WM_QUIT is
taken by any `GetMessageW`, a `SendMessageTimeoutW` that timed out is delivered all the
same, a swallowed event does not reach `GetAsyncKeyState`.

### MacInput (`input/platform/macos/mod.rs`, with the loops of `input/runtime.rs`)

`mac` is a platform with its tap, its flag `capture_active` and its two sets; `tapped` the
callback under way with the flag as it has read it, so that capture may change before it
decides; `keepers` the threads that hide the cursor again, each between its look at the flag
and the lock; `pointer0` the cursor as the system counts it; `board0` the keyboard for the
user, for this system and for the peer; `side` the loop, as sender or receiver, by the place it
has reached in set_capture or cleanup. Assumed: the cooldown of 300 ms outlasts a callback under
way (a keeper's 250 ms are not assumed to), the system lets modifiers through in the order of
the events, and `flags` stands for either key of a modifier. Motion, wheel, layouts and key
codes are left out, and the listening without capture of the keyboard mode.

### AudioStream, AudioPlayback, AudioCapture, AudioQueue (`audio/`)

`AudioStream`: blocks of data and parity datagrams with cyclic numbers, the replay window,
`RtpAudioQueue` with its out-of-order recovery, and what it passes on. `AudioPlayback` and
`AudioCapture`: the worker threads of either end with their queues (`AudioQueue`, which
drops the oldest) and the device threads of the Windows backend, devices that are lost and
opened again, and a stop at any time. Codec and sample arithmetic are left out.

### Discovery, BluetoothAuth (`core/discovery.rs`, `core/bluetooth/`, `app/bluetooth.rs`)

`Discovery`: the host's announcement and its updates, leases that outlive it, the listing
task with a cache for each source and their expiry, the supervisor's list and a client's
search. Daemon and server are external; interfaces and address groups are left out.
`BluetoothAuth`: first authorization with a temporary TLS and two questions, later mutual
TLS, and a link beside a LAN session, between honest parties; keys and signatures are
symbols and change only between situations. The binding itself is LinkBinding.

## 3. Runs

| Run | Instance | Properties | Shows |
|---|---|---|---|
| `protocols` | W = 1, six flows; two switches; six mixtures of changes, failures and searches; six situations of the service; eight meetings of two devices; seven beginnings of macOS input with 2 keys of a modifier, the hot key, an unmapped key and a button, 2 platforms, up to 3 strokes, 2 turns, a mishap and a fault | CreditConserved, NoCommitRace, DiscoveryIsTrue, ServiceIsTrue, AuthorizationIsTrue, MacIsTrue | no credit lost or minted; nothing sent before it is accepted; listings are current; the service answers who asked and takes its agents along; both users consented; the peer knows what is pressed, cursor and keys come back |
| `mux` | W = 1, burst 1, two lanes, wire of one packet, both directions, a stalled clipboard reader, a lane that is closed | EndAfterData, ClipboardNotStarved, ImplementsCredit, ServedLanesProgress | every step is one of MuxCredit or none; the end comes after all data; the clipboard sends within a burst; control delivers everything next to a stalled lane |
| `clipboard_path` | three scenarios: both users change a policy while a secondary connection comes; it comes and breaks; both ends change capabilities and one restarts input | SessionSurvives, ImplementsHandover | no crossing is an error that ends the session; every turn is a step of RouteHandover |
| `clipboard_path_settles` | one user changes a policy, the connection comes and goes | Settles | the path settles and is on an allowed carrier |
| `delivery` | 2 payloads, 2 paths, 2 attempts, mailbox of 1, off and on, 1 change of permission | ConfirmedIsApplied, NewestIsKept, Settles | delivery is honest, ordered, keeps the newest, and ends |
| `hub` | queue of 2, rate of 2; a content read as it is, one read as another or not at all (`Partly`); three payloads in one session, or two overlapping sessions, or a copy of the user's, or a switch of the permission | NoEcho, ConfirmedIsOnClipboard, Answered | receipts are honest and given; no echo of what is read back as written |
| `programs` | 2 runs, 3 commands, 1 question; 2 clients, 4 taps; 7 targets with up to 2 commands, changes, moves and sessions; 3 devices, 2 sessions, 3 instances, 3 pairings, 1 command | OneSession, ScreenIsTrue, PhoneIsTrue, ReservationIsHeld, ModeReachesPeer, LiveSessionStays, HolderIsTold | late events of an ended session or client change nothing that is shown; settings reach the peer, and a client is where it was wanted and trusts; no reservation leaks, no holder is displaced untold by a promise that still rests on something |
| `peers` | 1 fast retry, 2 failures, 3 troubles; 3 attempts to bind, 5 mishaps; 1 key, queues of 2, 2 generations; six scenarios of paths | EndsAgree, PathsAgree, KeysReleased, PathsSettle, Reunited | two devices agree on session, keys and paths; no slot is lost; what was lost comes back; no key stays down |
| `desktop` | 2 of versions, downloads, handovers, clicks and starts; 2 peers, 3 saves, 2 crashes; 3 calls, queue of 1; 2 applications, 1 copy; 2 platforms, 2 motions, 2 strokes, a layout change, a fault; two desks of 2 displays, 3 moves or presses, 2 crossings, a game, secure desktop or hotkey | NoReinstall, NothingForgotten, ConfirmedIsWhole, EventsInOrder, MouseIsTrue, AgentSettles | no old package is installed; a crash loses nothing; what is confirmed is whole; clicks land where the pointer is; motion is true; the pointers stay on their desks, lose no motion and come back; nobody is left behind |
| `audio` | blocks of 2 + 1, numbers mod 16, replay window 4, four blocks across the wrap-around; queues and rings of 1 to 3, 2 devices | SoundIsTrue, SoundGoesOn, LinkEnds | frames in order once each; no block waits for ever; a new device plays nothing old; every thread ends |

`EndsAgree` is SessionAgreed, KeysAgree and SlotHasOwner; `Reunited` is ComesBack and
Rejoins; `EventsInOrder` is ButtonAtCursor and RightRuntime; `AgentSettles` is
LoneAgentLeaves and CallersAnswered; `MouseIsTrue` is HooksAreTrue of WindowsHooks and
PointerIsTrue of Pointer; `SoundIsTrue` is FramesInOrder, FreshSound and WholeFrames;
`LinkEnds` is PlaybackEnds and CaptureEnds; `DiscoveryIsTrue`, `ServiceIsTrue` and
`AuthorizationIsTrue` join the four named formulas before them, as does `MacIsTrue`. Each of them is about parts
that run alone, so that the conjunction says no less than its parts.

Each bound is the smallest at which the interesting case occurs, and then one
more where the state space allows: a second payload to replace a first while it is
written or applied; two paths so that attempts start over; a queue that can be full; a
window of one, so that a sender waits for every credit and two fragments fill a lane whose
reader stalls (the proofs hold for every window); two switches so that the messages of the
first meet the second; a third device so that a stand-in can be promoted while another
holds the slot; a third payload so that a source reaches its rate; a second start and a second
installer, so that what an earlier one left is met; two crashes, so that the second meets the
files of the first; three attempts, so that the two ends may hold different ones while a third
is made; four blocks around the last sequence number, so that old and new numbers compare both
ways. `Scenarios`, `Budgets`, `Situations`, `Encounters`, `MacBeginnings`, `Openings` and `Beginnings` are alternative
initial budgets of changes, so that one run covers several small worlds instead of their much
larger product; the MC modules name them. In `protocols`, a loss in RouteHandover is a step of
its own and of one message or frame (`SwitchesNext`): a loss can always be put off, and several
are one after another, so that the reachable states are the same.

Runs that show a disagreement with what the repository says of itself:

| Run | Property | What happens |
|---|---|---|
| `clipboard_path_stranded` | NoStrandedPath | both users change policies; the client leaves a committed path in silence (clipboard_route.rs:63), the host never offers again |
| `trust_forgotten` | PairedIsKept | the supervisor revokes one device while a session of another is on; its list, loaded at the start of the program, replaces the one the session has saved |

Other disagreements are stated as formulas in their modules, each checked once and violated,
without a run of their own; `PROJECT.json` quotes the line each contradicts:

| Module | Formula | What happens |
|---|---|---|
| ActiveSlot | OneFullSession | `reserve` overwrites a reservation (active_slot.rs:78); both sessions run in full |
| HostSessions | HolderAlwaysTold | a preference or wait taken back between `reserve` and `claim`: the holder is displaced untold (active_slot.rs:107) |
| ClipboardHub | FailureIsNotShared, NothingReturns | a payload whose application failed is broadcast; what the system gives back altered is passed on as a copy of the user |
| AgentHandshake | GivenUpAgentLeaves | an agent reported to a caller that has just timed out stays, held by nobody (client.rs:98 against 839) |
| InputControl | KeysAlwaysAgree | a key that changes while capture starts is not seen |
| InputControl | KeyboardActs | a Deactivate dropped by a full queue leaves the other side in control |
| Reconnect | TrustedNeedsNoPin | a trusted client may be asked for a PIN while the host still has its session |
| Supervisor | PendingClears | a setting that takes no effect stays "pending" |
| MobileClient | RevokedMeansRemoved | a list read before a pairing is sent after it |
| ClientSession | NothingEverRefused | a mode changed while a question over Bluetooth waits is announced in the generation of the offer (client.rs:386, 1011); the desktop ends the session it has just authorized |
| ConfigFiles | RevokedStaysOut | a session's copy brings a revoked device back |
| Updates | ProgramLeaves (NoSecondDownload, OnlyVerified) | a check during the handover overwrites the phase, and the program stays |
| OsClipboard | CopyIsPassedOn, EchoIsHeld, FilesAreThere | a stale suppression swallows a copy; a renamed twin is echoed; pruning takes files on the clipboard |
| FunctionPaths | NoStrandedInput, NoStrandedAudio, SessionOutlivesBond | a path that would be allowed is not taken; a broken secondary lease ends the session |
| WindowsHooks | Listening, ReturnsToEdge, NothingHeld | hooks taken off by an older platform; a move between cursor and capture; a held key unseen |
| Pointer | PrimaryIsForSecure, SecureStays | without the agent, Windows keeps a receiver's pointer on the primary display from the beginning (runtime.rs:1230); on the secure desktop it still returns |
| Pointer | JumpZoneIsOutermost, FarIsNear, ButtonsWait | the zone has no outer bound (geometry.rs:97); a point reported beyond the edge enters at the top; a button passes the motion gathered before it |
| Discovery | FindsItsHost, UpdatesKeepSessions | a renamed host is not found again; a failed announcement ends the host |
| InputService | RepairWorks, AsksOnce | the path is compared after it was changed; two threads may both ask |
| MacInput | ModifiersAgree | of two held keys of one modifier, the first let go of is reported as down (macos/mod.rs:983); the peer keeps it |
| BluetoothAuth | OnlyRefusalIsFinal | a connection that breaks during authentication ends the reconnection |

The models also have behaviours no property forbids, because the code promises nothing
definite about them. They are worth a maintainer's look:

- A device that reconnects while its old session closes is not granted the slot it still
  holds (active_slot.rs:75); the new session replaces the old one without
  `on_session_end`, so the slot stays with a session that only has the clipboard.
- `note_remote_payload` arms a suppression, but the echo it is meant for is dropped
  earlier as a duplicate (clipboard_hub.rs:409). The suppression can swallow the user's own
  later copy of the same content.
- Subscriptions are by device. A replaced session that outlives its three seconds
  unsubscribes its successor (clipboard_hub.rs:336).
- Moves queued before a warp are discarded with it, and a key held when capture starts stays
  down locally until it is pressed again (cursor_capture.rs, native.rs).
- On macOS the hot key's own key is never relayed, so that it stays down at the peer when it was
  pressed before its modifiers; a `set_capture(false)` that fails is not tried again, since the
  flag is off; a failed `set_capture(true)` shows the cursor once although a keeper of the
  capture before may have hidden it again; Secure Input that begins and ends between two
  polls leaves the tap stopped; a start that gives up after three seconds leaves its tap
  behind; `refresh_mac_pressed_state` drops buttons beyond the third (macos/mod.rs:531) that its
  comment says are kept.
- When trust fails on the LAN the client asks for the PIN of whoever answers then, which need
  not be the device of its target (`_target`, client.rs:667, is not used), and its target keeps
  the old identity.
- With any usable trusted device, a Bluetooth target given by address is tried only as one of
  those and never falls back to the interactive authorization.

### Fairness

No run assumes strong fairness, no user is ever fair, and nothing that breaks or fails by itself
is fair. What is weakly fair is what some scheduler runs:

- `Mux`: every task of the runtime is polled, so the scheduler, receive and delivery
  tasks and the readers listed in `Served` are weakly fair; other readers and writers are not.
- `ClipboardPath`: every arm that stays ready is taken and clocks go on; written out
  as `[]<>~ready \/ []<><<arm>>`, which is weak fairness with its condition stated.
- `ClipboardDelivery`: worker, publisher's second half, network, receiver and timer.
  `ClipboardHub`: the hub's task, the system's answer and the clock.
- `Supervisor`: the loop (a session told to stop stops, a report is heard, a question answered
  by the loop) and the session that reads its watched modes; the user's commands are not.
  `MobileClient`: the client tasks and the coroutines under way.
- `Reconnect`: the driver, the host's task and its timers. `LinkBinding`: both candidate loops,
  admission and every timer. `InputControl`: both loops and the sender's clocks.
  `FunctionPaths`: a loop that has something to do goes on (`MustGoOn`).
- `Updates`, `AgentHandshake`, `InputAgent`: the threads and their time limits.
- `AudioStream`: the receive timeout. `AudioPlayback`, `AudioCapture`: the worker threads, the
  supervisor, and a stage or device that was told to stop.
- `HostSessions`, `ConfigFiles`, `OsClipboard`, `WindowsHooks`, `Discovery`, `InputService`,
  `BluetoothAuth`, `MacInput`, `ClientSession` state only safety: their loops wait for locks a person with a PIN may hold,
  for the user, or for the operating system.

## 4. Proofs

The proofs are about the specification of each part, for every value of its constants. Each
takes the same three steps: the initial states satisfy an inductive invariant; every action
keeps it (one lemma or step per action, or per group of actions that change the same state);
it implies the property. Every inductive invariant was checked by TLC on the instance of the
run before it was proved, and begins with types of the variables exact enough for the provers.

| Module | Theorems (what they state) | Inductive beside the types |
|---|---|---|
| ProtocolsProofs | CreditsConserved (CreditConserved), NeverOverrun (NoOverrun), EventsRoom (EventsNeverBlock) | a flow's seven counters add up to W |
| | DataNeverOvertakes (NoCommitRace), SpeakersHeard (SpeakersAreHeard), NoResumption (NeverResumed) | what each message promises, the order of switches |
| | HostsAreFound (DiscoveryIsTrue) | Follows |
| | ServiceKeepsFaith (ServiceIsTrue) | PipeHasClient, StoppedIsIdle, RestartRemembers, AnswersArePast |
| | AuthorizationHolds (AuthorizationIsTrue) | JoinerGood, AcceptorGood, TableGood, LinksGood |
| MuxProofs | CreditIsImplemented (ImplementsCredit), EndFollowsData (EndAfterData), ClipboardGoesOn (ClipboardNotStarved), NeverFailing (NeverFails) | BurstsAreShort, PipesFit, FlowInv |
| ClipboardDeliveryProofs | ConfirmedApplied (ConfirmedIsApplied), NewestKept (NewestIsKept), OnlyForward (NeverBackwards) | Honest, HandIsNewer, InOrder |
| ProgramsProofs | OneSessionShown (OneSession), ScreenShowsTruth (ScreenIsTrue) | GenerationHasOne |
| | ReservationsHeld (ReservationIsHeld), HolderHasSession (NoGhostHolder), LiveStays (LiveSessionStays) | FinishedIsOver, the limit of the table |
| | PhoneStaysTrue (PhoneIsTrue) | SidesAgree, OrdersCarry, PeerIsRight |
| PeersProofs | DevicesAgree (EndsAgree), from SlotsAreOwned (SlotHasOwner), HeldKeysAgree (KeysAgree), SessionsAgree (SessionAgreed) | SlotIsHeld; InGeneration, KeysFollow; SessionInv |
| ClipboardHub | NothingEchoes (NoEcho), ConfirmedIsThere (ConfirmedIsOnClipboard) | EchoIsKnown, MayApply |
| DesktopProofs | UpdatesGoForward (NoReinstall), StartsAsItWas (NothingForgotten), ConfirmedStaysWhole (ConfirmedIsWhole) | NothingOld, NothingOutlives; WindowGoesFirst, DiskAgrees, MemoryAgrees, StartIsWhole; NumbersGrow, WorkIsWhole |
| | KeysStayTrue, MacStaysTrue (MacIsTrue) | LocalInv, InjectedInv, ActiveInv, HeardInv, CursorInv |
| | PointersStayOnDesk (PointersOnDesk of PointerIsTrue) | PointersOnDesk |
| InputAgentProofs | EventsStayInOrder (EventsInOrder) | OrderFits, PipesFit, RuntimeFits; PointsFit, LastFits, OwedFits |

Beside these each module proves the types of its part (`TypeCorrect`, `LinkTypeCorrect`, ...).
The arguments, in a few words:

`ProtocolsProofs`, the credits, every W. Every action moves one credit, so that the sum of a flow's
counters stays W; NoOverrun follows, and EventsNeverBlock is a sum over six flows, each at
most W.

`MuxProofs`, every set of lanes, window, burst, length of the wire and load. `FlowInv` says of
one flow that its places add up (`FlowBalanced`), that what was written is under way or read
(`FlowComplete`), and that an end is the last of its lane wherever it is (`EndIsLast`).
A place counts packets in queues and on the wire; that an Append adds one to the count and a
Tail takes one away is shown by bijections between sets of positions, without induction over
sequences. That no end ever fails needs the balance: a queue is full, or a window
exceeded, only with more credits than W. The refinement has a lemma per action: which of
MuxCredit's steps it is, or that it moves nothing.

`ProtocolsProofs`, the switch, every bound on switches. That data finds its receiver accepting depends on
what every message under way promises. The invariant says, for each kind of message and for a
speaker and a frame, what its existence implies about both ends (a Commit for g: the
host, if still on g, accepts g; a Committed: both do), plus the order of switch numbers. The
numbers only grow and an end that leaves a switch never returns, so a promise once true
stays true. With `ImplementsHandover`, which TLC checks, it bears on the code's handlers.

`ProtocolsProofs`, discovery, every budget of changes and any two lifetimes of a listing. While a
host is up its announcement differs from what the user wants only in what it has not seen yet
(`Follows`); the two parts about the list are inductive with the types. A listing is a set and
a snapshot the choice of one per host, so that the steps are about sets.

`ProtocolsProofs`, the service, any situations it is found in. The pipe of a stopped service has
no client (`StoppedIsIdle`, `PipeHasClient`). Processes are numbered: a restart remembers
the number it stops and ends well only once a later one was started (`RestartRemembers`),
and an answer names a process that was (`AnswersArePast`).

`ProtocolsProofs`, Bluetooth authorization, every set of connections and every situation two
devices meet in. `LinksGood` says of a message under way what its existence proves of its
writer: a confirmation carries what the joiner's user answered, a decision what the host's did,
and a ready or bound on an open connection is in the host's table. Each end answers once on a
connection (`JoinerGood`, `AcceptorGood`) and answers are never taken back, so consent once
given on one connection stays (`ConsentStays`) whatever either end does later. `TableGood` ties
the grounds a completion was admitted on to the way its connection was made, which is why a
temporary identity never begins a primary session. A step of one end touches one connection
in a way the other end's invariant allows (`JoinerTouches`, `HostTouches`), so each action is
proved against its own end only.

`ClipboardDeliveryProofs`, every number of attempts, size of mailbox and bound. Every receipt that
says ok is for a payload no newer than what is applied (`Honest`), and what the receiver has in
hand is newer (`HandIsNewer`). `InOrder` is the order of the places a payload passes
(confirmed, outbox, hand, slot): the newest is only replaced by itself, so that emptying
the slot when it still holds what was read, and confirming what the outbox holds, drop
nothing newer.

`ProgramsProofs`, the host, every set of clients, also an infinite one, and every limit. A device that
finds no room has no session, so that turning it away forgets nobody. A session whose end is in
the queue runs no more (`FinishedIsOver`), so that an instance in the table that is alive
is never the one reported. That the oldest trusted session exists follows from the
well-foundedness of `<`.

`ProgramsProofs`, supervisor and mobile client, every number of runs, clients and questions. Whatever would show something of
a session compares its number first, so that OneSession is inductive with the types.
`GenerationHasOne`: a generation of the engine belongs to one client, and the handle it holds
is that of the current one; hence a coroutine or callback that finds its generation
current speaks for the client on the screen.

`ProgramsProofs`, the client of the core library, every bound on wishes and changes. For each direction
`ModeWay` and `LinkWay` relate what one end says of itself, what the other end knows and the
frames between them: generations only grow, and the last frame under way carries the newest
(`SidesAgree`). A session the desktop begins late, after generations have passed, is a state
of its own in which the next frame cannot be taken. `OrdersCarry`: of the orders the
foreign interface has given, the last of its kind carries the wish; `PeerIsRight`: what the
screen says of the peer is of the session that runs.

`PeersProofs`, every number of attempts and mishaps. `SlotIsHeld` names who gives a taken slot
back at each stage: the binding under way, the mailbox of the session, the session; each step
passes the slot on or empties it. The keys, any set of them, any queues and any number of
activations: `KeysFollow` says who knows best of a key, for each key that did not change while
capture began: the last report of the hooks that is not forwarded; where there is none, the last order of this
generation that is under way; where there is none of either, the activation or else what the
receiver holds. Each step hands that knowledge on: forwarding turns a report into an order behind
all others, and obeying makes an order what is held. `InGeneration` keeps older activations apart: of the
present generation there is one activation, and everything of that generation is behind it. The
session: `SessionInv`, a decision for the client is under way on an open connection only while its
host has the session up, since whatever takes the session away closes that connection, and on a new
one nothing was said yet. DevicesAgree joins the three for the specification the run checks.

`ClipboardHub`, any payloads, any `ReadsAs`, sessions, rate and length of the queue; its proofs stand
at the end of the module. `EchoIsKnown`: what the hub itself wrote, unaltered and wherever it is on its
way back (the system, the queue of the watcher, the slot), has a signature the hub still remembers, as
signatures are forgotten only when nothing is on its way. Of what comes back altered nothing is proved. `MayApply`: what is being applied was taken within the rate of its device.

`DesktopProofs`. Updates: what is downloaded, offered, marked or being installed is newer than the
program that will start the installer (`NothingOld`), and no installer outlives the marker
that names it (`NothingOutlives`). Configuration, any set of devices: the order in which a start
writes its files (`WindowGoesFirst`) keeps what is still only in the old file reachable at every
point a crash can come (`DiskAgrees`, `MemoryAgrees`, `StartIsWhole`). System clipboard, any
files, sizes and limits: a file the cache has confirmed stays until the next copy, as
pruning takes only older numbers (`NumbersGrow`) and an application stores before it sets
(`WorkIsWhole`). `LeastExists`, first-order induction over the naturals from the library, finds
the oldest entry a pruning removes.

`DesktopProofs`, macOS input, every set of keys and buttons and every number of platforms. The
callback of an event tap runs while the loop sleeps and while it changes platforms.
`HeardInv` follows a report from the tap to the peer: what is on its way is about a thing whose state
the tap has noted, and from the snapshot that begins a platform on, the peer either knows
what is so or mail under way tells it. `ActiveInv`: only the platform of the loop captures;
`InjectedInv`: what is held down for the peer is in the platform's record or its
release was refused by the system; `LocalInv`: a modifier that went down here goes up here.
These hold whatever the system refuses (`KeysStayTrue`). That the cursor is shown again is
a matter of counting: `CursorInv` weighs the depth of hiding against the calls that may still
fail, and a release shows the cursor once and then up to eight times more. So `MacStaysTrue`
has the hypothesis that at most seven calls fail (`FewMistakes`); with nine TLC finds the
cursor left hidden, as the code's loop gives up.

`DesktopProofs`, the pointer, any two desks, edge, moves and bounds. Whatever moves a pointer
ends in one of three ways, and each ends on a display: a move is cut off to the display nearest to it
(`MovedIsOnDesk`), an entry is a pixel of an exposed edge, moved in by the inset, which does
not reach through its display (`EntryIsOnDesk`), and the primary display is one of the desk
(`ClampedOnDesk`). So PointersOnDesk is inductive with the types, which follow motion and
activations through both queues.

`InputAgentProofs`, every number of calls, moves and late answers, every limit of the queue. The
requests in the pipe, what the writer has in its hands and the queue are read as one sequence,
the line. Every step keeps its order (`SameOrder`): the writer hands on what it takes, the agent
takes the first, a call joins at the end with a number higher than all before it, and only a move
is put in or left out elsewhere. `OrderFits` says on that line that a button finds the runtime of
its session, or one left by a later start that failed for its caller: before the button there is
no stop, and no start but one that failed. `RuntimeFits`: a start that was answered well
has made the runtime; `PipesFit`: an answer is of the call it is awaited for. Hence
RightRuntime. The cursor is a promise about a place in the line (`Reached`): there the agent's
cursor has reached the aim, because it is there already, or a move before the place brings it,
or the latest move, not in the line yet, will be written before it. `OwedFits` says so of every
button under way, `LastFits` of the place a new one would take, `PointsFit` that positions go
forward along the line. Hence ButtonAtCursor.

Assumed of the constants are only the named assumptions of the modules (`WAssumption`,
`MuxAssumption`, `MaxEpochAssumption`, `DeliveryAssumption`, `HostAssumption`,
`SupervisorAssumption`, `MobileAssumption`, `LinkAssumption`, `UpdatesAssumption`,
`ConfigAssumption`, `OsAssumption`, `DiscoveryAssumption`, `ServiceAssumption`,
`BluetoothAuthAssumption`, `ClientSessionAssumption`, `MacAssumption`, `HubAssumption`,
`InputAssumption`, `AgentAssumption`, `PointerAssumption`): that bounds are numbers, a capacity is positive,
a queue has the room the code gives it, and a display is wider than the inset of eight pixels. One theorem has a hypothesis of its own, `FewMistakes`.

Properties that are proved and listed by no run, because a stronger or an equivalent one is:
EventsNeverBlock, NoOverrun, SpeakersAreHeard, NeverResumed, NeverBackwards, NoGhostHolder,
NeverFails, SlotHasOwner, KeysAgree, SessionAgreed. They name single promises of the code.

Only model-checked, and why:

- liveness (`Settles`, `ServedLanesProgress`, `Answered`, `ModeReachesPeer`, `KeysReleased`,
  `PathsSettle`, `Reunited`, `AgentSettles`, `SoundGoesOn`, `LinkEnds`): fairness and ENABLED are out of the prover's reach;
- `SoundIsTrue`: AudioStream uses a RECURSIVE operator for the delivery of buffered packets;
- `ImplementsHandover` and `SessionSurvives`: ClipboardPath is the product of two session loops,
  two queues and two carriers, and its invariant would restate RouteHandover's for the code's
  variables;
- `PathsAgree`: FunctionPaths, whose loops exchange plans, offers and replies over four phases and choose
  their carrier with CHOOSE; of `MouseIsTrue`, the hooks of Windows (HooksAreTrue), whose
  geometry the run gives by a table of displays, and of the pointer MotionKept, a sum over the
  messages of three queues, with ButtonsInPlace which rests on it, and ComesBack, arithmetic over any two
  edges; `HolderIsTold`: it speaks of a history, two steps of the host apart.

## 5. Not modelled, and why

Cryptography beyond its symbols, wire formats, codecs, scrolling, key tables and injection: data
without control, or I/O. Time is modelled by what it lets happen, never as a quantity. The
blocking bridge, logging, the desktop shell and the build are not modelled; the bridge and log
retention are planned. Of generation lanes and frames only what their users need is in the
modules; the backend of Linux for input, of macOS for audio, and injection on Windows, and the native
Bluetooth providers are not. (Seen while reading: `native/bluetooth.m` keys its table of
connections by file descriptor (279, 395), so that a late close may remove the registration of
a new connection with the same number.) In ClipboardHub: `UpdateOptions`, the outbound queue of
a session. In ClipboardDelivery: an inbox that sees a sequence number with another identity,
which a correct sender cannot produce. In HostSessions: the shutdown of the whole host, the
second in which an accepted connection waits for its first byte; the throttle of PINs is in
Reconnect. Of the mobile client, the clipboard arms drive the same route and sender as the
desktop's and are modelled there.

## 6. Plan

Order: what decides whether a user's data arrives first, then who may act, then the rest.

1. Done: multiplexer, route switch, clipboard route, delivery, host and slot, hub.
2. Done: binding of links, paths of input and audio, input control, reconnection, supervisor,
   mobile client.
3. Done: updates, configuration, system clipboard, Windows agent, hooks and service, macOS
   input, mouse pointer, sound, discovery, Bluetooth authorization.
4. Done: theorems on the abstract protocols, the multiplexer and its refinement, delivery,
   host, supervisor, mobile client, binding, updates, configuration, system clipboard,
   discovery, Windows service, Bluetooth authorization, client of the core library, macOS input,
   clipboard hub, input control, reconnection, calls of the Windows agent, mouse pointer.
5. Next: proofs for the properties of the last point of section 4, in the order hooks, paths; the
   refinement of ClipboardPath last.
6. Open: the bridge, log retention, the capability acknowledgement timeout in ClipboardPath.
