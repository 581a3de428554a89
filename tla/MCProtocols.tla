---------------------------- MODULE MCProtocols -----------------------------
(***************************************************************************)
(* Protocols that stand by themselves, each in behaviours of its own: how  *)
(* a host is announced and found; the service of Windows that starts input *)
(* agents; how two devices authorize each other over Bluetooth; how input  *)
(* is taken and given on macOS; the switches of a functional channel, with *)
(* every loss and repetition of their messages and data; and, when nothing *)
(* is left of them, the credit of the six flows of a multiplexed           *)
(* connection, one unit each, so that every flow may be at its limit at    *)
(* the same time.                                                          *)
(***************************************************************************)
EXTENDS MuxCredit, RouteHandover, Discovery, InputService, BluetoothAuth, MacInput

\* Bounds of Discovery: what may happen how often, in the mixtures that meet its hazards.
Budget(lives, settings, tellings, asks, renewals, failures, respawns, ticks, searches) ==
    [lives |-> lives, settings |-> settings, tellings |-> tellings, asks |-> asks,
     renewals |-> renewals, failures |-> failures, respawns |-> respawns, ticks |-> ticks,
     searches |-> searches]

Nothing == Budget(0, 0, 0, 0, 0, 0, 0, 0, 0)

Mixtures == {Nothing,
             Budget(1, 2, 0, 0, 1, 1, 0, 0, 0), \* changes of an announcement while it fails
             Budget(2, 0, 1, 1, 1, 0, 0, 3, 0), \* a restart, both sources, and their expiry
             Budget(1, 0, 2, 1, 1, 0, 0, 3, 0), \* told again and again until all is forgotten
             Budget(2, 0, 2, 0, 0, 0, 0, 1, 0), \* both instances are heard
             Budget(2, 0, 1, 1, 1, 1, 1, 0, 1), \* the list is started afresh
             Budget(2, 1, 0, 0, 1, 0, 0, 0, 2)} \* a client that searches

\* What the program finds of its service: the path registered, whether it runs, whether an older
\* version, whether an update has just landed, whether one user has both sessions; and bounds.
Finds(path, running, stale, landed, shared, bounds) ==
    [path |-> path, running |-> running, stale |-> stale, landed |-> landed, shared |-> shared,
     spare |-> [requests |-> bounds[1], uninstalls |-> bounds[2], switches |-> bounds[3],
                faults |-> bounds[4], timeouts |-> bounds[5]]]

NoWindows == Finds("none", FALSE, FALSE, FALSE, FALSE, <<0, 0, 0, 0, 0>>)

Found0 == {NoWindows,
           Finds("none", FALSE, FALSE, FALSE, FALSE, <<1, 1, 0, 1, 0>>),
           Finds("here", TRUE, TRUE, TRUE, FALSE, <<1, 1, 0, 0, 1>>),
           Finds("here", TRUE, TRUE, FALSE, FALSE, <<1, 0, 0, 1, 1>>),
           Finds("here", TRUE, FALSE, FALSE, TRUE, <<2, 0, 1, 1, 0>>),
           Finds("there", TRUE, FALSE, FALSE, FALSE, <<1, 0, 0, 1, 1>>),
           Finds("here", FALSE, FALSE, FALSE, FALSE, <<2, 1, 0, 1, 0>>)}

\* Two devices: who wants trusted devices only, whose user is absent, whether the joiner trusts
\* another one and knows the identity of this one; a session on the LAN; the keys they know; and
\* the bound of what goes wrong.
Meet(only, absent, another, named, both, joins, hosts, bound) ==
    [only |-> only, absent |-> absent, another |-> another, named |-> named, lan |-> both,
     knew |-> [p \in Parties |-> IF p = Joiner THEN joins ELSE hosts], faults |-> bound]

\* A joiner that wants trusted devices only and knows none does nothing.
Strangers == Meet({Joiner}, {}, FALSE, FALSE, FALSE, NoKey, NoKey, 0)

Situations0 == {Strangers,
                Meet({}, {}, FALSE, FALSE, FALSE, NoKey, NoKey, 2),
                Meet({}, {}, FALSE, FALSE, FALSE, Host, Joiner, 3),
                Meet({Joiner}, {Host}, TRUE, FALSE, FALSE, Host, "old", 1),
                Meet({Host}, {Joiner}, TRUE, TRUE, FALSE, NoKey, Joiner, 1),
                Meet({}, {}, TRUE, FALSE, FALSE, NoKey, NoKey, 1),
                Meet({}, {}, TRUE, TRUE, FALSE, "old", "old", 1),
                Meet({}, {}, FALSE, FALSE, TRUE, NoKey, NoKey, 3),
                Meet({}, {Host}, FALSE, FALSE, TRUE, Host, Joiner, 3)}

\* Three strokes of the keys; one capture after another, a keeper of the first still there and a
\* call that fails; mishaps; an option that blocks; and the receiver.
MacStart(first, role, blocks, strokes, turns, mishaps, mistakes) ==
    [first |-> first, role |-> role, blocks |-> blocks,
     spare |-> [strokes |-> strokes, turns |-> turns, mishaps |-> mishaps, faults |-> mistakes]]
MacBeginnings ==
    {MacStart(2, "send", FALSE, 3, 1, 0, 0), MacStart(2, "send", FALSE, 1, 2, 0, 1),
     MacStart(1, "send", FALSE, 0, 2, 1, 1), MacStart(2, "send", FALSE, 1, 1, 1, 0),
     MacStart(1, "send", TRUE, 1, 1, 0, 0), MacStart(2, "receive", FALSE, 2, 1, 0, 1),
     MacStart(1, "receive", FALSE, 0, 1, 1, 1)}

\* A machine without macOS.
MacOver ==
    /\ mac = [i \in Macs |-> NoMac] /\ keepers = <<>> /\ tapped = <<>> /\ mail = <<>> /\ secure = FALSE
    /\ pointer0 = [hides |-> 0, forced |-> FALSE, coupled |-> TRUE, failed |-> FALSE]
    /\ board0 = [down |-> {}, local |-> {}, held |-> {}, unheard |-> {}, blurred |-> {}, lost |-> {}]
    /\ side = [NewSide(MaxMacs, "send", FALSE) EXCEPT !.at = "gone"]
    /\ macSpare = [strokes |-> 0, turns |-> 0, mishaps |-> 0, faults |-> 0]

AuthOver == faults = 0 /\ policy.only = {Joiner} /\ Candidates = {}

DiscoveryOver ==
    /\ left = Nothing /\ station.life = 0 /\ station.want.label = NoLabel
    /\ ~list.dirty /\ screen.mail = <<>>

\* A machine without Windows, where nothing ever happens to the service.
ServiceOver ==
    /\ scm.path = "none" /\ proc.gen = 0 /\ spare = NoWindows.spare
    /\ ~app.attempted /\ ~app.seen /\ ~app.removed
    /\ request = [r \in Requesters |-> NoRequest] /\ elevated = [a \in Askers |-> NoCommand]

SwitchesOver ==
    /\ highest = [s \in Ends |-> MaxEpoch]
    /\ current = Nowhere /\ listen = Nowhere /\ speak = Nowhere
    /\ messages = {} /\ frames = {}

\* The switches, with a loss as a step of its own, one message or frame at a time: a loss can
\* always be put off, and several are one after the other, so that the states are the same.
SwitchesNext ==
    \/ HandoverNext /\ messages \subseteq messages' /\ frames \subseteq frames'
    \/ Lose /\ Cardinality(messages \ messages') + Cardinality(frames \ frames') = 1

Alone == DiscoveryOver /\ ServiceOver /\ AuthOver
Over == Alone /\ MacOver

ProtocolsInit ==
    /\ HandoverInit /\ Init /\ DiscoveryInit /\ ServiceInit /\ AuthInit /\ (MacInit \/ MacOver)
    /\ left = Nothing \/ spare = NoWindows.spare
    /\ AuthOver \/ (left = Nothing /\ ServiceOver)
    /\ MacOver \/ (left = Nothing /\ spare = NoWindows.spare /\ AuthOver)

ProtocolsNext ==
    \/ DiscoveryNext /\ UNCHANGED <<vars, handoverVars, serviceVars, authVars, macVars>>
    \/ DiscoveryOver /\ ServiceNext /\ UNCHANGED <<vars, handoverVars, discoveryVars, authVars, macVars>>
    \/ DiscoveryOver /\ ServiceOver /\ AuthNext
       /\ UNCHANGED <<vars, handoverVars, discoveryVars, serviceVars, macVars>>
    \/ Alone /\ MacNext /\ UNCHANGED <<vars, handoverVars, discoveryVars, serviceVars, authVars>>
    \/ Over /\ SwitchesNext /\ UNCHANGED <<vars, discoveryVars, serviceVars, authVars, macVars>>
    \/ Over /\ SwitchesOver /\ Next
       /\ UNCHANGED <<handoverVars, discoveryVars, serviceVars, authVars, macVars>>

ProtocolsSpec ==
    ProtocolsInit
    /\ [][ProtocolsNext]_<<vars, handoverVars, discoveryVars, serviceVars, authVars, macVars>>
=============================================================================
