------------------------------ MODULE MCPeers ------------------------------
(***************************************************************************)
(* What two devices do with each other apart from the clipboard: they find *)
(* each other again, bind a second connection, agree on the paths of input *)
(* and audio, and one controls the other.  The four share no state; a      *)
(* behaviour is one of one of them, with the other three over, so that one *)
(* run checks them all at the price of their sum.                          *)
(***************************************************************************)
EXTENDS Reconnect, LinkBinding, InputControl, FunctionPaths

Changes(modes, options, bonds, faults, resets, turns) ==
    [modes |-> modes, options |-> options, bonds |-> bonds,
     faults |-> faults, resets |-> resets, turns |-> turns]
None == Changes(0, 0, 0, 0, 0, 0)

Scenario(carrier, policy, hostModes, clientModes, hosts, clients) ==
    [primary |-> carrier, policy |-> [s \in Sides |-> policy],
     modes |-> [host |-> hostModes, client |-> clientModes],
     limits |-> [host |-> hosts, client |-> clients]]

Controls(carrier, policy, hosts, clients) == Scenario(carrier, policy, {"control"}, {"obey"}, hosts, clients)
Plays(carrier, hosts, clients) == Scenario(carrier, "LanOnly", {"play"}, {"hear"}, hosts, clients)

\* A better carrier comes while the input options change, comes and breaks, or
\* comes while one side is in control; the user switches the control off and on,
\* resets it, and it fails; audio that fails, and audio beside a LAN that comes and goes.
Paths ==
    {Controls("bluetooth", "Auto", Changes(0, 1, 1, 0, 0, 0), None),
     Controls("lan", "PreferBluetooth", Changes(0, 0, 1, 0, 0, 0), Changes(0, 0, 1, 0, 0, 0)),
     Controls("lan", "PreferBluetooth", Changes(0, 0, 1, 0, 0, 1), None),
     Controls("lan", "PreferBluetooth", Changes(2, 0, 0, 1, 0, 0), Changes(0, 0, 0, 0, 1, 0)),
     Plays("bluetooth", Changes(0, 0, 1, 0, 0, 0), Changes(0, 0, 1, 0, 0, 0)),
     Plays("lan", Changes(0, 1, 0, 1, 0, 0), Changes(0, 1, 0, 1, 0, 0))}

ReconnectOver ==
    /\ setup = [trustedOnly |-> FALSE, query |-> "found", asks |-> FALSE]
    /\ client = [at |-> "told", via |-> "found", direct |-> FALSE, stale |-> FALSE,
                 known |-> FALSE, fast |-> 0]
    /\ conn = Closed /\ host = [task |-> "none", live |-> "none"]
    /\ trust = [client |-> FALSE, host |-> FALSE, stored |-> FALSE]
    /\ failures = 0 /\ troubles = MaxTroubles /\ excuse = FALSE

LinkOver ==
    /\ link = [e \in Ends |-> [open |-> FALSE, slot |-> NoAttempt, pending |-> NoAttempt, expired |-> FALSE]]
    /\ task = [e \in Ends |-> Idle]
    /\ inbox = [e \in Ends |-> NoAttempt] /\ tunnel = [e \in Ends |-> NoAttempt]
    /\ wire = [a \in Attempts |-> Broken] /\ mishaps = MaxMishaps

InputOver ==
    /\ keyboard = {} /\ hooked = <<>>
    /\ sender = [SenderStart(FALSE) EXCEPT !.up = FALSE]
    /\ receiver = [ReceiverStart EXCEPT !.up = FALSE]
    /\ toReceiver = <<>> /\ toSender = <<>> /\ cut = FALSE /\ blocking = FALSE
    /\ missed = {} /\ lost = FALSE
    /\ tally = [toggles |-> MaxToggles, upsets |-> MaxUpsets, substreams |-> MaxSubstreams]

PathsOver ==
    LET scenario == Plays("lan", None, None)
        ended(s) == [NewLoop(s, scenario) EXCEPT !.bailed = "over"]
    IN /\ loops = [s \in Sides |-> ended(s)]
       /\ mail = [s \in Sides |-> <<>>]
       /\ primary = "lan" /\ bond = [number |-> 0, up |-> FALSE]
       /\ left = scenario.limits /\ upset = FALSE

PeersInit ==
    \/ ReconnectInit /\ LinkOver /\ InputOver /\ PathsOver
    \/ ReconnectOver /\ LinkInit /\ InputOver /\ PathsOver
    \/ ReconnectOver /\ LinkOver /\ InputInit /\ PathsOver
    \/ ReconnectOver /\ LinkOver /\ InputOver /\ PathInit

PeersNext ==
    \/ ReconnectNext /\ UNCHANGED <<linkVars, inputVars, pathVars>>
    \/ LinkNext /\ UNCHANGED <<reconnectVars, inputVars, pathVars>>
    \/ InputNext /\ UNCHANGED <<reconnectVars, linkVars, pathVars>>
    \/ PathNext /\ UNCHANGED <<reconnectVars, linkVars, inputVars>>

peersVars == <<reconnectVars, linkVars, inputVars, pathVars>>

PeersSpec ==
    /\ PeersInit /\ [][PeersNext]_peersVars
    /\ ReconnectFairness /\ LinkFairness /\ InputFairness /\ PathFairness

\* The two devices never disagree on who is in session with whom and on which keys are
\* down, and a connection always has one owner that frees its slot.  (One property for the
\* three, each about its own protocol.)
EndsAgree == SessionAgreed /\ KeysAgree /\ SlotHasOwner

\* What was lost comes back: the session of a client that may do nothing else, and the
\* second connection beside a session that lasts.
Reunited == ComesBack /\ Rejoins
=============================================================================
