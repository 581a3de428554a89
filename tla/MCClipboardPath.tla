-------------------------- MODULE MCClipboardPath --------------------------
(***************************************************************************)
(* Small sessions of ClipboardPath: the policies they start with, who may  *)
(* change what, and how often.                                             *)
(***************************************************************************)
EXTENDS ClipboardPath

Changes(policy, modes, restart, bonds) ==
    [policy |-> policy, modes |-> modes, restart |-> restart, bonds |-> bonds]

Scenario(hostPolicy, clientPolicy, host, client) ==
    [start |-> [host |-> hostPolicy, client |-> clientPolicy],
     limits |-> [host |-> host, client |-> client]]

\* A secondary connection both would rather use comes up and breaks.
ConnectionBreaks ==
    Scenario("PreferBluetooth", "PreferBluetooth", Changes(0, 0, 0, 1), Changes(0, 0, 0, 1))

\* The host restarts its input, and the client switches its clipboard off and on.
CrossingCapabilities == Scenario("Auto", "Auto", Changes(0, 1, 1, 0), Changes(0, 2, 0, 0))

\* Both users change their policies while a secondary connection comes up.
BothPolicies == Scenario("PreferBluetooth", "Auto", Changes(1, 0, 0, 1), Changes(1, 0, 0, 0))

\* Only the host changes anything by itself; the connection comes and goes.
HostChanges == Scenario("Auto", "Auto", Changes(1, 0, 0, 1), Changes(0, 0, 0, 1))

Crossings == {ConnectionBreaks, CrossingCapabilities, BothPolicies}
OneSided == {HostChanges}
Stranding == {BothPolicies}
=============================================================================
