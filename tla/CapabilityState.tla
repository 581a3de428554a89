-------------------------- MODULE CapabilityState --------------------------
(***************************************************************************)
(* The capability bookkeeping of one end of a session (capabilities.rs),   *)
(* as operators on a record. A set of capabilities is the set of the       *)
(* directions it switches on, such as {"send", "receive"} for a clipboard  *)
(* in mode Both: intersecting two modes is intersecting the sets.          *)
(***************************************************************************)
EXTENDS Naturals

NewCapability(host, mine, theirs) ==
    [host |-> host, localGeneration |-> 0, remoteGeneration |-> 0,
     local |-> mine, remote |-> theirs, ackGeneration |-> 0, ackLocal |-> mine]

\* The peer has confirmed the latest local update.
IsAcknowledged(c) == c.localGeneration = c.ackGeneration

\* The pair of generations, host's first, that both ends name an epoch by.
EpochOf(c) ==
    IF c.host THEN <<c.localGeneration, c.remoteGeneration>>
    ELSE <<c.remoteGeneration, c.localGeneration>>

\* Until the peer confirms an update only what both versions allow is in force.
EffectiveLocal(c) ==
    IF IsAcknowledged(c) THEN c.local ELSE c.ackLocal \intersect c.local

CurrentEpoch(c, epoch) == EpochOf(c) = epoch /\ IsAcknowledged(c)

\* A deliberate defect: a changed setting keeps the generation.
SetLocalQuietly(c, modes) == [c EXCEPT !.local = modes]

\* A changed setting starts a new generation; an unchanged one does nothing.
SetLocal(c, modes) ==
    IF modes = c.local THEN c
    ELSE [c EXCEPT !.localGeneration = @ + 1, !.local = modes]

\* A task restart starts a new generation with the same capabilities.
BumpLocal(c) == [c EXCEPT !.localGeneration = @ + 1]

\* apply_remote refuses an older generation, or another text of the current one.
RemoteRefused(c, generation, modes) ==
    \/ generation < c.remoteGeneration
    \/ generation = c.remoteGeneration /\ modes # c.remote

ApplyRemote(c, generation, modes) ==
    IF generation = c.remoteGeneration THEN c
    ELSE [c EXCEPT !.remoteGeneration = generation, !.remote = modes]

\* apply_ack refuses the confirmation of an update that was never sent.
AckRefused(c, generation) == generation > c.localGeneration

\* Only the confirmation of the latest update counts.
ApplyAck(c, generation) ==
    IF generation = c.localGeneration
    THEN [c EXCEPT !.ackGeneration = generation, !.ackLocal = c.local]
    ELSE c
=============================================================================
