---------------------------- MODULE ChannelRoute ----------------------------
(***************************************************************************)
(* The choice of a carrier for one function and the four-phase switch of   *)
(* one end (transport/routing.rs), as operators on a record. An end sends  *)
(* on route.send and accepts on route.receive; pending is the switch under *)
(* way. The offers carry the epoch the host numbers its switches with.     *)
(***************************************************************************)
EXTENDS Naturals

Transports == {"lan", "bluetooth"}
Policies == {"Auto", "PreferBluetooth", "LanOnly", "BluetoothOnly"}
Channels == {"Input", "Clipboard", "Audio"}
NoTransport == "none"

Allowed(policy) ==
    CASE policy = "LanOnly" -> {"lan"}
      [] policy = "BluetoothOnly" -> {"bluetooth"}
      [] OTHER -> Transports

Supported(channel) == IF channel = "Audio" THEN {"lan"} ELSE Transports

\* The carriers both policies and both ends allow.
Usable(channel, mine, theirs, available) ==
    Allowed(mine) \intersect Allowed(theirs) \intersect Supported(channel) \intersect available

\* Bluetooth only when both ask for it, else the carrier in use, else LAN first.
ChooseRoute(channel, mine, theirs, available, current) ==
    LET usable == Usable(channel, mine, theirs, available) IN
    CASE usable = {} -> NoTransport
      [] mine = "PreferBluetooth" /\ theirs = "PreferBluetooth" /\ "bluetooth" \in usable -> "bluetooth"
      [] current \in usable -> current
      [] "lan" \in usable -> "lan"
      [] OTHER -> "bluetooth"

-----------------------------------------------------------------------------
Offer(epoch, transport) == [epoch |-> epoch, transport |-> transport]
NoOffer == Offer(0, NoTransport)

Phases == {"None", "Quiescing", "AwaitReady", "AwaitCommit", "AwaitCommitted", "CommittedReply"}
Pending(offer, phase) == [offer |-> offer, phase |-> phase]
NoPending == Pending(NoOffer, "None")

Message(kind, offer) == [kind |-> kind, offer |-> offer]

NewRoute(channel, host, policy) ==
    [channel |-> channel, host |-> host, policy |-> policy, highestEpoch |-> 0,
     pending |-> NoPending, receive |-> NoOffer, send |-> NoOffer]

IsSwitching(r) == r.pending # NoPending

\* What this end's own policy and the function allow it to agree to.
ValidTransport(r, transport) ==
    transport = NoTransport \/ transport \in Allowed(r.policy) \intersect Supported(r.channel)

Pause(r) == [r EXCEPT !.receive = NoOffer, !.send = NoOffer]
Cancel(r) == [Pause(r) EXCEPT !.pending = NoPending]

\* The host starts a switch; nothing is offered before quiesced.
CanBegin(r, transport) == r.host /\ ~IsSwitching(r) /\ ValidTransport(r, transport)
Begin(r, transport) ==
    LET epoch == r.highestEpoch + 1 IN
    [Pause(r) EXCEPT !.highestEpoch = epoch,
                     !.pending = Pending(Offer(epoch, transport), "Quiescing")]

\* The local state is released: the host offers, the client is ready.
CanQuiesce(r, epoch) == r.pending.phase = "Quiescing" /\ r.pending.offer.epoch = epoch
Quiesced(r) ==
    [r EXCEPT !.pending.phase = IF r.host THEN "AwaitReady" ELSE "AwaitCommit"]
QuiescedMessage(r) == Message(IF r.host THEN "Offer" ELSE "Ready", r.pending.offer)

\* The messages receive_message takes without an error.
TakesOffer(r, m) ==
    /\ m.kind = "Offer"
    /\ ~r.host
    /\ m.offer.epoch > r.highestEpoch
    /\ ValidTransport(r, m.offer.transport)
TakesReply(r, m) ==
    /\ m.offer.epoch = r.pending.offer.epoch
    /\ \/ r.host /\ r.pending.phase = "AwaitReady" /\ m.kind = "Ready"
       \/ ~r.host /\ r.pending.phase = "AwaitCommit" /\ m.kind = "Commit"
       \/ r.host /\ r.pending.phase = "AwaitCommitted" /\ m.kind = "Committed"

TakeOffer(r, m) ==
    [Pause(r) EXCEPT !.highestEpoch = m.offer.epoch, !.pending = Pending(m.offer, "Quiescing")]

\* The host accepts data before it says Commit; the client accepts data before
\* it says Committed, and each sends only after the other accepts.
TakeReply(r, m) ==
    LET offer == r.pending.offer IN
    CASE m.kind = "Ready" -> [r EXCEPT !.receive = offer, !.pending.phase = "AwaitCommitted"]
      [] m.kind = "Commit" -> [r EXCEPT !.receive = offer, !.pending.phase = "CommittedReply"]
      [] m.kind = "Committed" -> [r EXCEPT !.send = offer, !.pending = NoPending]

ReplyTo(r, m) ==
    CASE m.kind = "Ready" -> {Message("Commit", r.pending.offer)}
      [] m.kind = "Commit" -> {Message("Committed", r.pending.offer)}
      [] OTHER -> {}

\* The client's Committed has been flushed: it may send.
ReplySent(r) == [r EXCEPT !.send = r.pending.offer, !.pending = NoPending]

\* A tightened policy cancels what it no longer allows.
Disallowed(r, policy) ==
    \E offer \in {r.send, r.receive, r.pending.offer} :
        ~ValidTransport([r EXCEPT !.policy = policy], offer.transport)
UpdatePolicy(r, policy) ==
    IF Disallowed(r, policy) THEN Cancel([r EXCEPT !.policy = policy])
    ELSE [r EXCEPT !.policy = policy]
=============================================================================
