--------------------------- MODULE ClipboardPath ---------------------------
(***************************************************************************)
(* The path of the clipboard in one session: both ends of the negotiation  *)
(* (transport/clipboard_route.rs, ClipboardRoute) with the part of the     *)
(* session loop that drives them (app.rs, run_sync_session).               *)
(*                                                                         *)
(* A session runs on a primary carrier, which has the control lane; a      *)
(* secondary carrier may come and go. Every turn of the loop handles one   *)
(* event, then starts over at the top: it tells the peer its carriers and  *)
(* policy if they changed, and reconciles the path. One action is one such *)
(* turn. A lease is known by the number of the switch that made it.        *)
(***************************************************************************)
EXTENDS ChannelRoute, CapabilityState, Sequences, SequencesExt

CONSTANTS
    Primary,     \* the carrier of the control lane
    UsedPolicies,\* policies a user may choose here
    Scenarios    \* the policies sessions start with, and bounds on the changes in them

Sides == {"host", "client"}
Peer(s) == IF s = "host" THEN "client" ELSE "host"
Secondary == CHOOSE t \in Transports : t # Primary

\* Bounds of the model: how many changes of each kind one side may make, and
\* how many secondary connections the two share.
ChangeKinds == {"policy", "modes", "restart", "bonds"}

Both == {"send", "receive"}

ASSUME PathAssumption ==
    /\ Primary \in Transports
    /\ UsedPolicies \subseteq Policies
    /\ Scenarios \subseteq [start : [Sides -> Policies], limits : [Sides -> [ChangeKinds -> Nat]]]

VARIABLES party,   \* party[s]: the session loop of side s and its ClipboardRoute
          ctl,     \* ctl[s]: control messages on their way to s, in order
          lanes,   \* lanes[s]: clipboard frames on their way to s
          bond,    \* the secondary connection: "none", "up" or "broken"
          left     \* left[s][k]: changes of kind k side s may still make

vars == <<party, ctl, lanes, bond, left>>

NoEpoch == <<>>

-----------------------------------------------------------------------------
\* What one end knows of the path (RouteContext).
Links(p) == {Primary} \union (IF p.tunnel = "attached" THEN {Secondary} ELSE {})
Shared(p) == Links(p) \intersect p.peer.links

Enabled(p) ==
    LET mine == EffectiveLocal(p.cap) IN
    \/ "send" \in mine /\ "receive" \in p.cap.remote
    \/ "receive" \in mine /\ "send" \in p.cap.remote

Signature(p) ==
    [epoch |-> EpochOf(p.cap), links |-> Shared(p), policy |-> p.policy, remotePolicy |-> p.peer.policy]

Choice(p) == ChooseRoute("Clipboard", p.policy, p.peer.policy, Shared(p), p.target)

StateMessage(generation, state) == [kind |-> "state", generation |-> generation, state |-> state]
UpdateMessage(c) == [kind |-> "update", generation |-> c.localGeneration, modes |-> c.local]
AckMessage(generation) == [kind |-> "ack", generation |-> generation]
PathMessage(epoch, m) == [kind |-> "path", epoch |-> epoch, generation |-> m.offer.epoch, message |-> m]
FailedMessage(epoch, generation) == [kind |-> "failed", epoch |-> epoch, generation |-> generation]

Say(p, m) == [p EXCEPT !.outbox = Append(@, m)]
Bail(p) == [p EXCEPT !.bailed = TRUE]

Frame(generation, transport, end) == [generation |-> generation, transport |-> transport, end |-> end]

-----------------------------------------------------------------------------
\* Deliberate defects, used only to show that the properties can fail.
StopKeepsRoute(p) ==
    [p EXCEPT !.revoked = @ \union (IF p.path THEN {Frame(p.generation, p.target, TRUE)} ELSE {}),
              !.path = FALSE, !.deadline = FALSE,
              !.target = NoTransport, !.generation = 0, !.epoch = NoEpoch]

StopKeepsDeadline(p) ==
    [p EXCEPT !.revoked = @ \union (IF p.path THEN {Frame(p.generation, p.target, TRUE)} ELSE {}),
              !.path = FALSE, !.route = Cancel(@),
              !.target = NoTransport, !.generation = 0, !.epoch = NoEpoch]

\* stop: the lease is revoked before anything else is forgotten.
Stop(p) ==
    [p EXCEPT !.revoked = @ \union (IF p.path THEN {Frame(p.generation, p.target, TRUE)} ELSE {}),
              !.path = FALSE, !.route = Cancel(@), !.deadline = FALSE,
              !.target = NoTransport, !.generation = 0, !.epoch = NoEpoch]

\* fail: the same links, policies and capabilities are not tried again.
Fail(p, notify) ==
    LET stopped == Stop([p EXCEPT !.blocked = {Signature(p)}]) IN
    IF notify /\ p.generation # 0 THEN Say(stopped, FailedMessage(p.epoch, p.generation))
    ELSE stopped

\* Both ends prepare the lease of a switch before they say Offer or Ready. A
\* lease on the secondary carrier fails when the carrier is already shut down.
Prepare(p, epoch, leases) ==
    LET offer == p.route.pending.offer
        q == [p EXCEPT !.epoch = epoch, !.generation = offer.epoch,
                       !.target = offer.transport, !.deadline = TRUE]
    IN IF offer.transport \in leases
       THEN Say([q EXCEPT !.path = TRUE, !.route = Quiesced(@)], PathMessage(epoch, QuiescedMessage(q.route)))
       ELSE Fail(q, TRUE)

\* A path whose conditions changed is stopped.
Outdated(p) ==
    \/ Disallowed(p.route, p.policy)
    \/ p.epoch \notin {NoEpoch, EpochOf(p.cap)}
    \/ p.target \notin {NoTransport, Choice(p)}
    \/ ~IsAcknowledged(p.cap)
    \/ ~Enabled(p)

\* The host offers the chosen carrier unless it is on it, or it failed as things are.
WantsSwitch(p, choice) ==
    /\ p.route.host
    /\ Enabled(p) /\ IsAcknowledged(p.cap)
    /\ ~IsSwitching(p.route)
    /\ ~(p.path /\ p.route.send.transport = choice)
    /\ p.blocked = {}
    /\ choice # NoTransport

\* A deliberate defect: a failed path is never tried again.
ReconcileStaysBlocked(p, leases) ==
    LET choice == Choice(p)
        fresh == [p EXCEPT !.route = UpdatePolicy(@, p.policy)]
        kept == IF Outdated(p) THEN Stop(fresh) ELSE fresh
        idle == Stop(kept)
    IN IF WantsSwitch(kept, choice)
       THEN Prepare([idle EXCEPT !.route = Begin(@, choice)], EpochOf(p.cap), leases)
       ELSE kept

\* reconcile as it is: a path that is not the choice is left, and a lasting difference starts a switch.
Reconcile(p, leases) ==
    LET choice == Choice(p)
        fresh == [p EXCEPT !.blocked = @ \intersect {Signature(p)}, !.route = UpdatePolicy(@, p.policy)]
        kept == IF Outdated(p) THEN Stop(fresh) ELSE fresh
        idle == Stop(kept)
    IN IF WantsSwitch(kept, choice)
       THEN IF CanBegin(idle.route, choice)
            THEN Prepare([idle EXCEPT !.route = Begin(@, choice)], EpochOf(p.cap), leases)
            ELSE Bail(p)
       ELSE kept

-----------------------------------------------------------------------------
\* receive: an offer is refused unless this end could have chosen it itself.
Acceptable(p, transport) ==
    /\ Enabled(p)
    /\ ChooseRoute("Clipboard", p.policy, p.peer.policy, Shared(p) \intersect {transport}, NoTransport) = transport

ReceiveOffer(p, m, leases) ==
    LET ready == [Stop(p) EXCEPT !.route = UpdatePolicy(@, p.policy), !.blocked = {}] IN
    CASE p.route.host \/ m.message.offer.transport = NoTransport -> Bail(p)
      [] m.generation <= p.route.highestEpoch -> p
      [] ~Acceptable(p, m.message.offer.transport) -> Say(p, FailedMessage(m.epoch, m.generation))
      [] ~TakesOffer(ready.route, m.message) -> Bail(p)
      [] OTHER -> Prepare([ready EXCEPT !.route = TakeOffer(@, m.message)], m.epoch, leases)

\* A deliberate defect: replies are not checked against the switch under way.
ReceiveAnyReply(p, m) ==
    LET replied == [p EXCEPT !.route = TakeReply(@, m.message),
                             !.outbox = @ \o SetToSeq({PathMessage(m.epoch, r) : r \in ReplyTo(p.route, m.message)})]
        sent == IF m.message.kind = "Commit" THEN [replied EXCEPT !.route = ReplySent(@)] ELSE replied
    IN CASE ~TakesReply(p.route, m.message) -> Bail(p)
         [] IsSwitching(sent.route) -> sent
         [] p.path -> [sent EXCEPT !.deadline = FALSE]
         [] OTHER -> Bail(p)

ReceiveReply(p, m) ==
    LET replied == [p EXCEPT !.route = TakeReply(@, m.message),
                             !.outbox = @ \o SetToSeq({PathMessage(m.epoch, r) : r \in ReplyTo(p.route, m.message)})]
        sent == IF m.message.kind = "Commit" THEN [replied EXCEPT !.route = ReplySent(@)] ELSE replied
    IN CASE ~IsSwitching(p.route) \/ p.epoch # m.epoch \/ p.generation # m.generation -> p
         [] ~TakesReply(p.route, m.message) -> Bail(p)
         [] IsSwitching(sent.route) -> sent
         [] p.path -> [sent EXCEPT !.deadline = FALSE]
         [] OTHER -> Bail(p)

ReceivePath(p, m, leases) ==
    CASE ~CurrentEpoch(p.cap, m.epoch) -> p
      [] m.message.kind = "Offer" -> ReceiveOffer(p, m, leases)
      [] OTHER -> ReceiveReply(p, m)

RemoteFailed(p, m) ==
    IF p.epoch = m.epoch /\ p.generation = m.generation THEN Fail(p, FALSE) ELSE p

-----------------------------------------------------------------------------
\* The other control messages of the session loop.
ReceiveState(p, m) ==
    LET news == [generation |-> m.generation, links |-> m.state.links, policy |-> m.state.policy] IN
    CASE m.generation = 0 \/ Primary \notin m.state.links -> Bail(p)
      [] m.generation = p.peer.generation /\ news # p.peer -> Bail(p)
      [] m.generation > p.peer.generation -> [p EXCEPT !.peer = news]
      [] OTHER -> p

ReceiveUpdate(p, m) ==
    IF RemoteRefused(p.cap, m.generation, m.modes) THEN Bail(p)
    ELSE Say([p EXCEPT !.cap = ApplyRemote(@, m.generation, m.modes)], AckMessage(m.generation))

ReceiveAck(p, m) ==
    IF AckRefused(p.cap, m.generation) THEN Bail(p)
    ELSE [p EXCEPT !.cap = ApplyAck(@, m.generation)]

\* A deliberate defect: new links are not told.
AdvertisePolicy(p) ==
    LET state == [links |-> Links(p), policy |-> p.policy] IN
    IF p.advertised.policy = p.policy /\ p.adverts > 0 THEN p
    ELSE Say([p EXCEPT !.adverts = @ + 1, !.advertised = state], StateMessage(p.adverts + 1, state))

\* The head of every turn: a changed state is advertised with a new number, and
\* once the peer's state is known the path is reconciled.
Advertise(p) ==
    LET state == [links |-> Links(p), policy |-> p.policy] IN
    IF p.advertised = state THEN p
    ELSE Say([p EXCEPT !.adverts = @ + 1, !.advertised = state], StateMessage(p.adverts + 1, state))

LoopTop(p, leases) ==
    LET told == Advertise(p) IN
    IF told.peer.generation > 0 THEN Reconcile(told, leases) ELSE told

NewParty(s, policy) ==
    [route |-> NewRoute("Clipboard", s = "host", "Auto"), path |-> FALSE, deadline |-> FALSE,
     generation |-> 0, epoch |-> NoEpoch, target |-> NoTransport, blocked |-> {},
     cap |-> NewCapability(s = "host", Both, Both), policy |-> policy, tunnel |-> "gone",
     adverts |-> 0, advertised |-> [links |-> {}, policy |-> policy],
     peer |-> [generation |-> 0, links |-> {Primary}, policy |-> "Auto"],
     outbox |-> <<>>, revoked |-> {}, bailed |-> FALSE]

Sent(p) == [p EXCEPT !.outbox = <<>>, !.revoked = {}]

Init ==
    /\ \E scenario \in Scenarios :
        LET first(s) == LoopTop(NewParty(s, scenario.start[s]), {}) IN
        /\ party = [s \in Sides |-> Sent(first(s))]
        /\ ctl = [s \in Sides |-> first(Peer(s)).outbox]
        /\ left = scenario.limits
    /\ lanes = [s \in Sides |-> {}]
    /\ bond = "none"

-----------------------------------------------------------------------------
\* A lane throws a frame of any lease but the active one away; a frame is kept
\* here only while p may still read it.
MayRead(p, frame) ==
    \/ p.path /\ frame.generation = p.generation
    \/ frame.generation > p.route.highestEpoch

\* Carriers on which a lease may succeed, and frames may travel.
LeaseOutcomes == IF bond = "broken" THEN {{Primary}, Transports} ELSE {Transports}
Carries(transport) == transport = Primary \/ bond = "up"

Running == \A s \in Sides : ~party[s].bailed

\* One turn: side s, as the event left it, runs the head of the loop; what it
\* says is queued, and a revoked lease may or may not get its END record out
\* before the abort (Lease::drop).
Turn(s, handled, inbox, arrived) ==
    /\ Running
    /\ \E leases \in LeaseOutcomes :
        LET p == IF handled.bailed THEN handled ELSE LoopTop(handled, leases) IN
        \E ends \in SUBSET {f \in p.revoked : Carries(f.transport) /\ MayRead(party[Peer(s)], f)} :
            /\ party' = [party EXCEPT ![s] = Sent(p)]
            /\ ctl' = [ctl EXCEPT ![s] = inbox, ![Peer(s)] = @ \o p.outbox]
            /\ lanes' = [lanes EXCEPT ![s] = {f \in arrived : MayRead(p, f)}, ![Peer(s)] = @ \union ends]
            /\ UNCHANGED bond

Event(s, handled) == Turn(s, handled, ctl[s], lanes[s])

\* One control message, in order.
Handled(p, m, leases) ==
    CASE m.kind = "state" -> ReceiveState(p, m)
      [] m.kind = "update" -> ReceiveUpdate(p, m)
      [] m.kind = "ack" -> ReceiveAck(p, m)
      [] m.kind = "path" -> ReceivePath(p, m, leases)
      [] m.kind = "failed" -> RemoteFailed(p, m)

Handle(s, kind) ==
    /\ ctl[s] # <<>>
    /\ Head(ctl[s]).kind = kind
    /\ \E leases \in LeaseOutcomes :
        Turn(s, Handled(party[s], Head(ctl[s]), leases), Tail(ctl[s]), lanes[s])
    /\ UNCHANGED left

\* A clipboard frame of the active lease reaches the loop.
Deliver(s) ==
    /\ \E frame \in lanes[s] :
        /\ ~frame.end
        /\ party[s].path /\ frame.generation = party[s].generation
        /\ Turn(s, party[s], ctl[s], lanes[s] \ {frame})
    /\ UNCHANGED left

\* The active lease was ended by the peer, or its carrier broke.
Fails(s) ==
    /\ party[s].path
    /\ \/ \E frame \in lanes[s] : frame.end /\ frame.generation = party[s].generation
       \/ party[s].target = Secondary /\ bond = "broken"

StreamFails(s) ==
    /\ Fails(s)
    /\ Event(s, Fail(party[s], TRUE))
    /\ UNCHANGED left

\* The ten seconds of a handshake are over.
DeadlinePasses(s) ==
    /\ party[s].deadline
    /\ Event(s, Fail(party[s], TRUE))
    /\ UNCHANGED left

Spend(s, kind) ==
    /\ left[s][kind] > 0
    /\ left' = [left EXCEPT ![s][kind] = @ - 1]

\* The user chooses another clipboard policy (tuning.changed, no input restart).
ChangePolicy(s, policy) ==
    /\ policy # party[s].policy
    /\ Spend(s, "policy")
    /\ Event(s, [party[s] EXCEPT !.policy = policy])

\* The user switches the clipboard on or off (capabilities.changed).
ChangeModes(s, modes) ==
    LET cap == SetLocal(party[s].cap, modes) IN
    /\ modes # party[s].cap.local
    /\ Spend(s, "modes")
    /\ Event(s, Say([party[s] EXCEPT !.cap = cap], UpdateMessage(cap)))

\* Changed input options restart the input task (bump_local).
RestartInput(s) ==
    LET cap == BumpLocal(party[s].cap) IN
    /\ Spend(s, "restart")
    /\ Event(s, Say([party[s] EXCEPT !.cap = cap], UpdateMessage(cap)))

-----------------------------------------------------------------------------
\* A secondary connection is made, once both ends are done with the last one;
\* each end's loop attaches it and, when it has broken, detaches it by itself.
Bond ==
    /\ Running
    /\ \A s \in Sides : party[s].tunnel = "gone"
    /\ Spend("host", "bonds")
    /\ bond' = "up"
    /\ party' = [s \in Sides |-> [party[s] EXCEPT !.tunnel = "waiting"]]
    /\ UNCHANGED <<ctl, lanes>>

Break ==
    /\ Running
    /\ bond = "up"
    /\ Spend("client", "bonds")
    /\ bond' = "broken"
    /\ UNCHANGED <<party, ctl, lanes>>

Attach(s) ==
    /\ party[s].tunnel = "waiting"
    /\ Event(s, [party[s] EXCEPT !.tunnel = "attached"])
    /\ UNCHANGED left

Lost(s) == party[s].tunnel = "attached" /\ bond = "broken"

Detach(s) ==
    /\ Lost(s)
    /\ Turn(s, [party[s] EXCEPT !.tunnel = "gone"], ctl[s], {f \in lanes[s] : f.transport = Primary})
    /\ UNCHANGED left

\* The sender's task writes a payload on the committed route.
Talk(s) ==
    LET route == party[s].route.send
        frame == Frame(route.epoch, route.transport, FALSE)
    IN /\ Running
       /\ route # NoOffer
       /\ Carries(route.transport)
       /\ MayRead(party[Peer(s)], frame)
       /\ lanes' = [lanes EXCEPT ![Peer(s)] = @ \union {frame}]
       /\ UNCHANGED <<party, ctl, bond, left>>

MessageKinds == {"state", "update", "ack", "path", "failed"}

\* What the loop does of itself, and what the user and the carriers do to it.
Work(s) ==
    \/ \E kind \in MessageKinds : Handle(s, kind)
    \/ Deliver(s) \/ StreamFails(s) \/ DeadlinePasses(s) \/ Attach(s) \/ Detach(s)

Change(s) ==
    \/ \E policy \in UsedPolicies : ChangePolicy(s, policy)
    \/ \E modes \in {Both, {"receive"}, {}} : ChangeModes(s, modes)
    \/ RestartInput(s)

Next ==
    \/ \E s \in Sides : Work(s) \/ Change(s) \/ Talk(s)
    \/ Bond \/ Break

Spec == Init /\ [][Next]_vars

\* The runtime polls a ready session task and the clock goes on. The loop prefers
\* clipboard frames to control messages, but a payload in flight waits for its
\* receipt, so frames never keep the other branches from their turn for ever.
\* This is weak fairness of each turn, with the condition that enables it
\* written out.
HandleAny(s) == \E kind \in MessageKinds : Handle(s, kind)

Fairness(s) ==
    /\ []<>(ctl[s] = <<>>) \/ []<><<HandleAny(s)>>_vars
    /\ []<>~Fails(s) \/ []<><<StreamFails(s)>>_vars
    /\ []<>~party[s].deadline \/ []<><<DeadlinePasses(s)>>_vars
    /\ []<>(party[s].tunnel # "waiting") \/ []<><<Attach(s)>>_vars
    /\ []<>~Lost(s) \/ []<><<Detach(s)>>_vars

FairSpec == Spec /\ \A s \in Sides : Fairness(s)

-----------------------------------------------------------------------------
MessagesTo(s) == {m \in ToSet(ctl[s]) : m.kind = "path"}
Turns == 0..20      \* more switches than the bounds allow

OfferSet == [epoch : Turns, transport : Transports] \union {NoOffer}

\* The fields hold what their types allow, and nothing is left to be sent.
TypeOK ==
    /\ bond \in {"none", "up", "broken"}
    /\ \A s \in Sides : \A p \in {party[s]} :
        /\ p.route.receive \in OfferSet /\ p.route.send \in OfferSet
        /\ p.route.pending.offer \in OfferSet /\ p.route.pending.phase \in Phases \ {"Quiescing"}
        /\ p.generation \in 0..p.route.highestEpoch
        /\ p.path <=> p.generation # 0
        /\ p.path <=> p.target # NoTransport
        /\ p.deadline <=> IsSwitching(p.route)
        /\ Cardinality(p.blocked) <= 1
        /\ p.tunnel \in {"gone", "waiting", "attached"}
    /\ \A s \in Sides : \A m \in ToSet(ctl[s]) : m.kind \in MessageKinds

\* No legal sequence of changes makes a well-behaved peer look like a broken
\* one: none of the errors that end the whole session is raised.
SessionSurvives == Running

\* Two ends that hold the same lease agree on what each is capable of, so no
\* payload travels in a direction one of them has already switched off.
AgreedCapabilities ==
    party["host"].path /\ party["client"].path /\ party["host"].generation = party["client"].generation =>
        \A s \in Sides : party[s].cap.local = party[Peer(s)].cap.remote

\* Nothing is under way that could still change the path.
Quiet ==
    \A s \in Sides :
        /\ ctl[s] = <<>> /\ ~party[s].deadline
        /\ party[s].tunnel = IF bond = "up" THEN "attached" ELSE "gone"
        /\ \A frame \in lanes[s] : ~frame.end

\* The conditions as they really are, where Signature is what one end believes.
Conditions ==
    [epoch |-> EpochOf(party["host"].cap),
     links |-> Links(party["host"]) \intersect Links(party["client"]),
     policy |-> party["host"].policy, remotePolicy |-> party["client"].policy]

\* The path is committed on both ends, or there is a reason to have none: no
\* carrier both have and allow, nothing to send, or a failure under exactly the
\* conditions that still hold.
Settled ==
    \/ /\ party["host"].route.send # NoOffer
       /\ party["client"].route.send = party["host"].route.send
    \/ Usable("Clipboard", Conditions.policy, Conditions.remotePolicy, Conditions.links) = {}
    \/ ~Enabled(party["host"])
    \/ party["host"].blocked = {Conditions}

\* docs/bluetooth.md: while an allowed carrier is there the path is negotiated
\* again; a quiet session never sits on half a path.
NoStrandedPath == Quiet => Settled

\* Once the user and the carriers leave it alone, the path settles.
Settles == <>[]Settled

\* The handlers implement the four-phase switch.
Handover == INSTANCE RouteHandover WITH
    MaxEpoch <- 20,
    highest <- [s \in Sides |-> party[s].route.highestEpoch],
    current <- [s \in Sides |-> party[s].generation],
    listen <- [s \in Sides |-> party[s].route.receive.epoch],
    speak <- [s \in Sides |-> party[s].route.send.epoch],
    messages <- {[kind |-> m.message.kind, epoch |-> m.generation] :
                    m \in MessagesTo("host") \union MessagesTo("client")},
    frames <- UNION {{[to |-> s, epoch |-> frame.generation] :
                    frame \in {f \in lanes[s] : ~f.end}} : s \in Sides}
ImplementsHandover == Handover!HandoverSpec
=============================================================================
