--------------------------- MODULE FunctionPaths ---------------------------
(***************************************************************************)
(* The paths of input and audio in one session, at both ends: the part of  *)
(* the session loop (app.rs, run_sync_session and refresh_capability_tasks)*)
(* that app/input_route.rs and app/audio_path.rs belong to. Input goes     *)
(* over either carrier and is switched by the four-phase protocol; audio   *)
(* goes by UDP to the address of a LAN carrier, primary or secondary.      *)
(*                                                                         *)
(* One action is one turn of a loop: an event is handled, then the head of *)
(* the next turn tells the peer of changed carriers and policies, chooses  *)
(* again and starts or stops the tasks. A lease of an input lane is known  *)
(* by the number of the switch that made it; a LAN binding by a number.    *)
(***************************************************************************)
EXTENDS Naturals, Sequences, SequencesExt

Route == INSTANCE ChannelRoute
Cap == INSTANCE CapabilityState

CONSTANT PathScenarios  \* the primary carrier, policies and modes a session starts with, and its changes

Sides == {"host", "client"}
PeerOf(s) == IF s = "host" THEN "client" ELSE "host"
NoVia == Route!NoTransport

VARIABLES loops,    \* loops[s]: the session loop of side s and its CapabilityTaskRuntime
          mail,     \* mail[s]: control messages on their way to s, in order
          primary,  \* the carrier of the control lane
          bond,     \* the secondary connection: its number, and whether it is up
          left,     \* left[s][kind]: changes of this kind that s may still make
          upset     \* a task, a handshake or a connection has failed of itself

pathVars == <<loops, mail, primary, bond, left, upset>>

Spare == IF primary = "lan" THEN "bluetooth" ELSE "lan"

\* The binding of the primary connection is the session id itself.
NoBinding == 0
SessionBinding == 1

\* What follows from p, once p is known.
Then(p, Step(_)) == CHOOSE r \in {Step(q) : q \in {p}} : TRUE

-----------------------------------------------------------------------------
\* The tasks a pair of modes asks for: capabilities are sets of what is on.
RoleIn(p, leads, follows) ==
    CASE ~Cap!IsAcknowledged(p.cap) -> "none"
      [] leads \in p.cap.local /\ follows \in p.cap.remote -> "sender"
      [] follows \in p.cap.local /\ leads \in p.cap.remote -> "receiver"
      [] OTHER -> "none"
InputRole(p) == IF p.via = NoVia THEN "none" ELSE RoleIn(p, "control", "obey")
AudioRole(p) == IF p.lan = NoBinding THEN "none" ELSE RoleIn(p, "play", "hear")

LinksOf(p) == {primary} \union (IF p.tunnel = "attached" THEN {Spare} ELSE {})
SharedBy(p) == LinksOf(p) \intersect p.peer.links

Say(p, m) == [p EXCEPT !.outbox = Append(@, m)]
Bail(p, why) == [p EXCEPT !.bailed = why]

StateMessage(n, state) == [kind |-> "state", generation |-> n, state |-> state]
UpdateMessage(c) == [kind |-> "update", generation |-> c.localGeneration, modes |-> c.local]
AckMessage(n) == [kind |-> "ack", generation |-> n]
InputMessage(epoch, m) == [kind |-> "input", epoch |-> epoch, lease |-> m.offer.epoch, message |-> m]
InputFailed(epoch, lease) == [kind |-> "inputFailed", epoch |-> epoch, lease |-> lease]
InputReset(epoch) == [kind |-> "inputReset", epoch |-> epoch]
AudioReady(epoch, path) == [kind |-> "audioReady", epoch |-> epoch, path |-> path]
AudioFailed(epoch, path) == [kind |-> "audioFailed", epoch |-> epoch, path |-> path]

-----------------------------------------------------------------------------
\* stop_input: whoever had a lease or a task needs the hotkey before it may
\* control again, unless the user asked for the stop.
StopInput(p) ==
    [p EXCEPT !.input = [epoch |-> <<>>, role |-> "none", transport |-> p.input.transport,
                         lease |-> 0, waiting |-> FALSE, running |-> FALSE],
              !.manual = @ \/ p.input.lease # 0,
              !.route = Route!Cancel(@),
              !.active = FALSE]

InputBlock(p) == <<Cap!EpochOf(p.cap), p.via>>

\* A deliberate defect: a failure leaves the lease to be answered later.
FailInputKeepsLease(p, notify) ==
    LET failed == [p EXCEPT !.manual = TRUE, !.blocked = {InputBlock(p)}, !.active = FALSE,
                            !.input.running = FALSE, !.input.waiting = FALSE]
    IN IF notify /\ p.input.lease # 0 THEN Say(failed, InputFailed(Cap!EpochOf(p.cap), p.input.lease))
       ELSE failed

\* fail: this carrier is not tried again while the epoch and the choice last.
FailInput(p, notify) ==
    LET failed == [StopInput(p) EXCEPT !.manual = TRUE, !.blocked = {InputBlock(p)}] IN
    IF notify /\ p.input.lease # 0 THEN Say(failed, InputFailed(Cap!EpochOf(p.cap), p.input.lease))
    ELSE failed

\* The input half of refresh_capability_tasks: changed conditions stop the task,
\* and the host offers a new path. A lease on a broken carrier ends the session.
RefreshInput(p, luck) ==
    LET role == InputRole(p)
        fresh == [StopInput(p) EXCEPT !.input.epoch = Cap!EpochOf(p.cap), !.input.role = role,
                                      !.input.transport = p.via, !.blocked = {}]
        begun == [fresh EXCEPT !.route = Route!Begin(@, p.via)]
        offered == [begun EXCEPT !.input.lease = begun.route.highestEpoch, !.input.waiting = TRUE,
                                 !.route = Route!Quiesced(@)]
    IN CASE p.blocked = {InputBlock(p)} -> p
         [] p.input.epoch = Cap!EpochOf(p.cap) /\ p.input.role = role /\ p.input.transport = p.via -> p
         [] role = "none" \/ ~p.route.host -> fresh
         [] p.via \notin luck.leases -> Bail(p, "lease")
         [] ~Route!CanBegin(fresh.route, p.via) -> Bail(p, "protocol")
         [] OTHER -> Say(offered, InputMessage(Cap!EpochOf(p.cap), Route!QuiescedMessage(begun.route)))

-----------------------------------------------------------------------------
NoSound == [epoch |-> <<>>, role |-> "none", path |-> NoBinding, waiting |-> FALSE, running |-> FALSE]
SoundBlock(p) == <<Cap!EpochOf(p.cap), p.lan>>

\* audio_path::refresh: the receiver binds and names its port, the sender waits
\* for it ten seconds; what failed as things are is not started again.
RefreshAudio(p, luck) ==
    LET role == AudioRole(p)
        fresh == [p EXCEPT !.sound = [NoSound EXCEPT !.epoch = Cap!EpochOf(p.cap), !.role = role, !.path = p.lan],
                           !.mute = {}]
    IN CASE p.mute = {SoundBlock(p)} -> p
         [] p.sound.epoch = Cap!EpochOf(p.cap) /\ p.sound.role = role /\ p.sound.path = p.lan -> p
         [] role = "none" -> fresh
         [] role = "sender" -> [fresh EXCEPT !.sound.waiting = TRUE]
         [] luck.binds -> Say([fresh EXCEPT !.sound.running = TRUE], AudioReady(Cap!EpochOf(p.cap), p.lan))
         [] OTHER -> Say([fresh EXCEPT !.mute = {SoundBlock(p)}], AudioFailed(Cap!EpochOf(p.cap), p.lan))

\* A deliberate defect: the peer is not told.
FailAudioQuietly(p, notify) ==
    [p EXCEPT !.sound = NoSound,
              !.mute = IF p.sound.epoch = <<>> THEN @ ELSE {<<p.sound.epoch, p.sound.path>>}]

\* audio_path::fail, and the message that tells the peer.
FailAudio(p, notify) ==
    LET failed == [p EXCEPT !.sound = NoSound,
                            !.mute = IF p.sound.epoch = <<>> THEN @ ELSE {<<p.sound.epoch, p.sound.path>>}]
    IN IF notify /\ p.sound.epoch # <<>> /\ p.sound.path # NoBinding
       THEN Say(failed, AudioFailed(p.sound.epoch, p.sound.path))
       ELSE failed

\* audio_path::receive: the sender starts on the port of its own path and epoch.
ReceiveReady(p, m, luck) ==
    CASE \/ ~Cap!CurrentEpoch(p.cap, m.epoch) \/ p.sound.epoch # m.epoch
         \/ p.mute = {<<m.epoch, p.sound.path>>} -> p
      [] p.sound.path # m.path \/ p.sound.role # "sender" \/ p.sound.running -> p
      [] luck.binds -> [p EXCEPT !.sound.running = TRUE, !.sound.waiting = FALSE]
      [] OTHER -> [p EXCEPT !.mute = {<<m.epoch, p.sound.path>>}]

ReceiveAudioFailed(p, m) ==
    IF Cap!CurrentEpoch(p.cap, m.epoch) /\ p.sound.path = m.path THEN FailAudio(p, FALSE) ELSE p

Refresh(p, luck) == Then(Then(p, LAMBDA q : RefreshAudio(q, luck)), LAMBDA q : RefreshInput(q, luck))

\* reset: the input starts anew, and without the hotkey.
ResetInput(p, notify, luck) ==
    LET stopped == [StopInput(p) EXCEPT !.blocked = {}, !.manual = FALSE]
        told == IF notify THEN Say(stopped, InputReset(Cap!EpochOf(p.cap))) ELSE stopped
    IN Refresh(told, luck)

-----------------------------------------------------------------------------
\* input_route::receive. An offer for a carrier this end has not chosen itself
\* is refused, and nothing else changes; a newer one replaces the lease.
ReceiveOffer(p, m, luck) ==
    LET stopped == StopInput(p)
        taken == [stopped EXCEPT !.route = Route!TakeOffer(@, m.message)]
        ready == [taken EXCEPT !.input = [epoch |-> m.epoch, role |-> InputRole(p), transport |-> p.via,
                                          lease |-> m.lease, waiting |-> TRUE, running |-> FALSE],
                               !.route = Route!Quiesced(@)]
    IN CASE p.route.host -> Bail(p, "protocol")
         [] m.lease <= p.route.highestEpoch -> p
         [] p.via # m.message.offer.transport -> Say(p, InputFailed(m.epoch, m.lease))
         [] ~Route!TakesOffer(stopped.route, m.message) -> Bail(p, "protocol")
         [] p.via \notin luck.leases -> Bail(p, "lease")
         [] OTHER -> Say(ready, InputMessage(m.epoch, Route!QuiescedMessage(taken.route)))

\* A deliberate defect: replies are not checked against the lease under way.
ReceiveAnyReply(p, m) ==
    LET replied == [p EXCEPT !.route = Route!TakeReply(@, m.message),
                             !.outbox = @ \o SetToSeq({InputMessage(m.epoch, r) : r \in Route!ReplyTo(p.route, m.message)})]
        sent == IF m.message.kind = "Commit" THEN [replied EXCEPT !.route = Route!ReplySent(@)] ELSE replied
    IN CASE ~Route!TakesReply(p.route, m.message) -> Bail(p, "protocol")
         [] Route!IsSwitching(sent.route) -> sent
         [] OTHER -> [sent EXCEPT !.input.waiting = FALSE, !.input.running = TRUE]

ReceiveReply(p, m) ==
    LET replied == [p EXCEPT !.route = Route!TakeReply(@, m.message),
                             !.outbox = @ \o SetToSeq({InputMessage(m.epoch, r) : r \in Route!ReplyTo(p.route, m.message)})]
        sent == IF m.message.kind = "Commit" THEN [replied EXCEPT !.route = Route!ReplySent(@)] ELSE replied
    IN CASE p.input.lease # m.lease \/ p.input.epoch # m.epoch -> p
         [] ~Route!TakesReply(p.route, m.message) -> Bail(p, "protocol")
         [] Route!IsSwitching(sent.route) -> sent
         [] ~p.input.waiting -> Bail(p, "protocol")
         [] OTHER -> [sent EXCEPT !.input.waiting = FALSE, !.input.running = TRUE]

ReceiveInput(p, m, luck) ==
    CASE ~Cap!CurrentEpoch(p.cap, m.epoch) -> p
      [] RoleIn(p, "control", "obey") = "none" -> Bail(p, "protocol")
      [] m.message.kind = "Offer" -> ReceiveOffer(p, m, luck)
      [] OTHER -> ReceiveReply(p, m)

ReceiveInputFailed(p, m) ==
    IF Cap!CurrentEpoch(p.cap, m.epoch) /\ p.input.lease = m.lease THEN FailInput(p, FALSE) ELSE p

ReceiveInputReset(p, m, luck) ==
    IF Cap!CurrentEpoch(p.cap, m.epoch) THEN ResetInput(p, FALSE, luck) ELSE p

\* News of the peer's carriers or input policy lifts the block.
ReceiveState(p, m) ==
    LET news == [generation |-> m.generation, links |-> m.state.links, policy |-> m.state.policy] IN
    CASE m.generation = 0 \/ primary \notin m.state.links -> Bail(p, "protocol")
      [] m.generation = p.peer.generation /\ news # p.peer -> Bail(p, "protocol")
      [] m.generation <= p.peer.generation -> p
      [] OTHER -> [p EXCEPT !.peer = news,
                            !.blocked = IF p.peer = [news EXCEPT !.generation = p.peer.generation] THEN @ ELSE {}]

\* The new epoch is confirmed before its tasks are started.
ReceiveUpdate(p, m, luck) ==
    LET told == Say([p EXCEPT !.cap = Cap!ApplyRemote(@, m.generation, m.modes)], AckMessage(m.generation)) IN
    CASE Cap!RemoteRefused(p.cap, m.generation, m.modes) -> Bail(p, "protocol")
      [] m.generation = p.cap.remoteGeneration -> told
      [] OTHER -> Refresh(told, luck)

ReceiveAck(p, m, luck) ==
    LET known == [p EXCEPT !.cap = Cap!ApplyAck(@, m.generation)] IN
    CASE Cap!AckRefused(p.cap, m.generation) -> Bail(p, "protocol")
      [] m.generation < p.cap.localGeneration -> known
      [] OTHER -> Refresh(known, luck)

-----------------------------------------------------------------------------
\* The head of every turn. Whoever is being controlled or controls keeps its
\* carrier while both still have and allow it (input_route::select).
Advertise(p) ==
    LET state == [links |-> LinksOf(p), policy |-> p.policy] IN
    IF p.advertised = state THEN p
    ELSE Say([p EXCEPT !.adverts = @ + 1, !.advertised = state], StateMessage(p.adverts + 1, state))

Via(p) ==
    LET current == IF p.input.role = "none" THEN NoVia ELSE p.input.transport IN
    CASE p.peer.generation = 0 -> NoVia
      [] p.active /\ current \in Route!Usable("Input", p.policy, p.peer.policy, SharedBy(p)) -> current
      [] OTHER -> Route!ChooseRoute("Input", p.policy, p.peer.policy, SharedBy(p), current)

\* audio_path::select
Lan(p) ==
    CASE p.peer.generation = 0 \/ "lan" \notin p.peer.links -> NoBinding
      [] primary = "lan" -> SessionBinding
      [] p.tunnel = "attached" -> SessionBinding + bond.number
      [] OTHER -> NoBinding

Choose(p) == [p EXCEPT !.route = Route!UpdatePolicy(@, p.policy), !.via = Via(p), !.lan = Lan(p)]

LoopTop(p, luck) == Refresh(Then(Advertise(p), Choose), luck)

\* apply_capabilities: without a LAN address of the primary connection this end
\* turns its own audio off, for the whole session.
Offered(modes, carrier) == IF carrier = "lan" THEN modes ELSE modes \ {"play", "hear"}

NewLoop(s, scenario) ==
    [cap |-> Cap!NewCapability(s = "host", Offered(scenario.modes[s], scenario.primary),
                               scenario.modes[PeerOf(s)]),
     policy |-> scenario.policy[s], tunnel |-> "gone", via |-> NoVia, lan |-> NoBinding,
     adverts |-> 0, advertised |-> [links |-> {}, policy |-> scenario.policy[s]],
     peer |-> [generation |-> 0, links |-> {scenario.primary}, policy |-> "PreferBluetooth"],
     route |-> Route!NewRoute("Input", s = "host", "PreferBluetooth"),
     input |-> [epoch |-> <<>>, role |-> "none", transport |-> NoVia, lease |-> 0,
                waiting |-> FALSE, running |-> FALSE],
     manual |-> FALSE, blocked |-> {}, active |-> FALSE,
     sound |-> NoSound, mute |-> {}, outbox |-> <<>>, bailed |-> "no"]

PathInit ==
    \E scenario \in PathScenarios :
        LET first(s) ==
                LET told == NewLoop(s, scenario)
                    state == [links |-> {scenario.primary}, policy |-> told.policy]
                IN [told EXCEPT !.adverts = 1, !.advertised = state,
                                !.route = Route!UpdatePolicy(@, told.policy),
                                !.input.epoch = Cap!EpochOf(told.cap), !.sound.epoch = Cap!EpochOf(told.cap)]
        IN /\ loops = [s \in Sides |-> first(s)]
           /\ mail = [s \in Sides |-> <<StateMessage(1, first(PeerOf(s)).advertised)>>]
           /\ primary = scenario.primary
           /\ bond = [number |-> 0, up |-> FALSE]
           /\ left = scenario.limits
           /\ upset = FALSE

-----------------------------------------------------------------------------
AllRun == \A s \in Sides : loops[s].bailed = "no"

\* A lease on a secondary carrier may fail once the carrier is broken; an audio
\* device or port may fail at any time.
Lucks(s) ==
    [leases : IF bond.up \/ loops[s].tunnel # "attached" THEN {Route!Transports}
              ELSE {Route!Transports, {primary}},
     binds : {TRUE, left[s]["faults"] = 0}]

Turn(s, handled, inbox, luck) ==
    /\ AllRun
    /\ \E h \in {handled} :
       \E p \in {IF h.bailed = "no" THEN LoopTop(h, luck) ELSE h} :
        /\ loops' = [loops EXCEPT ![s] = [p EXCEPT !.outbox = <<>>]]
        /\ mail' = [mail EXCEPT ![s] = inbox, ![PeerOf(s)] = @ \o p.outbox]
    /\ UNCHANGED <<primary, bond>>

HandleMail(s, kind) ==
    /\ mail[s] # <<>> /\ Head(mail[s]).kind = kind
    /\ \E luck \in Lucks(s) :
        LET m == Head(mail[s])
            p == loops[s]
            handled ==
                CASE kind = "state" -> ReceiveState(p, m)
                  [] kind = "update" -> ReceiveUpdate(p, m, luck)
                  [] kind = "ack" -> ReceiveAck(p, m, luck)
                  [] kind = "input" -> ReceiveInput(p, m, luck)
                  [] kind = "inputFailed" -> ReceiveInputFailed(p, m)
                  [] kind = "inputReset" -> ReceiveInputReset(p, m, luck)
                  [] kind = "audioReady" -> ReceiveReady(p, m, luck)
                  [] kind = "audioFailed" -> ReceiveAudioFailed(p, m)
        IN Turn(s, handled, Tail(mail[s]), luck)
    /\ UNCHANGED <<left, upset>>

OfItself(s, handled) == \E luck \in Lucks(s) : Turn(s, handled, mail[s], luck)

Spend(s, kind) ==
    /\ left[s][kind] > 0
    /\ left' = [left EXCEPT ![s][kind] = @ - 1]

\* The ten seconds of an input handshake, or of the wait for a port, are over;
\* they are longer than what is already queued takes.
InputDeadline(s) ==
    /\ loops[s].input.waiting
    /\ OfItself(s, FailInput(loops[s], TRUE))
    /\ upset' = TRUE /\ UNCHANGED left

AudioDeadline(s) ==
    /\ loops[s].sound.waiting /\ mail[s] = <<>>
    /\ OfItself(s, FailAudio(loops[s], TRUE))
    /\ upset' = TRUE /\ UNCHANGED left

\* The stream of the running input ends: the carrier is gone, or the peer has
\* dropped its end of the lease (LeaseStream's END record).
Severed(s) ==
    /\ loops[s].input.running
    /\ \/ loops[s].input.transport = Spare /\ ~bond.up
       \/ loops[PeerOf(s)].input.lease # loops[s].input.lease

InputSevered(s) ==
    /\ Severed(s)
    /\ OfItself(s, FailInput(loops[s], TRUE))
    /\ UNCHANGED <<left, upset>>

InputTaskFails(s) ==
    /\ loops[s].input.running
    /\ Spend(s, "faults")
    /\ OfItself(s, FailInput(loops[s], TRUE))
    /\ upset' = TRUE

AudioTaskFails(s) ==
    /\ loops[s].sound.running
    /\ Spend(s, "faults")
    /\ OfItself(s, FailAudio(loops[s], TRUE))
    /\ upset' = TRUE

\* The user presses the reset hotkey: the task ends with its flag set.
PressReset(s) ==
    /\ loops[s].input.running
    /\ Spend(s, "resets")
    /\ \E luck \in Lucks(s) : Turn(s, ResetInput(loops[s], TRUE, luck), mail[s], luck)
    /\ UNCHANGED upset

\* The input runtime marks this end as controlling or controlled, and unmarks it.
Engage(s) ==
    /\ loops[s].input.running /\ ~loops[s].active
    /\ Spend(s, "turns")
    /\ OfItself(s, [loops[s] EXCEPT !.active = TRUE])
    /\ UNCHANGED upset

Disengage(s) ==
    /\ loops[s].active
    /\ OfItself(s, [loops[s] EXCEPT !.active = FALSE])
    /\ UNCHANGED <<left, upset>>

\* capabilities.changed: the tasks are stopped before the peer is told.
ChangeModes(s, modes) ==
    LET p == [loops[s] EXCEPT !.cap = Cap!SetLocal(@, modes)] IN
    /\ modes # loops[s].cap.local
    /\ Spend(s, "modes")
    /\ \E luck \in Lucks(s) : Turn(s, Say(Refresh(p, luck), UpdateMessage(p.cap)), mail[s], luck)
    /\ UNCHANGED upset

\* tuning.changed with input options that need the task restarted: a new policy,
\* or any other option.
ChangeOptions(s, policy) ==
    LET p == [loops[s] EXCEPT !.policy = policy, !.blocked = {}, !.cap = Cap!BumpLocal(@)] IN
    /\ Spend(s, "options")
    /\ \E luck \in Lucks(s) : Turn(s, Say(Refresh(p, luck), UpdateMessage(p.cap)), mail[s], luck)
    /\ UNCHANGED upset

\* A secondary connection is made once both ends are done with the last, and
\* breaks; each loop attaches it and takes it off by itself.
MakeBond ==
    /\ AllRun
    /\ \A s \in Sides : loops[s].tunnel = "gone"
    /\ Spend("host", "bonds")
    /\ bond' = [number |-> bond.number + 1, up |-> TRUE]
    /\ loops' = [s \in Sides |-> [loops[s] EXCEPT !.tunnel = "waiting"]]
    /\ UNCHANGED <<mail, primary, upset>>

BreakBond ==
    /\ AllRun /\ bond.up
    /\ Spend("client", "bonds")
    /\ bond' = [bond EXCEPT !.up = FALSE]
    /\ upset' = TRUE
    /\ UNCHANGED <<loops, mail, primary>>

AttachBond(s) ==
    /\ loops[s].tunnel = "waiting"
    /\ OfItself(s, [loops[s] EXCEPT !.tunnel = "attached"])
    /\ UNCHANGED <<left, upset>>

BondLost(s) == loops[s].tunnel = "attached" /\ ~bond.up

DetachBond(s) ==
    /\ BondLost(s)
    /\ OfItself(s, [loops[s] EXCEPT !.tunnel = "gone"])
    /\ UNCHANGED <<left, upset>>

MailKinds == {"state", "update", "ack", "input", "inputFailed", "inputReset", "audioReady", "audioFailed"}
Modes(s) == {loops[s].cap.local \ {"control", "obey"}, loops[s].cap.local \union {"obey"}}

PathNext ==
    \/ \E s \in Sides :
        \/ \E kind \in MailKinds : HandleMail(s, kind)
        \/ InputDeadline(s) \/ AudioDeadline(s) \/ InputSevered(s)
        \/ InputTaskFails(s) \/ AudioTaskFails(s) \/ PressReset(s)
        \/ Engage(s) \/ Disengage(s)
        \/ \E modes \in Modes(s) : ChangeModes(s, modes)
        \/ \E policy \in {loops[s].policy, "Auto"} : ChangeOptions(s, policy)
        \/ AttachBond(s) \/ DetachBond(s)
    \/ MakeBond \/ BreakBond

\* Both loops go on: whatever has come is taken in the end, clocks tick, and a
\* broken carrier is noticed.
MustGoOn(s) ==
    \/ \E kind \in MailKinds : HandleMail(s, kind)
    \/ InputDeadline(s) \/ AudioDeadline(s) \/ InputSevered(s)
    \/ AttachBond(s) \/ DetachBond(s)

PathFairness == \A s \in Sides : WF_pathVars(MustGoOn(s))

-----------------------------------------------------------------------------
\* The two ends of a running input are the two ends of one lease, one of them
\* sends and the other obeys, and no legal course of events makes an honest
\* peer look like a broken one.
PathsAgree ==
    /\ \A s \in Sides : loops[s].bailed # "protocol"
    /\ \A s \in Sides : \A mine \in {loops[s].input}, theirs \in {loops[PeerOf(s)].input} :
        mine.running /\ theirs.running =>
            /\ mine.lease = theirs.lease /\ mine.transport = theirs.transport
            /\ mine.epoch = theirs.epoch /\ mine.role # theirs.role
    /\ \A s \in Sides : \A mine \in {loops[s].sound}, theirs \in {loops[PeerOf(s)].sound} :
        mine.running /\ theirs.running /\ mine.epoch = theirs.epoch /\ mine.path = theirs.path =>
            mine.role # theirs.role

\* Nothing stays half open: in the end both ends run an input, or neither holds
\* a lease; both are on one audio path, or neither is.
InputIsWhole ==
    \/ \A s \in Sides : loops[s].input.lease = 0
    \/ /\ \A s \in Sides : loops[s].input.running
       /\ loops["host"].input.lease = loops["client"].input.lease

AudioIsWhole ==
    \/ \A s \in Sides : ~loops[s].sound.running /\ ~loops[s].sound.waiting
    \/ /\ \A s \in Sides : loops[s].sound.running
       /\ loops["host"].sound.path = loops["client"].sound.path

PathsSettle == <>[](~AllRun \/ (InputIsWhole /\ AudioIsWhole))

\* docs/bluetooth.md: only a constraint or a conflict of policies pauses the
\* input. A quiet session in which nothing failed runs it.
NothingUnderWay ==
    \A s \in Sides :
        /\ mail[s] = <<>> /\ ~loops[s].input.waiting
        /\ loops[s].tunnel = IF bond.up THEN "attached" ELSE "gone"

NoStrandedInput ==
    NothingUnderWay /\ ~upset /\ AllRun =>
        \/ \A s \in Sides : loops[s].input.running
        \/ RoleIn(loops["host"], "control", "obey") = "none"
        \/ Route!Usable("Input", loops["host"].policy, loops["client"].policy, SharedBy(loops["host"])) = {}

\* docs/changelog/0.13.0.md: a session over Bluetooth may carry its audio over a
\* secondary LAN connection. (It does not: both ends have turned it off.)
NoStrandedAudio ==
    NothingUnderWay /\ ~upset /\ AllRun /\ bond.up /\ Spare = "lan" =>
        ("hear" \in loops["host"].cap.remote /\ "play" \in loops["client"].cap.remote =>
            \A s \in Sides : loops[s].sound.running)

\* docs/changelog/0.13.0.md: the loss of a secondary carrier does not close the session.
SessionOutlivesBond == AllRun
=============================================================================
