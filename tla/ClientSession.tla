--------------------------- MODULE ClientSession ---------------------------
(***************************************************************************)
(* One client of the core library (client.rs), as the phone runs it, from  *)
(* its target to its sessions: which device it connects to and by which    *)
(* proof, which commands it reads where, and what its session and that of  *)
(* the desktop (src/app.rs) tell each other of modes, links and policies.  *)
(* A desktop stands for its identity; an address is one on the LAN or one  *)
(* of Bluetooth.  What a prompt looks like is in MobileClient, the road of *)
(* the clipboard in ClipboardPath, the binding of links in LinkBinding.    *)
(***************************************************************************)
EXTENDS CapabilityState, Sequences, FiniteSets

CONSTANTS Desks, NoDesk, \* the desktops
          Lan,           \* the addresses on the LAN; any other is one of Bluetooth
          Targets        \* what a client may be started with, who is where then, and the
                         \* bounds: how many commands of the application, changes of the
                         \* desktops, of links, of addresses, and sessions there may be

ASSUME ClientSessionAssumption ==
    /\ NoDesk \notin Desks
    /\ \A t \in Targets : t.id \in Desks \cup {NoDesk} /\ t.trusted \subseteq Desks
                          /\ t.addresses \subseteq Lan /\ Lan \subseteq DOMAIN t.where
                          /\ t.where \in [DOMAIN t.where -> Desks \cup {NoDesk}]
                          /\ t.radio \in DOMAIN t.where \cup {NoDesk}
                          /\ t.spare \in [{"wish", "desk", "link", "place", "session"} -> Nat]

VARIABLES
    phone,  \* the client: where it is, with whom and how; its configuration and its target;
            \* of the past, whom it wanted first and whether its offer was changed since
    wishes, \* what the application asked for last
    orders, \* the commands not yet read
    desks,  \* what the user of each desktop set
    where,  \* who answers at an address
    ends,   \* both ends of the session
    wire,   \* the control frames on their way to each end
    spare   \* what is left of the bounds

clientVars == <<phone, wishes, orders, desks, where, ends, wire, spare>>

Both == {"send", "receive"}
Settings == [mode : {Both, {}}, path : {"auto", "lan"}]
Chosen(settings, order) == [settings EXCEPT ![order.kind] = order.what]
Plain == [mode |-> Both, path |-> "auto"]

-----------------------------------------------------------------------------
(* Frames, and the two ends.  Of what an end said and heard of links the   *)
(* generation and the text are kept.                                       *)

Far(e) == IF e = "phone" THEN "desk" ELSE "phone"

Frame(kind, generation, text) == [kind |-> kind, gen |-> generation, text |-> text]
Update(c) == Frame("update", c.localGeneration, c.local)
Nothing == [gen |-> 0, text |-> [links |-> {}, path |-> "auto"]]

End(cap, path, link) ==
    [cap |-> cap, path |-> path, primary |-> link, second |-> FALSE, said |-> Nothing, heard |-> Nothing]
NoEnds == [e \in {"phone", "desk"} |-> End(NewCapability(e = "desk", {}, {}), "auto", "none")]
NoFrames == [e \in {"phone", "desk"} |-> <<>>]

Available(end) == IF end.second THEN {"lan", "bluetooth"} ELSE {end.primary}

\* Mutant: only the first state of the links is told.
AnnouncedOnce(end) ==
    IF end.said.gen > 0 THEN end
    ELSE [end EXCEPT !.said = [gen |-> 1, text |-> [links |-> Available(end), path |-> end.path]]]

\* The head of the loop: a state of the links not yet told has a generation of its own.
Announced(end) ==
    LET now == [links |-> Available(end), path |-> end.path] IN
    IF end.said.text = now THEN end ELSE [end EXCEPT !.said = [gen |-> @.gen + 1, text |-> now]]

\* An end goes through an arm of its loop, with these frames sent, and its head again.
Turn(e, end, sends, frames) ==
    LET new == Announced(end) IN
    /\ ends' = [ends EXCEPT ![e] = new]
    /\ wire' = [frames EXCEPT ![Far(e)] = @ \o sends \o
                   (IF new.said = end.said THEN <<>>
                    ELSE <<Frame("links", new.said.gen, new.said.text)>>)]

Spends(what) == spare[what] > 0 /\ spare' = [spare EXCEPT ![what] = @ - 1]

ClientInit == \E t \in Targets :
    /\ phone = [at |-> "idle", how |-> "none", peer |-> NoDesk, offer |-> {}, theirs |-> {},
                late |-> FALSE, set |-> Plain, trusted |-> t.trusted, wanted |-> t.id, id |-> t.id,
                addresses |-> t.addresses, radio |-> t.radio]
    /\ wishes = Plain /\ orders = <<>>
    /\ desks = [d \in Desks |-> Plain] /\ where = t.where
    /\ ends = NoEnds /\ wire = NoFrames
    /\ spare = t.spare

-----------------------------------------------------------------------------
(* The application, the desktops and the network.                          *)

\* A prompt is known by the sessions that are still to begin.
Order(kind, what) == [kind |-> kind, what |-> what, on |-> IF kind = "answer" THEN spare.session ELSE 0]
Answering == \E i \in DOMAIN orders : orders[i] \in {Order("answer", w) : w \in {"no", "yes", "remember"}}

\* A mode, a path, a list of trusted devices, or an answer to the prompt that is shown.
Wish(order) ==
    /\ phone.at # "over"
    /\ order.kind = "answer" => phone.at \in {"prompt", "asked"}
    /\ IF order.kind = "answer" /\ ~Answering THEN UNCHANGED spare ELSE Spends("wish")
    /\ orders' = Append(orders, order)
    /\ wishes' = IF order.kind \in {"mode", "path"} THEN Chosen(wishes, order) ELSE wishes
    /\ UNCHANGED <<phone, desks, where, ends, wire>>

DeskSet(d, settings) ==
    /\ Spends("desk") /\ desks[d] # settings
    /\ desks' = [desks EXCEPT ![d] = settings]
    /\ UNCHANGED <<phone, wishes, orders, where, ends, wire>>

Move(place, d) ==
    /\ Spends("place") /\ where[place] # d
    /\ where' = [where EXCEPT ![place] = d]
    /\ UNCHANGED <<phone, wishes, orders, desks, ends, wire>>

-----------------------------------------------------------------------------
(* Connecting.                                                             *)

RespondersAt(places) == {where[p] : p \in places} \ {NoDesk}
PlacesOf(d) == {p \in Lan : where[p] = d}

\* connect_with_rediscovery: the first address that answers; with none, those where the
\* device of the target is found now.
Dials ==
    IF RespondersAt(phone.addresses) # {} THEN RespondersAt(phone.addresses) \X {phone.addresses}
    ELSE IF phone.id # NoDesk /\ PlacesOf(phone.id) # {} THEN {<<phone.id, PlacesOf(phone.id)>>}
    ELSE {}

\* trusted_device_for_target.
Entry ==
    IF phone.id \in phone.trusted THEN phone.id
    ELSE IF phone.id = NoDesk /\ Cardinality(phone.trusted) = 1 THEN CHOOSE d \in phone.trusted : TRUE
    ELSE NoDesk

Primary == IF phone.radio = NoDesk THEN "lan" ELSE "bluetooth"

\* The desktop makes a generation of a mode that is not the one it offered.
HostEnd(d, offer, theirs) ==
    End(SetLocal(NewCapability(TRUE, theirs, offer), desks[d].mode), desks[d].path, Primary)

\* The session begins: the phone says its mode in generation 0, whatever it offered before.
Begins(now, offer, theirs) ==
    LET mine == End(NewCapability(FALSE, now.set.mode, theirs), now.set.path, Primary)
        other == HostEnd(now.peer, offer, theirs)
        both == [e \in {"phone", "desk"} |-> Announced(IF e = "phone" THEN mine ELSE other)]
        links == [e \in {"phone", "desk"} |-> <<Frame("links", both[e].said.gen, both[e].said.text)>>] IN
    /\ Spends("session")
    /\ phone' = [now EXCEPT !.at = "session", !.late = offer # now.set.mode]
    /\ ends' = both
    /\ wire' = [phone |-> (IF IsAcknowledged(other.cap) THEN <<>> ELSE <<Update(other.cap)>>) \o links["desk"],
                desk |-> <<Update(mine.cap)>> \o links["phone"]]

Waiting(now) == phone' = now /\ UNCHANGED <<ends, wire, spare>>

Ended == [phone EXCEPT !.at = "idle", !.how = "none", !.peer = NoDesk, !.offer = {}, !.theirs = {}, !.late = FALSE]
Over == [Ended EXCEPT !.at = "over"]

\* A session ends, or an attempt fails: the loop tries again, or a terminal failure ends it.
Leaves(now) == phone' = now /\ ends' = NoEnds /\ wire' = NoFrames /\ UNCHANGED spare

Elsewhere == UNCHANGED <<wishes, desks, where>>

\* A device that is trusted, by its key; if it fails, a prompt of whoever answers then.
DialTrusted ==
    /\ phone.at = "idle" /\ phone.radio = NoDesk /\ Entry # NoDesk
    /\ \E dialed \in Dials :
          LET now == [phone EXCEPT !.addresses = dialed[2]] IN
          \/ Waiting([now EXCEPT !.at = "bootstrap"])
          \/ /\ dialed[1] = Entry
             /\ Begins([now EXCEPT !.how = "trusted", !.peer = Entry], phone.set.mode, desks[Entry].mode)
    /\ UNCHANGED orders /\ Elsewhere

DialBootstrap ==
    /\ \/ phone.at = "idle" /\ phone.radio = NoDesk /\ Entry = NoDesk
       \/ phone.at = "bootstrap"
    /\ \/ RespondersAt(phone.addresses) = {} /\ phone.at = "bootstrap" /\ Waiting(Ended)
       \/ \E dialed \in Dials :
             Waiting([phone EXCEPT !.at = "prompt", !.peer = dialed[1], !.addresses = dialed[2]])
    /\ UNCHANGED orders /\ Elsewhere

\* Mutant: any device that answers over Bluetooth will do.
Anyone(d) == TRUE

Rightful(d) == phone.id \in {NoDesk, d}

\* connect_bluetooth: by the key of the target, or asking the user, who sees who it is.
\* What was offered stays offered while the question waits.  No failure is retried.
DialBluetooth ==
    /\ phone.at = "idle" /\ phone.radio # NoDesk /\ where[phone.radio] # NoDesk
    /\ LET d == where[phone.radio]
           now == [phone EXCEPT !.peer = d, !.offer = phone.set.mode, !.theirs = desks[d].mode] IN
       \/ Leaves(Over)
       \/ /\ phone.id \in phone.trusted /\ d = phone.id
          /\ Begins([now EXCEPT !.how = "trusted"], now.offer, now.theirs)
       \/ phone.id \notin phone.trusted /\ Rightful(d) /\ Waiting([now EXCEPT !.at = "asked"])
    /\ UNCHANGED orders /\ Elsewhere

\* Mutant: a mode is lost at a prompt.
FollowedPath(order) ==
    IF order.kind = "trust" THEN [phone EXCEPT !.trusted = order.what]
    ELSE [phone EXCEPT !.set.path = IF order.kind = "path" THEN order.what ELSE @]

\* A list or a setting is taken over; the mode of a LAN session is offered after its prompt.
Followed(order) ==
    IF order.kind = "trust" THEN [phone EXCEPT !.trusted = order.what]
    ELSE [phone EXCEPT !.set = Chosen(@, order)]

Paired(trusts, how) ==
    [phone EXCEPT !.how = how, !.trusted = IF trusts THEN @ \cup {phone.peer} ELSE @]

PromptHears ==
    /\ phone.at \in {"prompt", "asked"} /\ orders # <<>> /\ orders' = Tail(orders)
    /\ LET order == Head(orders)
           answers == order = Order("answer", order.what) IN
       \/ order.kind # "answer" /\ Waiting(Followed(order))
       \/ order.kind = "answer" /\ ~answers /\ phone.at = "asked" /\ Waiting(phone)
       \* Refused, or what follows fails; a PIN belongs to no prompt.
       \/ order.kind = "answer" /\ (answers \/ phone.at = "prompt") /\ Leaves(Over)
       \/ /\ answers /\ order.what # "no" /\ phone.at = "prompt"
          /\ \E trusts \in BOOLEAN : \* the user of the desktop decides
                Begins(Paired(trusts, "pin"), phone.set.mode, desks[phone.peer].mode)
       \/ /\ answers /\ order.what # "no" /\ phone.at = "asked"
          /\ Begins([Paired(order.what = "remember", "asked")
                       EXCEPT !.id = phone.peer, !.wanted = IF @ = NoDesk THEN phone.peer ELSE @],
                    phone.offer, phone.theirs)
    /\ Elsewhere

\* The user stops the client, or a prompt fails or takes too long.
ClientStops == phone.at # "over" /\ Leaves(Over) /\ UNCHANGED orders /\ Elsewhere

-----------------------------------------------------------------------------
(* The session: run_session and its counterpart in app.rs.                 *)

InSession == phone.at = "session"
SessionFails == InSession /\ Leaves(Ended) /\ UNCHANGED orders /\ Elsewhere

\* Mutant: a list is taken over, and nothing else.
NeverRevokes(list) == FALSE

Revokes(list) == phone.peer \in phone.trusted \ list

\* A mode that is another one is told in a generation of its own.
Reset(e, mode) ==
    LET cap == SetLocal(ends[e].cap, mode) IN
    [end |-> [ends[e] EXCEPT !.cap = cap],
     says |-> IF cap.localGeneration = ends[e].cap.localGeneration THEN <<>> ELSE <<Update(cap)>>]

SessionHears ==
    /\ InSession /\ orders # <<>> /\ orders' = Tail(orders)
    /\ LET order == Head(orders) IN
       \/ order.kind = "answer" /\ UNCHANGED <<phone, ends, wire, spare>>
       \/ /\ order.kind = "trust"
          /\ IF Revokes(order.what) THEN Leaves([Over EXCEPT !.trusted = order.what])
             ELSE Waiting(Followed(order))
       \/ /\ order.kind = "path"
          /\ phone' = Followed(order) /\ UNCHANGED spare
          /\ Turn("phone", [ends["phone"] EXCEPT !.path = order.what], <<>>, wire)
       \/ /\ order.kind = "mode"
          /\ phone' = Followed(order) /\ UNCHANGED spare
          /\ LET new == Reset("phone", order.what) IN Turn("phone", new.end, new.says, wire)
    /\ Elsewhere

\* The desktop watches its settings; it may miss what was undone meanwhile.
DeskHears ==
    /\ InSession
    /\ LET set == desks[phone.peer]
           new == Reset("desk", set.mode) IN
       \/ ends["desk"].cap.local # set.mode /\ Turn("desk", new.end, new.says, wire)
       \/ ends["desk"].path # set.path /\ Turn("desk", [ends["desk"] EXCEPT !.path = set.path], <<>>, wire)
    /\ UNCHANGED <<phone, orders, spare>> /\ Elsewhere

\* Other settings of its input: a new generation of the same.
DeskRestarts ==
    /\ InSession /\ Spends("desk")
    /\ LET cap == BumpLocal(ends["desk"].cap) IN
       Turn("desk", [ends["desk"] EXCEPT !.cap = cap], <<Update(cap)>>, wire)
    /\ UNCHANGED <<phone, orders>> /\ Elsewhere

\* The second link of an end comes, or breaks.
LinkTurns(e) ==
    /\ InSession /\ Spends("link")
    /\ Turn(e, [ends[e] EXCEPT !.second = ~@], <<>>, wire)
    /\ UNCHANGED <<phone, orders>> /\ Elsewhere

\* What an end does not accept.
Refuses(e, frame) ==
    LET end == ends[e] IN
    CASE frame.kind = "update" -> RemoteRefused(end.cap, frame.gen, frame.text)
      [] frame.kind = "ack" -> AckRefused(end.cap, frame.gen)
      [] frame.kind = "links" ->
            \/ frame.gen = 0 \/ end.primary \notin frame.text.links
            \/ frame.gen = end.heard.gen /\ frame.text # end.heard.text

\* The phone confirms an update that is new to it, the desktop every one.
Accepts(e, frame) ==
    LET end == ends[e]
        taken == [wire EXCEPT ![e] = Tail(@)] IN
    \/ /\ frame.kind = "update"
       /\ LET cap == ApplyRemote(end.cap, frame.gen, frame.text) IN
          Turn(e, [end EXCEPT !.cap = cap],
               IF e = "desk" \/ cap # end.cap THEN <<Frame("ack", frame.gen, {})>> ELSE <<>>, taken)
    \/ frame.kind = "ack" /\ Turn(e, [end EXCEPT !.cap = ApplyAck(@, frame.gen)], <<>>, taken)
    \/ /\ frame.kind = "links"
       /\ Turn(e, [end EXCEPT !.heard = IF frame.gen > @.gen THEN [gen |-> frame.gen, text |-> frame.text]
                                       ELSE @], <<>>, taken)

\* A refusal ends the session; but the phone only ignores a mode or an ack.
Receives(e) ==
    /\ wire[e] # <<>> /\ UNCHANGED orders /\ Elsewhere
    /\ LET frame == Head(wire[e]) IN
       IF ~Refuses(e, frame) THEN Accepts(e, frame) /\ UNCHANGED <<phone, spare>>
       ELSE IF e = "desk" \/ frame.kind = "links" THEN Leaves(Ended)
       ELSE Turn(e, ends[e], <<>>, [wire EXCEPT ![e] = Tail(@)]) /\ UNCHANGED <<phone, spare>>

-----------------------------------------------------------------------------
ClientNext ==
    \/ \E mode \in {Both, {}} : Wish(Order("mode", mode))
    \/ \E path \in {"auto", "lan"} : Wish(Order("path", path))
    \/ \E list \in SUBSET Desks : Wish(Order("trust", list))
    \/ \E answer \in {"no", "yes", "remember"} : Wish(Order("answer", answer))
    \/ \E d \in Desks, settings \in Settings : DeskSet(d, settings)
    \/ \E place \in DOMAIN where, d \in Desks \cup {NoDesk} : Move(place, d)
    \/ DialTrusted \/ DialBootstrap \/ DialBluetooth \/ PromptHears \/ ClientStops
    \/ SessionHears \/ DeskHears \/ DeskRestarts \/ SessionFails
    \/ \E e \in {"phone", "desk"} : LinkTurns(e) \/ Receives(e)

ClientSpec == ClientInit /\ [][ClientNext]_clientVars

-----------------------------------------------------------------------------
ClientTypeOK ==
    /\ phone.at \in {"idle", "bootstrap", "prompt", "asked", "session", "over"}
    /\ phone.trusted \subseteq Desks /\ {phone.peer, phone.id} \subseteq Desks \cup {NoDesk}
    /\ phone.set \in Settings /\ desks \in [Desks -> Settings]

\* Neither end refuses what the other one says of its modes, links and policies (apply_remote,
\* apply_ack, the checks of TransportState), whatever is changed when, at a prompt, before or
\* in the session; except after a mode was changed while the question of Bluetooth waited.
NothingRefused ==
    InSession /\ ~phone.late => \A e \in DOMAIN wire : wire[e] # <<>> => ~Refuses(e, Head(wire[e]))

\* The same of every session: a direction can be changed at any time, and what one end of
\* a session says the other one takes.  It does not hold: after a mode was changed while
\* the question waited, the desktop ends the session that follows.
NothingEverRefused ==
    \A e \in DOMAIN wire : wire[e] # <<>> => ~Refuses(e, Head(wire[e]))

\* When nothing is on its way, both ends agree with what was set last on either side, also
\* with what was set before the session, and each knows the links and the policy of the other.
SettingsArrive ==
    InSession /\ orders = <<>> /\ wire = NoFrames
        /\ ends["desk"].path = desks[phone.peer].path /\ ends["desk"].cap.local = desks[phone.peer].mode
    => /\ ends["phone"].cap.local = wishes.mode /\ ends["phone"].path = wishes.path
       /\ \A e \in DOMAIN ends :
             LET mine == ends[e]
                 other == ends[Far(e)] IN
             /\ mine.cap.remote = other.cap.local /\ IsAcknowledged(mine.cap)
             /\ mine.heard.text = [links |-> Available(other), path |-> other.path]

\* A session without a PIN is with the device that was wanted, the one of the target or the
\* one it was first answered for; a session that began by trust lasts no longer than the trust.  What an
\* address leads to may change meanwhile, and so may the list of trusted devices.
RightPeer ==
    InSession =>
        /\ phone.how # "pin" => phone.wanted \in {NoDesk, phone.peer}
        /\ phone.how = "trusted" => phone.peer \in phone.trusted

\* All of it.
PhoneIsTrue == NothingRefused /\ SettingsArrive /\ RightPeer
=============================================================================
