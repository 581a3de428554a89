---------------------------- MODULE ProtocolsProofs ----------------------------
(***************************************************************************)
(* Protocols that stand by themselves keep their promises whatever is      *)
(* lost, repeated, overtaken or late: the credit scheme for every window,  *)
(* the switch of a channel for any number of switches, the service of      *)
(* Windows for any situation it is found in.                               *)
(***************************************************************************)
EXTENDS MuxCredit, RouteHandover, InputService, Discovery, BluetoothAuth, TLAPS

--------------------------------------------------------------------------------
(* The credits of the multiplexer.                                         *)

\* The counters as natural numbers: with CreditConserved this is inductive.
Counters ==
    /\ credits \in [Flows -> Nat]
    /\ data \in [Flows -> Nat]
    /\ queue \in [Flows -> Nat]
    /\ grants \in [Flows -> Nat]
    /\ window \in [Flows -> Nat]
    /\ returning \in [Flows -> Nat]
    /\ restored \in [Flows -> Nat]

CreditInv == Counters /\ CreditConserved

\* Every credit counter starts in its place.
LEMMA CreditInitInv == Init => CreditInv
BY WAssumption DEF Init, CreditInv, Counters, CreditConserved, Balanced, Full, Zero

\* Every step moves a credit from one place to the next.
LEMMA CreditStepInv == CreditInv /\ [Next]_vars => CreditInv'
<1> SUFFICES ASSUME CreditInv, [Next]_vars
             PROVE  CreditInv'
    OBVIOUS
<1> USE WAssumption DEF CreditInv, Counters, CreditConserved, Balanced
<1>1. ASSUME NEW f \in Flows, Send(f)
      PROVE  CreditInv'
  <2>1. Counters'
      BY <1>1 DEF Send
  <2>2. ASSUME NEW g \in Flows
        PROVE  Balanced(g)'
    <3>1. CASE g = f
        BY <1>1, <3>1 DEF Send
    <3>2. CASE g # f
        BY <1>1, <3>2 DEF Send
    <3>3. QED
        BY <3>1, <3>2
  <2>3. QED
      BY <2>1, <2>2
<1>2. ASSUME NEW f \in Flows, Arrive(f)
      PROVE  CreditInv'
  <2>0. window[f] > 0
      BY <1>2 DEF Arrive
  <2>1. Counters'
      BY <1>2, <2>0 DEF Arrive
  <2>2. ASSUME NEW g \in Flows
        PROVE  Balanced(g)'
    <3>1. CASE g = f
      <4>1. /\ data'[f] = data[f] - 1
            /\ window'[f] = window[f] - 1
            /\ queue'[f] = queue[f] + 1
          BY <1>2 DEF Arrive
      <4>2. UNCHANGED <<credits, grants, returning, restored>>
          BY <1>2 DEF Arrive
      <4>3. /\ credits[f] \in Nat /\ data[f] \in Nat /\ queue[f] \in Nat
            /\ grants[f] \in Nat /\ window[f] \in Nat
            /\ returning[f] \in Nat /\ restored[f] \in Nat
          BY <1>2
      <4>4. Balanced(f)
          OBVIOUS
      <4>5. QED
          BY <3>1, <4>1, <4>2, <4>3, <4>4
    <3>2. CASE g # f
        BY <1>2, <2>0, <3>2 DEF Arrive
    <3>3. QED
        BY <3>1, <3>2
  <2>3. QED
      BY <2>1, <2>2
<1>3. ASSUME NEW f \in Flows, Deliver(f)
      PROVE  CreditInv'
  <2>1. Counters'
      BY <1>3 DEF Deliver
  <2>2. ASSUME NEW g \in Flows
        PROVE  Balanced(g)'
    <3>1. CASE g = f
        BY <1>3, <3>1 DEF Deliver
    <3>2. CASE g # f
        BY <1>3, <3>2 DEF Deliver
    <3>3. QED
        BY <3>1, <3>2
  <2>3. QED
      BY <2>1, <2>2
<1>4. ASSUME NEW f \in Flows, Grant(f)
      PROVE  CreditInv'
  <2>1. Counters'
      BY <1>4 DEF Grant
  <2>2. ASSUME NEW g \in Flows
        PROVE  Balanced(g)'
    <3>1. CASE g = f
      <4>1. /\ grants'[f] = grants[f] - 1
            /\ window'[f] = window[f] + 1
            /\ returning'[f] = returning[f] + 1
          BY <1>4 DEF Grant
      <4>2. UNCHANGED <<credits, data, queue, restored>>
          BY <1>4 DEF Grant
      <4>3. QED
          BY <1>4, <3>1, <4>1, <4>2
    <3>2. CASE g # f
        BY <1>4, <3>2 DEF Grant
    <3>3. QED
        BY <3>1, <3>2
  <2>3. QED
      BY <2>1, <2>2
<1>5. ASSUME NEW f \in Flows, Return(f)
      PROVE  CreditInv'
  <2>1. Counters'
      BY <1>5 DEF Return
  <2>2. ASSUME NEW g \in Flows
        PROVE  Balanced(g)'
    <3>1. CASE g = f
        BY <1>5, <3>1 DEF Return
    <3>2. CASE g # f
        BY <1>5, <3>2 DEF Return
    <3>3. QED
        BY <3>1, <3>2
  <2>3. QED
      BY <2>1, <2>2
<1>6. ASSUME NEW f \in Flows, Restore(f)
      PROVE  CreditInv'
  <2>1. Counters'
      BY <1>6 DEF Restore
  <2>2. ASSUME NEW g \in Flows
        PROVE  Balanced(g)'
    <3>1. CASE g = f
        BY <1>6, <3>1 DEF Restore
    <3>2. CASE g # f
        BY <1>6, <3>2 DEF Restore
    <3>3. QED
        BY <3>1, <3>2
  <2>3. QED
      BY <2>1, <2>2
<1>7. CASE UNCHANGED vars
    BY <1>7 DEF vars
<1>8. QED
    BY <1>1, <1>2, <1>3, <1>4, <1>5, <1>6, <1>7 DEF Next

\* No credit is lost or minted, for every window size.
THEOREM CreditsConserved == Spec => []CreditConserved
<1>1. CreditInv => CreditConserved
    BY DEF CreditInv
<1>2. QED
    BY <1>1, CreditInitInv, CreditStepInv, PTL DEF Spec

\* Every counter stays within the window, for every window size.
THEOREM CreditTypeCorrect == Spec => []TypeOK
<1>1. CreditInv => TypeOK
    BY WAssumption DEF CreditInv, Counters, CreditConserved, Balanced, TypeOK
<1>2. QED
    BY <1>1, CreditInitInv, CreditStepInv, PTL DEF Spec

\* The four conditions on which mux.rs closes the connection never hold.
THEOREM NeverOverrun == Spec => []NoOverrun
<1>1. CreditInv => NoOverrun
    BY WAssumption DEF CreditInv, Counters, CreditConserved, Balanced, NoOverrun
<1>2. QED
    BY <1>1, CreditInitInv, CreditStepInv, PTL DEF Spec

\* One lane's events at a side never exceed two windows.
LEMMA LaneEventsBound ==
    ASSUME CreditInv, NEW s \in Sides, NEW l \in Lanes
    PROVE  LaneEvents(s, l) \in 0..(2 * W)
<1>1. <<s, l>> \in Flows /\ <<Peer(s), l>> \in Flows
    BY DEF Flows, Peer, Sides
<1>2. grants[<<Peer(s), l>>] \in 0..W
    BY <1>1, WAssumption DEF CreditInv, Counters, CreditConserved, Balanced
<1>3. restored[<<s, l>>] \in 0..W
    BY <1>1, WAssumption DEF CreditInv, Counters, CreditConserved, Balanced
<1>4. QED
    BY <1>2, <1>3, WAssumption DEF LaneEvents

\* A fragment still to be granted, or a credit still to be taken, leaves a
\* place free for its own event in the lane's share of the queue.
LEMMA LaneEventsRoom ==
    ASSUME CreditInv, NEW s \in Sides, NEW l \in Lanes,
           queue[<<Peer(s), l>>] > 0 \/ returning[<<s, l>>] > 0
    PROVE  LaneEvents(s, l) < 2 * W
<1>1. <<s, l>> \in Flows /\ <<Peer(s), l>> \in Flows
    BY DEF Flows, Peer, Sides
<1>2. /\ grants[<<Peer(s), l>>] \in 0..W
      /\ queue[<<Peer(s), l>>] > 0 => grants[<<Peer(s), l>>] < W
    BY <1>1, WAssumption DEF CreditInv, Counters, CreditConserved, Balanced
<1>3. /\ restored[<<s, l>>] \in 0..W
      /\ returning[<<s, l>>] > 0 => restored[<<s, l>>] < W
    BY <1>1, WAssumption DEF CreditInv, Counters, CreditConserved, Balanced
<1>4. QED
    BY <1>2, <1>3, WAssumption DEF LaneEvents

\* The event queue of 6W places has room for every event about to be added.
THEOREM EventsRoom == Spec => []EventsNeverBlock
<1>1. ASSUME CreditInv
      PROVE  EventsNeverBlock
  <2>1. ASSUME NEW s \in Sides, NEW l \in Lanes, LaneEvents(s, l) < 2 * W
        PROVE  EventsAt(s) < 6 * W
    <3>1. /\ LaneEvents(s, "control") \in 0..(2 * W)
          /\ LaneEvents(s, "input") \in 0..(2 * W)
          /\ LaneEvents(s, "clipboard") \in 0..(2 * W)
        BY <1>1, LaneEventsBound DEF Lanes
    <3>2. l = "control" \/ l = "input" \/ l = "clipboard"
        BY DEF Lanes
    <3>3. QED
        BY <2>1, <3>1, <3>2, WAssumption DEF EventsAt
  <2>2. SUFFICES ASSUME NEW f \in Flows
                 PROVE  /\ queue[f] > 0 => EventsAt(Peer(f[1])) < 6 * W
                        /\ returning[f] > 0 => EventsAt(f[1]) < 6 * W
      BY DEF EventsNeverBlock
  <2>3. PICK s \in Sides, l \in Lanes : f = <<s, l>>
      BY DEF Flows
  <2>4. Peer(s) \in Sides /\ Peer(Peer(s)) = s /\ f[1] = s
      BY <2>3 DEF Peer, Sides
  <2>5. ASSUME queue[f] > 0
        PROVE  EventsAt(Peer(s)) < 6 * W
      BY <1>1, <2>1, <2>3, <2>4, <2>5, LaneEventsRoom
  <2>6. ASSUME returning[f] > 0
        PROVE  EventsAt(s) < 6 * W
      BY <1>1, <2>1, <2>3, <2>4, <2>6, LaneEventsRoom
  <2>7. QED
      BY <2>4, <2>5, <2>6
<1>2. QED
    BY <1>1, CreditInitInv, CreditStepInv, PTL DEF Spec

--------------------------------------------------------------------------------
(* The switch of a functional channel.                                     *)

\* A side is on no switch later than it has heard of, and accepts and sends
\* only on the switch it is on; the client never runs ahead of the host.
Ordered ==
    /\ highest["client"] <= highest["host"]
    /\ \A s \in Ends :
        /\ current[s] <= highest[s]
        /\ listen[s] \in {None, current[s]}

\* Side s, if it is on switch g, accepts its data.
Hears(s, g) == current[s] = g => listen[s] = g

\* What each message under way says of the two sides.
OfferSays == \A g \in Epochs : Message("Offer", g) \in messages => g <= highest["host"]
ReadySays == \A g \in Epochs : Message("Ready", g) \in messages => g <= highest["client"]
CommitSays ==
    \A g \in Epochs : Message("Commit", g) \in messages =>
        g <= highest["client"] /\ Hears("host", g)
CommittedSays ==
    \A g \in Epochs : Message("Committed", g) \in messages =>
        g <= highest["client"] /\ Hears("host", g) /\ Hears("client", g)

\* What a side that sends, and what a frame under way, says of them.
SpeakerSays ==
    \A s \in Ends : speak[s] # None =>
        /\ current[s] = speak[s] /\ listen[s] = speak[s]
        /\ speak[s] <= highest["client"]
        /\ Hears(Partner(s), speak[s])
FrameSays ==
    \A s \in Ends, g \in Epochs : Frame(s, g) \in frames =>
        g <= highest["client"] /\ Hears(s, g)

HandoverInv ==
    /\ HandoverTypeOK
    /\ Ordered
    /\ OfferSays /\ ReadySays /\ CommitSays /\ CommittedSays
    /\ SpeakerSays /\ FrameSays

\* The two sides are different, and each is the other's peer.
LEMMA PeerFacts ==
    /\ Partner("host") = "client" /\ Partner("client") = "host"
    /\ "host" \in Ends /\ "client" \in Ends
    /\ \A s \in Ends : s = "host" \/ s = "client"
BY DEF Partner, Ends

\* A message or a frame is determined by its fields.
LEMMA Distinct ==
    /\ \A j, k, g, h : Message(j, g) = Message(k, h) => j = k /\ g = h
    /\ \A s, t, g, h : Frame(s, g) = Frame(t, h) => s = t /\ g = h
BY DEF Message, Frame

\* Nothing has begun.
LEMMA HandoverInitInv == HandoverInit => HandoverInv
BY MaxEpochAssumption DEF HandoverInit, HandoverInv, HandoverTypeOK, Places, MessageSet, FrameSet, Epochs, Ends,
    Nowhere, None, Ordered, OfferSays, ReadySays, CommitSays, CommittedSays, SpeakerSays, FrameSays

\* Every step of either side, and every loss, keeps what the messages say true.
LEMMA HandoverStepInv == HandoverInv /\ [HandoverNext]_handoverVars => HandoverInv'
<1> SUFFICES ASSUME HandoverInv, [HandoverNext]_handoverVars
             PROVE  HandoverInv'
    OBVIOUS
<1> USE MaxEpochAssumption, PeerFacts DEF HandoverInv, None
<1>1. ASSUME NEW g \in Epochs, NEW stay \in BOOLEAN, Begin(g, stay)
      PROVE  HandoverInv'
  <2>1. HandoverTypeOK'
      BY <1>1 DEF Begin, Carry, HandoverTypeOK, Places, MessageSet, FrameSet, Epochs, Message, Frame, Partner
  <2>2. Ordered'
      BY <1>1 DEF Begin, HandoverTypeOK, Places, Epochs, Ordered, OfferSays, Hears
  <2>3. OfferSays' /\ ReadySays' /\ CommitSays' /\ CommittedSays'
      BY <1>1, Distinct DEF Begin, Carry, HandoverTypeOK, Places, Epochs, Ordered, Hears,
          OfferSays, ReadySays, CommitSays, CommittedSays
  <2>4. SpeakerSays' /\ FrameSays'
      BY <1>1, Distinct DEF Begin, Carry, HandoverTypeOK, Places, Epochs, Ordered, Hears,
          CommitSays, CommittedSays, SpeakerSays, FrameSays
  <2>5. QED
      BY <2>1, <2>2, <2>3, <2>4
<1>2. ASSUME NEW g \in Epochs, NEW stay \in BOOLEAN, Join(g, stay)
      PROVE  HandoverInv'
  <2>1. HandoverTypeOK'
      BY <1>2 DEF Join, Carry, HandoverTypeOK, Places, MessageSet, FrameSet, Epochs, Message, Frame, Partner
  <2>2. Ordered'
      BY <1>2 DEF Join, HandoverTypeOK, Places, Epochs, Ordered, OfferSays, Hears
  <2>3. OfferSays' /\ ReadySays' /\ CommitSays' /\ CommittedSays'
      BY <1>2, Distinct DEF Join, Carry, HandoverTypeOK, Places, Epochs, Ordered, Hears,
          OfferSays, ReadySays, CommitSays, CommittedSays
  <2>4. SpeakerSays' /\ FrameSays'
      BY <1>2, Distinct DEF Join, Carry, HandoverTypeOK, Places, Epochs, Ordered, Hears,
          CommitSays, CommittedSays, SpeakerSays, FrameSays
  <2>5. QED
      BY <2>1, <2>2, <2>3, <2>4
<1>3. ASSUME NEW g \in Epochs, Confirm(g)
      PROVE  HandoverInv'
  <2>1. HandoverTypeOK'
      BY <1>3 DEF Confirm, Carry, HandoverTypeOK, Places, MessageSet, FrameSet, Epochs, Message, Frame, Partner
  <2>2. Ordered'
      BY <1>3 DEF Confirm, HandoverTypeOK, Places, Epochs, Ordered, OfferSays, Hears
  <2>3. OfferSays' /\ ReadySays' /\ CommitSays' /\ CommittedSays'
      BY <1>3, Distinct DEF Confirm, Carry, HandoverTypeOK, Places, Epochs, Ordered, Hears,
          OfferSays, ReadySays, CommitSays, CommittedSays
  <2>4. SpeakerSays' /\ FrameSays'
      BY <1>3, Distinct DEF Confirm, Carry, HandoverTypeOK, Places, Epochs, Ordered, Hears,
          CommitSays, CommittedSays, SpeakerSays, FrameSays
  <2>5. QED
      BY <2>1, <2>2, <2>3, <2>4
<1>4. ASSUME NEW g \in Epochs, Finish(g)
      PROVE  HandoverInv'
  <2>1. HandoverTypeOK'
      BY <1>4 DEF Finish, Carry, HandoverTypeOK, Places, MessageSet, FrameSet, Epochs, Message, Frame, Partner
  <2>2. Ordered'
      BY <1>4 DEF Finish, HandoverTypeOK, Places, Epochs, Ordered, OfferSays, Hears
  <2>3. OfferSays' /\ ReadySays' /\ CommitSays' /\ CommittedSays'
      BY <1>4, Distinct DEF Finish, Carry, HandoverTypeOK, Places, Epochs, Ordered, Hears,
          OfferSays, ReadySays, CommitSays, CommittedSays
  <2>4. SpeakerSays' /\ FrameSays'
      BY <1>4, Distinct DEF Finish, Carry, HandoverTypeOK, Places, Epochs, Ordered, Hears,
          CommitSays, CommittedSays, SpeakerSays, FrameSays
  <2>5. QED
      BY <2>1, <2>2, <2>3, <2>4
<1>5. ASSUME NEW g \in Epochs, Open(g)
      PROVE  HandoverInv'
  <2>1. HandoverTypeOK'
      BY <1>5 DEF Open, Carry, HandoverTypeOK, Places, MessageSet, FrameSet, Epochs, Message, Frame, Partner
  <2>2. Ordered'
      BY <1>5 DEF Open, HandoverTypeOK, Places, Epochs, Ordered, OfferSays, Hears
  <2>3. OfferSays' /\ ReadySays' /\ CommitSays' /\ CommittedSays'
      BY <1>5, Distinct DEF Open, Carry, HandoverTypeOK, Places, Epochs, Ordered, Hears,
          OfferSays, ReadySays, CommitSays, CommittedSays
  <2>4. SpeakerSays' /\ FrameSays'
      BY <1>5, Distinct DEF Open, Carry, HandoverTypeOK, Places, Epochs, Ordered, Hears,
          CommitSays, CommittedSays, SpeakerSays, FrameSays
  <2>5. QED
      BY <2>1, <2>2, <2>3, <2>4
<1>6. ASSUME NEW s \in Ends, Talk(s)
      PROVE  HandoverInv'
  <2>1. HandoverTypeOK'
      BY <1>6 DEF Talk, Carry, HandoverTypeOK, Places, MessageSet, FrameSet, Epochs, Message, Frame, Partner
  <2>2. Ordered'
      BY <1>6 DEF Talk, HandoverTypeOK, Places, Epochs, Ordered, OfferSays, Hears
  <2>3. OfferSays' /\ ReadySays' /\ CommitSays' /\ CommittedSays'
      BY <1>6, Distinct DEF Talk, Carry, HandoverTypeOK, Places, Epochs, Ordered, Hears,
          OfferSays, ReadySays, CommitSays, CommittedSays
  <2>4. SpeakerSays' /\ FrameSays'
      BY <1>6, Distinct DEF Talk, Carry, HandoverTypeOK, Places, Epochs, Ordered, Hears,
          CommitSays, CommittedSays, SpeakerSays, FrameSays
  <2>5. QED
      BY <2>1, <2>2, <2>3, <2>4
<1>7. ASSUME NEW s \in Ends, Leave(s)
      PROVE  HandoverInv'
  <2>1. HandoverTypeOK'
      BY <1>7 DEF Leave, Carry, HandoverTypeOK, Places, MessageSet, FrameSet, Epochs, Message, Frame, Partner
  <2>2. Ordered'
      BY <1>7 DEF Leave, HandoverTypeOK, Places, Epochs, Ordered, OfferSays, Hears
  <2>3. OfferSays' /\ ReadySays' /\ CommitSays' /\ CommittedSays'
      BY <1>7, Distinct DEF Leave, Carry, HandoverTypeOK, Places, Epochs, Ordered, Hears,
          OfferSays, ReadySays, CommitSays, CommittedSays
  <2>4. SpeakerSays' /\ FrameSays'
      BY <1>7, Distinct DEF Leave, Carry, HandoverTypeOK, Places, Epochs, Ordered, Hears,
          CommitSays, CommittedSays, SpeakerSays, FrameSays
  <2>5. QED
      BY <2>1, <2>2, <2>3, <2>4
<1>8. CASE Lose
    BY <1>8 DEF Lose, Carry, HandoverTypeOK, Places, MessageSet, FrameSet, Ordered, Hears,
        OfferSays, ReadySays, CommitSays, CommittedSays, SpeakerSays, FrameSays
<1>9. CASE UNCHANGED handoverVars
    BY <1>9 DEF handoverVars, HandoverTypeOK, Places, MessageSet, FrameSet, Ordered, Hears,
        OfferSays, ReadySays, CommitSays, CommittedSays, SpeakerSays, FrameSays
<1>10. QED
    BY <1>1, <1>2, <1>3, <1>4, <1>5, <1>6, <1>7, <1>8, <1>9 DEF HandoverNext

\* What a frame and a speaker say is what the two safety properties ask for.
LEMMA HandoverInvImplies == HandoverInv => HandoverTypeOK /\ NoCommitRace /\ SpeakersAreHeard
BY DEF HandoverInv, NoCommitRace, SpeakersAreHeard, FrameSays, SpeakerSays, Hears

\* A step that puts a side on another switch puts it on a later one.
LEMMA StepNeverResumes ==
    ASSUME HandoverInv, [HandoverNext]_handoverVars, NEW s \in Ends, current'[s] \notin {None, current[s]}
    PROVE  current'[s] > highest[s]
<1> USE DEF HandoverInv, HandoverTypeOK, Places, Epochs, None
<1>1. CASE \E g \in Epochs, stay \in BOOLEAN : Begin(g, stay) \/ Join(g, stay)
    BY <1>1 DEF Begin, Join
<1>2. CASE \E t \in Ends : Leave(t)
    BY <1>2 DEF Leave
<1>3. CASE UNCHANGED current
    BY <1>3
<1>4. QED
    BY <1>1, <1>2, <1>3 DEF HandoverNext, Confirm, Finish, Open, Talk, Lose, handoverVars

\* The switch numbers stay within the bound (the fields of ChannelRoute).
THEOREM HandoverTypeCorrect == HandoverSpec => []HandoverTypeOK
<1>1. QED
    BY HandoverInitInv, HandoverStepInv, HandoverInvImplies, PTL DEF HandoverSpec

\* No data is thrown away because it overtook Commit or Committed on a faster
\* carrier (receive_message makes the side accept before it replies).
THEOREM DataNeverOvertakes == HandoverSpec => []NoCommitRace
<1>1. QED
    BY HandoverInitInv, HandoverStepInv, HandoverInvImplies, PTL DEF HandoverSpec

\* A side that sends is on the switch it sends on, and the other side, if it is
\* on that switch too, accepts (begin and cancel clear send with receive).
THEOREM SpeakersHeard == HandoverSpec => []SpeakersAreHeard
<1>1. QED
    BY HandoverInitInv, HandoverStepInv, HandoverInvImplies, PTL DEF HandoverSpec

\* Late and repeated offers never bring an abandoned switch back (highest_epoch).
THEOREM NoResumption == HandoverSpec => NeverResumed
<1>1. HandoverInv /\ [HandoverNext]_handoverVars =>
        [\A s \in Ends : current'[s] \notin {None, current[s]} => current'[s] > highest[s]]_handoverVars
    BY StepNeverResumes
<1>2. QED
    BY <1>1, HandoverInitInv, HandoverStepInv, PTL DEF HandoverSpec, NeverResumed

--------------------------------------------------------------------------------
(* The service of Windows that starts input agents.                        *)

\* Where the executable of a service may be.
Paths == {s.path : s \in Situations} \cup {Here, "none"}

Commands == [cmd : {"none", "install", "restart", "uninstall"},
             at : {"none", "open", "look", "stop", "start", "wait", "delete", "done", "refused"},
             was : Nat, ok : BOOLEAN]

Processes == [at : {"none", "starting", "top", "listening", "serving", "closing", "leaving"},
              gen : Nat, path : Paths, stale : BOOLEAN, stop : BOOLEAN, session : 0 .. 2,
              client : Requesters \cup {"none"}]

Turns == {"idle", "aligning", "restarting", "checking", "missing", "once", "marking", "installing",
          "connecting", "connected", "waiting", "mismatch", "repairing", "starting", "legacy"}
Responses == {"none", "ok", "path", "session", "other"}

Asking == [at : Turns, reply : Responses, answered : Nat, again : BOOLEAN]

ServiceTypes ==
    /\ scm \in [path : Paths, state : {"stopped", "starting", "running", "stopping"}]
    /\ proc \in Processes /\ console \in 0 .. 2
    /\ agents \subseteq [by : Requesters, session : 0 .. 2, job : BOOLEAN]
    /\ request \in [Requesters -> Asking]
    /\ elevated \in [Askers -> Commands]

\* The pipe has a client while it serves one, and a process that is there has its number.
PipeHasClient ==
    /\ proc.at \in {"serving", "closing"} <=> proc.client # "none"
    /\ proc.at # "none" => proc.gen # 0

\* A service that is reported as stopped serves nobody any more.
StoppedIsIdle == scm.state = "stopped" => proc.at \in {"none", "leaving"}

\* Only a restart remembers the process it stops, and it is over once a later one was started.
RestartRemembers ==
    \A a \in Askers :
       /\ elevated[a].was <= proc.gen
       /\ elevated[a].was # 0 => elevated[a].cmd = "restart"
       /\ elevated[a].at = "done" /\ elevated[a].ok => elevated[a].was = 0 \/ elevated[a].was < proc.gen
       /\ elevated[a].at = "open" => elevated[a].was = 0

AnswersArePast == \A r \in Requesters : request[r].answered <= proc.gen

ServiceInv ==
    /\ ServiceTypes
    /\ PipeHasClient /\ StoppedIsIdle /\ RestartRemembers /\ AnswersArePast
    /\ ResponseIsRead /\ AgentIsWithItsClient /\ AgentsGoToo


(* What an action of the program does: it asks for something else, or      *)
(* waits for a response that has not been given; a command may begin.      *)
AsksOn ==
    /\ request' \in [Requesters -> Asking]
    /\ \A r \in Requesters :
          /\ request'[r].answered \in {0, request[r].answered}
          /\ request'[r].at = "waiting" => request'[r].answered = 0 \/ request[r].at = "waiting"

Commences ==
    /\ elevated' \in [Askers -> Commands]
    /\ \A a \in Askers : elevated'[a] = elevated[a] \/ elevated'[a].was = 0

LEMMA AskFacts ==
    ASSUME ServiceTypes, NEW r \in Requesters
    PROVE  /\ \A at \in Turns : at # "waiting" /\ Goes(r, at) => AsksOn
           /\ request' = [request EXCEPT ![r] = NoRequest] => AsksOn
           /\ UNCHANGED request => AsksOn
<1>1. request \in [Requesters -> Asking]
  BY DEF ServiceTypes
<1>2. ASSUME NEW at \in Turns, at # "waiting", Goes(r, at)
      PROVE  AsksOn
  <2>1. [request[r] EXCEPT !.at = at] \in Asking
    BY <1>1 DEF Asking
  <2>2. request' \in [Requesters -> Asking]
    BY <1>1, <1>2, <2>1 DEF Goes
  <2>3. /\ request'[r].at = at /\ request'[r].answered = request[r].answered
        /\ \A q \in Requesters : q # r => request'[q] = request[q]
    BY <1>1, <1>2 DEF Goes, Asking
  <2>4. QED  BY <1>2, <2>2, <2>3 DEF AsksOn
<1>3. ASSUME request' = [request EXCEPT ![r] = NoRequest]
      PROVE  AsksOn
  <2>1. NoRequest \in Asking /\ NoRequest.at = "idle" /\ NoRequest.answered = 0
    BY DEF NoRequest, Asking, Turns, Responses
  <2>2. QED  BY <1>1, <1>3, <2>1 DEF AsksOn
<1>4. UNCHANGED request => AsksOn
  BY <1>1 DEF AsksOn
<1>5. QED  BY <1>2, <1>3, <1>4

LEMMA CommandFacts ==
    ASSUME ServiceTypes, NEW a \in Askers
    PROVE  /\ \A cmd \in {"install", "restart", "uninstall"} : Prompt(a, cmd) => Commences
           /\ Refused(a) => Commences
           /\ elevated' = [elevated EXCEPT ![a] = NoCommand] => Commences
           /\ UNCHANGED elevated => Commences
<1>1. elevated \in [Askers -> Commands]
  BY DEF ServiceTypes
<1>2. ASSUME NEW c \in Commands, c.was = 0, elevated' = [elevated EXCEPT ![a] = c]
      PROVE  Commences
  BY <1>1, <1>2 DEF Commences
<1>3. \A cmd \in {"install", "restart", "uninstall"} :
         /\ [NoCommand EXCEPT !.cmd = cmd, !.at = "open"] \in Commands
         /\ [NoCommand EXCEPT !.cmd = cmd, !.at = "open"].was = 0
  BY DEF NoCommand, Commands
<1>4. /\ [NoCommand EXCEPT !.at = "refused"] \in Commands /\ [NoCommand EXCEPT !.at = "refused"].was = 0
      /\ NoCommand \in Commands /\ NoCommand.was = 0
  BY DEF NoCommand, Commands
<1>5. UNCHANGED elevated => Commences
  BY <1>1 DEF Commences
<1>6. QED  BY <1>2, <1>3, <1>4, <1>5 DEF Prompt, Refused

(* The actions of the program keep the invariant.                          *)
LEMMA AskingKeeps ==
    ASSUME ServiceInv, UNCHANGED <<scm, proc, agents, console>>, AsksOn, Commences
    PROVE  ServiceInv'
<1>1. ServiceTypes' /\ PipeHasClient' /\ StoppedIsIdle' /\ AgentIsWithItsClient' /\ AgentsGoToo'
  BY DEF ServiceInv, ServiceTypes, AsksOn, Commences, PipeHasClient, StoppedIsIdle,
         AgentIsWithItsClient, AgentsGoToo
<1>2. RestartRemembers'
  <2>1. proc.gen \in Nat /\ proc' = proc
    BY DEF ServiceInv, ServiceTypes, Processes
  <2>2. QED  BY <2>1 DEF ServiceInv, RestartRemembers, Commences
<1>3. proc.gen \in Nat /\ proc' = proc /\ \A r \in Requesters : request[r].answered \in Nat
  BY DEF ServiceInv, ServiceTypes, Processes, Asking
<1>4. AnswersArePast'
  BY <1>3 DEF ServiceInv, AnswersArePast, AsksOn
<1>5. ResponseIsRead'
  <2> SUFFICES ASSUME NEW r \in Requesters, request'[r].at = "waiting",
                      request'[r].answered = proc.gen, proc.at # "none"
               PROVE  proc.client = r
    BY <1>3 DEF ResponseIsRead
  <2>1. request'[r].answered # 0
    BY DEF ServiceInv, PipeHasClient
  <2>2. request[r].at = "waiting" /\ request[r].answered = proc.gen
    BY <2>1 DEF AsksOn
  <2>3. QED  BY <2>2 DEF ServiceInv, ResponseIsRead
<1>6. QED  BY <1>1, <1>2, <1>4, <1>5 DEF ServiceInv

(* A step of the service's process keeps it, if it keeps the process's     *)
(* number, stops before it reports so, and drops no response.              *)
LEMMA ServingKeeps ==
    ASSUME ServiceInv, UNCHANGED <<request, elevated>>, console' \in 0 .. 2,
           proc' \in Processes, proc'.gen = proc.gen, PipeHasClient',
           scm' \in [path : Paths, state : {"stopped", "starting", "running", "stopping"}],
           agents' \subseteq agents, StoppedIsIdle', AgentsGoToo', ResponseIsRead'
    PROVE  ServiceInv'
<1>1. ServiceTypes'
  BY DEF ServiceInv, ServiceTypes
<1>2. RestartRemembers' /\ AnswersArePast' /\ AgentIsWithItsClient'
  BY DEF ServiceInv, RestartRemembers, AnswersArePast, AgentIsWithItsClient
<1>3. QED  BY <1>1, <1>2 DEF ServiceInv

(* A command keeps it, if it only remembers what it may.                   *)
LEMMA CommandKeeps ==
    ASSUME ServiceInv, CommandUnchanged, elevated' \in [Askers -> Commands], RestartRemembers',
           proc' \in Processes, proc'.at = proc.at, proc'.client = proc.client, proc'.gen = proc.gen,
           scm' \in [path : Paths, state : {"stopped", "starting", "running", "stopping"}],
           scm'.state = "stopped" => scm.state = "stopped"
    PROVE  ServiceInv'
<1>1. UNCHANGED <<agents, console, app, request>>
  BY DEF CommandUnchanged
<1>2. ServiceTypes'
  BY <1>1 DEF ServiceInv, ServiceTypes
<1>3. AnswersArePast' /\ AgentIsWithItsClient' /\ PipeHasClient' /\ StoppedIsIdle' /\ AgentsGoToo'
  BY <1>1 DEF ServiceInv, AnswersArePast, AgentIsWithItsClient, PipeHasClient, StoppedIsIdle,
              AgentsGoToo
<1>4. ResponseIsRead'
  BY <1>1 DEF ServiceInv, ResponseIsRead
<1>5. QED  BY <1>2, <1>3, <1>4 DEF ServiceInv


\* A change of the program or of a command, spelt out for one of them.
LEMMA CommandStep ==
    ASSUME ServiceInv, NEW a \in Askers, NEW c \in Commands, elevated' = [elevated EXCEPT ![a] = c],
           proc'.gen = proc.gen, c.was <= proc.gen, c.was # 0 => c.cmd = "restart",
           c.at = "done" /\ c.ok => c.was = 0, c.at = "open" => c.was = 0
    PROVE  elevated' \in [Askers -> Commands] /\ RestartRemembers'
<1>1. elevated \in [Askers -> Commands]
  BY DEF ServiceInv, ServiceTypes
<1>2. /\ elevated' \in [Askers -> Commands] /\ elevated'[a] = c
      /\ \A b \in Askers : b # a => elevated'[b] = elevated[b]
  BY <1>1
<1>3. QED  BY <1>2 DEF ServiceInv, RestartRemembers

LEMMA NoProcess == NoProc \in Processes /\ NoProc.at = "none" /\ NoProc.client = "none" /\ NoProc.gen = 0
<1>1. "none" \in Paths
  BY DEF Paths
<1>2. QED  BY <1>1 DEF NoProc, Processes

(* The process of the service.                                             *)
LEMMA ProcKeeps == ServiceInv /\ ProcNext => ServiceInv'
<1> SUFFICES ASSUME ServiceInv, ProcNext PROVE ServiceInv'
  OBVIOUS
<1>0. /\ ServiceTypes /\ PipeHasClient /\ StoppedIsIdle /\ AgentsGoToo /\ ResponseIsRead
      /\ proc \in Processes /\ scm \in [path : Paths, state : {"stopped", "starting", "running", "stopping"}]
      /\ console \in 0 .. 2
  BY DEF ServiceInv, ServiceTypes
<1>1. CASE ServiceRuns
  <2>1. /\ UNCHANGED <<request, elevated, agents, console>> /\ proc.at = "starting"
        /\ proc' = [proc EXCEPT !.at = "top"] /\ scm' = [scm EXCEPT !.state = "running"]
    BY <1>1 DEF ServiceRuns, ProcUnchanged
  <2>2. /\ proc' \in Processes /\ proc'.at = "top" /\ proc'.client = proc.client /\ proc'.gen = proc.gen
        /\ scm' \in [path : Paths, state : {"stopped", "starting", "running", "stopping"}]
        /\ scm'.state = "running"
    BY <1>0, <2>1 DEF Processes
  <2>3. PipeHasClient' /\ StoppedIsIdle' /\ AgentsGoToo' /\ ResponseIsRead'
    BY <1>0, <2>1, <2>2 DEF PipeHasClient, StoppedIsIdle, AgentsGoToo, ResponseIsRead
  <2>4. QED  BY <1>0, <2>1, <2>2, <2>3, ServingKeeps
<1>2. CASE Listen
  <2>1. /\ UNCHANGED <<request, elevated, agents, console, scm>> /\ proc.at = "top"
        /\ proc' = [proc EXCEPT !.at = "listening", !.session = console]
    BY <1>2 DEF Listen, ProcUnchanged
  <2>2. /\ proc' \in Processes /\ proc'.at = "listening"
        /\ proc'.client = proc.client /\ proc'.gen = proc.gen
    BY <1>0, <2>1 DEF Processes
  <2>3. PipeHasClient' /\ StoppedIsIdle' /\ AgentsGoToo' /\ ResponseIsRead'
    BY <1>0, <2>1, <2>2 DEF PipeHasClient, StoppedIsIdle, AgentsGoToo, ResponseIsRead
  <2>4. QED  BY <1>0, <2>1, <2>2, <2>3, ServingKeeps
<1>3. CASE EndLoop
  <2>1. /\ UNCHANGED <<request, elevated, console>> /\ proc.at = "top"
        /\ proc' = [proc EXCEPT !.at = "leaving"] /\ scm' = [scm EXCEPT !.state = "stopped"]
        /\ agents' = {a \in agents : ~a.job}
    BY <1>3 DEF EndLoop, ProcUnchanged
  <2>2. /\ proc' \in Processes /\ proc'.at = "leaving"
        /\ proc'.client = proc.client /\ proc'.gen = proc.gen
        /\ scm' \in [path : Paths, state : {"stopped", "starting", "running", "stopping"}]
    BY <1>0, <2>1 DEF Processes
  <2>3. PipeHasClient' /\ StoppedIsIdle' /\ AgentsGoToo' /\ ResponseIsRead'
    BY <1>0, <2>1, <2>2 DEF PipeHasClient, StoppedIsIdle, AgentsGoToo, ResponseIsRead
  <2>4. QED  BY <1>0, <2>1, <2>2, <2>3, ServingKeeps
<1>4. CASE ProcessGone
  <2>1. /\ UNCHANGED <<request, elevated, console, scm>> /\ proc.at = "leaving"
        /\ proc' = [proc EXCEPT !.at = "none"] /\ agents' = {a \in agents : ~a.job}
    BY <1>4 DEF ProcessGone, ProcUnchanged
  <2>2. /\ proc' \in Processes /\ proc'.at = "none"
        /\ proc'.client = proc.client /\ proc'.gen = proc.gen
    BY <1>0, <2>1 DEF Processes
  <2>3. PipeHasClient' /\ StoppedIsIdle' /\ AgentsGoToo' /\ ResponseIsRead'
    BY <1>0, <2>1, <2>2 DEF PipeHasClient, StoppedIsIdle, AgentsGoToo, ResponseIsRead
  <2>4. QED  BY <1>0, <2>1, <2>2, <2>3, ServingKeeps
<1>5. CASE ListenEnds \/ Close
  <2>1. /\ UNCHANGED <<request, elevated, console, scm, agents>>
        /\ proc.at \in {"listening", "serving", "closing"}
        /\ proc.at # "listening" => request[proc.client].at # "waiting"
        /\ proc' = [proc EXCEPT !.at = "top", !.client = "none"]
    BY <1>5 DEF ListenEnds, Close, ProcUnchanged
  <2>2. /\ proc' \in Processes /\ proc'.at = "top"
        /\ proc'.client = "none" /\ proc'.gen = proc.gen
    BY <1>0, <2>1 DEF Processes
  <2>3. PipeHasClient' /\ StoppedIsIdle' /\ AgentsGoToo'
    BY <1>0, <2>1, <2>2 DEF PipeHasClient, StoppedIsIdle, AgentsGoToo
  <2>4. ResponseIsRead'
    <3>1. \A r \in Requesters : request[r].at = "waiting" /\ request[r].answered = proc.gen => FALSE
      BY <1>0, <2>1 DEF ResponseIsRead, PipeHasClient, Requesters
    <3>2. QED  BY <2>1, <2>2, <3>1 DEF ResponseIsRead
  <2>5. QED  BY <1>0, <2>1, <2>2, <2>3, <2>4, ServingKeeps
<1>6. ASSUME NEW reply \in Responses, Answer(reply), proc.at = "serving",
             request[proc.client].at # "connected", UNCHANGED <<scm, console, elevated>>,
             \/ agents' = agents
             \/ /\ Refusal = "none"
                /\ \E job \in BOOLEAN :
                      agents' = agents \cup {[by |-> proc.client, session |-> AgentSession, job |-> job]}
      PROVE  ServiceInv'
  <2>1. proc.client \in Requesters /\ proc.session \in 0 .. 2 /\ proc.gen \in Nat
    BY <1>0, <1>6 DEF PipeHasClient, Processes
  <2>2. proc' = [proc EXCEPT !.at = "closing"]
    BY <1>6 DEF Answer
  <2>3. /\ proc' \in Processes /\ proc'.at = "closing"
        /\ proc'.client = proc.client /\ proc'.gen = proc.gen
    BY <1>0, <2>2 DEF Processes
  <2>4. /\ request' \in [Requesters -> Asking]
        /\ \A r \in Requesters : r # proc.client => request'[r] = request[r]
        /\ request'[proc.client].answered <= proc.gen
    <3>1. request \in [Requesters -> Asking] /\ request[proc.client] \in Asking
      BY <1>0, <2>1 DEF ServiceTypes
    <3>2. CASE request' = request
      BY <2>1, <3>1, <3>2 DEF ServiceInv, AnswersArePast
    <3>3. CASE request' = [request EXCEPT ![proc.client].reply = reply, ![proc.client].answered = proc.gen]
      <4>1. [request[proc.client] EXCEPT !.reply = reply, !.answered = proc.gen] \in Asking
        BY <1>6, <2>1, <3>1 DEF Asking
      <4>2. request' = [request EXCEPT ![proc.client] =
                          [request[proc.client] EXCEPT !.reply = reply, !.answered = proc.gen]]
        BY <3>1, <3>3
      <4>3. request' \in [Requesters -> Asking]
        BY <2>1, <3>1, <4>1, <4>2
      <4>4. /\ request'[proc.client] = [request[proc.client] EXCEPT !.reply = reply, !.answered = proc.gen]
            /\ \A r \in Requesters : r # proc.client => request'[r] = request[r]
        BY <2>1, <3>1, <4>2
      <4>5. request'[proc.client].answered = proc.gen
        BY <3>1, <4>4 DEF Asking
      <4>6. QED  BY <2>1, <4>3, <4>4, <4>5
    <3>4. QED  BY <1>6, <3>2, <3>3 DEF Answer
  <2>5. agents' \subseteq [by : Requesters, session : 0 .. 2, job : BOOLEAN] /\ AgentIsWithItsClient'
    <3>1. CASE agents' = agents
      BY <1>0, <3>1 DEF ServiceTypes, ServiceInv, AgentIsWithItsClient
    <3>2. ASSUME Refusal = "none", NEW job \in BOOLEAN,
                 agents' = agents \cup {[by |-> proc.client, session |-> AgentSession, job |-> job]}
          PROVE  agents' \subseteq [by : Requesters, session : 0 .. 2, job : BOOLEAN] /\ AgentIsWithItsClient'
      <4>1. proc.session = AppSession
        BY <3>2 DEF Refusal
      <4>2. QED  BY <1>0, <2>1, <3>2, <4>1 DEF ServiceTypes, ServiceInv, AgentIsWithItsClient, AgentSession
    <3>3. QED  BY <1>6, <3>1, <3>2
  <2>6. ServiceTypes'
    BY <1>0, <1>6, <2>3, <2>4, <2>5 DEF ServiceTypes
  <2>7. PipeHasClient' /\ StoppedIsIdle' /\ AgentsGoToo'
    BY <1>0, <1>6, <2>3 DEF PipeHasClient, StoppedIsIdle, AgentsGoToo
  <2>8. RestartRemembers' /\ AnswersArePast'
    BY <1>6, <2>3, <2>4 DEF ServiceInv, RestartRemembers, AnswersArePast
  <2>9. ResponseIsRead'
    BY <1>0, <1>6, <2>3, <2>4 DEF ResponseIsRead
  <2>10. QED  BY <2>5, <2>6, <2>7, <2>8, <2>9 DEF ServiceInv
<1>7. CASE Refuse \/ SpawnFails \/ \E job \in BOOLEAN : SpawnAgent(job)
  <2>1. /\ Refusal \in Responses /\ "other" \in Responses /\ "ok" \in Responses
    BY DEF Refusal, Responses
  <2>2. CASE Refuse
    <3>1. Answer(Refusal) /\ agents' = agents /\ UNCHANGED <<scm, console, elevated>>
          /\ proc.at = "serving" /\ request[proc.client].at # "connected"
      BY <2>2 DEF Refuse
    <3>2. QED  BY <1>6, <2>1, <3>1
  <2>3. CASE SpawnFails
    <3>1. Answer("other") /\ agents' = agents /\ UNCHANGED <<scm, console, elevated>>
          /\ proc.at = "serving" /\ request[proc.client].at # "connected"
      BY <2>3 DEF SpawnFails
    <3>2. QED  BY <1>6, <2>1, <3>1
  <2>4. ASSUME NEW job \in BOOLEAN, SpawnAgent(job) PROVE ServiceInv'
    <3>1. Answer("ok") /\ UNCHANGED <<scm, console, elevated>> /\ Refusal = "none"
          /\ proc.at = "serving" /\ request[proc.client].at # "connected"
          /\ agents' = agents \cup {[by |-> proc.client, session |-> AgentSession, job |-> job]}
      BY <2>4 DEF SpawnAgent
    <3>2. QED  BY <1>6, <2>1, <3>1
  <2>5. QED  BY <1>7, <2>2, <2>3, <2>4
<1>8. CASE Crash
  <2>1. /\ UNCHANGED <<request, elevated, console>>
        /\ proc' = [proc EXCEPT !.at = "none", !.client = "none"] /\ scm' = [scm EXCEPT !.state = "stopped"]
        /\ agents' = {a \in agents : ~a.job}
    BY <1>8 DEF Crash, ProcUnchanged
  <2>2. /\ proc' \in Processes /\ proc'.at = "none" /\ proc'.client = "none" /\ proc'.gen = proc.gen
        /\ scm' \in [path : Paths, state : {"stopped", "starting", "running", "stopping"}]
    BY <1>0, <2>1 DEF Processes
  <2>3. PipeHasClient' /\ StoppedIsIdle' /\ AgentsGoToo' /\ ResponseIsRead'
    BY <1>0, <2>1, <2>2 DEF PipeHasClient, StoppedIsIdle, AgentsGoToo, ResponseIsRead
  <2>4. QED  BY <1>0, <2>1, <2>2, <2>3, ServingKeeps
<1>9. CASE LoseAgent \/ (\E session \in 0 .. 2 : Switch(session)) \/ (\E a \in agents : AgentEnds(a))
  <2>1. /\ UNCHANGED <<request, elevated, scm, proc>> /\ console' \in 0 .. 2 /\ agents' \subseteq agents
    BY <1>0, <1>9 DEF LoseAgent, Switch, AgentEnds, ProcUnchanged
  <2>2. PipeHasClient' /\ StoppedIsIdle' /\ AgentsGoToo' /\ ResponseIsRead'
    BY <1>0, <2>1 DEF PipeHasClient, StoppedIsIdle, AgentsGoToo, ResponseIsRead
  <2>3. QED  BY <1>0, <2>1, <2>2, ServingKeeps
<1>10. QED
  BY <1>1, <1>2, <1>3, <1>4, <1>5, <1>7, <1>8, <1>9 DEF ProcNext


(* The commands with elevated rights.                                      *)
LEMMA CommandsKeep == ServiceInv /\ CommandNext => ServiceInv'
<1> SUFFICES ASSUME ServiceInv, NEW a \in Askers,
                    \/ Register(a) \/ LookAtService(a) \/ OpenToRestart(a) \/ StopService(a)
                    \/ StartService(a) \/ AlreadyRuns(a) \/ StartFails(a)
                    \/ OpenToUninstall(a) \/ HasStopped(a) \/ Delete(a)
             PROVE  ServiceInv'
  BY DEF CommandNext
<1>0. /\ ServiceTypes /\ RestartRemembers /\ proc \in Processes /\ elevated \in [Askers -> Commands]
      /\ scm \in [path : Paths, state : {"stopped", "starting", "running", "stopping"}]
      /\ elevated[a] \in Commands /\ proc.gen \in Nat /\ elevated[a].was \in Nat
      /\ elevated[a].was <= proc.gen /\ (elevated[a].was # 0 => elevated[a].cmd = "restart")
  BY DEF ServiceInv, ServiceTypes, RestartRemembers, Processes, Commands
<1>1. Here \in Paths /\ "none" \in Paths
  BY DEF Paths
(* A command that goes on, or is over, remembers what it did.              *)
<1>G. ASSUME NEW at \in {"look", "stop", "start", "wait", "delete"}, Go(a, at), proc'.gen = proc.gen
      PROVE  elevated' \in [Askers -> Commands] /\ RestartRemembers'
  <2>1. /\ [elevated[a] EXCEPT !.at = at] \in Commands /\ [elevated[a] EXCEPT !.at = at].at = at
        /\ [elevated[a] EXCEPT !.at = at].was = elevated[a].was
        /\ [elevated[a] EXCEPT !.at = at].cmd = elevated[a].cmd
    BY <1>0 DEF Commands
  <2>2. elevated' = [elevated EXCEPT ![a] = [elevated[a] EXCEPT !.at = at]]
    BY <1>0, <1>G DEF Go
  <2>3. QED  BY <1>0, <1>G, <2>1, <2>2, CommandStep
<1>D. ASSUME NEW ok \in BOOLEAN, Done(a, ok), proc'.gen = proc.gen, ok => elevated[a].was = 0
      PROVE  elevated' \in [Askers -> Commands] /\ RestartRemembers'
  <2> DEFINE c == [elevated[a] EXCEPT !.at = "done", !.ok = ok]
  <2>1. c \in Commands /\ c.at = "done" /\ c.was = elevated[a].was /\ c.cmd = elevated[a].cmd /\ c.ok = ok
    BY <1>0 DEF Commands
  <2>2. elevated' = [elevated EXCEPT ![a] = c]
    BY <1>0, <1>D DEF Done
  <2> HIDE DEF c
  <2>3. QED  BY <1>0, <1>D, <2>1, <2>2, CommandStep
<1>2. CASE Register(a)
  <2>1. scm' = [scm EXCEPT !.path = Here] /\ Go(a, "look") /\ UNCHANGED proc /\ CommandUnchanged
    BY <1>2 DEF Register
  <2>2. /\ scm' \in [path : Paths, state : {"stopped", "starting", "running", "stopping"}]
        /\ scm'.state = scm.state
    BY <1>0, <1>1, <2>1
  <2>3. QED  BY <1>0, <1>G, <2>1, <2>2, CommandKeeps
<1>3. CASE LookAtService(a) \/ HasStopped(a)
  <2>1. /\ \E at \in {"stop", "start", "delete"} : Go(a, at)
        /\ UNCHANGED <<scm, proc>> /\ CommandUnchanged
    BY <1>3 DEF LookAtService, HasStopped
  <2>2. QED  BY <1>0, <1>G, <2>1, CommandKeeps
<1>4. CASE OpenToRestart(a)
  <2>1. UNCHANGED <<scm, proc>> /\ CommandUnchanged /\ elevated[a].at = "open" /\ elevated[a].was = 0
    BY <1>0, <1>4 DEF OpenToRestart, At, RestartRemembers
  <2>2. \E c \in Commands : /\ elevated' = [elevated EXCEPT ![a] = c] /\ c.was <= proc.gen
                            /\ c.was # 0 => c.cmd = "restart"
                            /\ c.at \in {"open", "stop", "start"} /\ (c.at = "open" => c.was = 0)
    <3>1. CASE ~Installed
      <4>1. elevated' = [elevated EXCEPT ![a] = [elevated[a] EXCEPT !.cmd = "install"]]
        BY <1>0, <1>4, <3>1 DEF OpenToRestart
      <4>2. /\ [elevated[a] EXCEPT !.cmd = "install"] \in Commands
            /\ [elevated[a] EXCEPT !.cmd = "install"].was = 0
            /\ [elevated[a] EXCEPT !.cmd = "install"].at = "open"
        BY <1>0, <2>1 DEF Commands
      <4>3. PICK c \in Commands : c = [elevated[a] EXCEPT !.cmd = "install"]
        BY <4>2
      <4>4. elevated' = [elevated EXCEPT ![a] = c] /\ c.was = 0 /\ c.at = "open"
        BY <4>1, <4>2, <4>3
      <4>5. c.was <= proc.gen
        BY <1>0, <4>4
      <4>6. QED  BY <4>4, <4>5
    <3>2. CASE Installed
      <4> DEFINE was == IF RunningNow THEN proc.gen ELSE 0
                 at == IF RunningNow THEN "stop" ELSE "start"
                 c == [elevated[a] EXCEPT !.was = was, !.at = at]
      <4>1. elevated' = [elevated EXCEPT ![a] = c]
        BY <1>0, <1>4, <3>2 DEF OpenToRestart
      <4>2. was \in Nat /\ was <= proc.gen /\ at \in {"stop", "start"}
        BY <1>0
      <4> HIDE DEF was, at
      <4>3. c \in Commands /\ c.was = was /\ c.at = at /\ c.cmd = elevated[a].cmd
        BY <1>0, <4>2 DEF Commands
      <4>4. c.cmd = "restart"
        BY <1>4, <4>3 DEF OpenToRestart, At
      <4> HIDE DEF c
      <4>5. /\ c.was <= proc.gen /\ c.at \in {"open", "stop", "start"}
            /\ c.was # 0 => c.cmd = "restart"
            /\ c.at = "open" => c.was = 0
        BY <4>2, <4>3, <4>4
      <4>6. QED  BY <4>1, <4>3, <4>5
    <3>3. QED  BY <3>1, <3>2
  <2>3. elevated' \in [Askers -> Commands] /\ RestartRemembers'
    <3>1. PICK c \in Commands : /\ elevated' = [elevated EXCEPT ![a] = c] /\ c.was <= proc.gen
                                /\ c.was # 0 => c.cmd = "restart"
                                /\ c.at \in {"open", "stop", "start"} /\ (c.at = "open" => c.was = 0)
      BY <2>2
    <3>2. c.at # "done" /\ proc'.gen = proc.gen
      BY <2>1, <3>1
    <3>3. QED  BY <3>1, <3>2, CommandStep
  <2>4. QED  BY <1>0, <2>1, <2>3, CommandKeeps
<1>5. CASE StopService(a)
  <2>1. CommandUnchanged
    BY <1>5 DEF StopService
  <2>2. CASE RunningNow
    <3>1. scm' = [scm EXCEPT !.state = "stopping"] /\ proc' = [proc EXCEPT !.stop = TRUE] /\ Go(a, "start")
      BY <1>5, <2>2 DEF StopService
    <3>2. /\ proc' \in Processes /\ proc'.at = proc.at /\ proc'.client = proc.client /\ proc'.gen = proc.gen
          /\ scm' \in [path : Paths, state : {"stopped", "starting", "running", "stopping"}]
          /\ scm'.state = "stopping"
      BY <1>0, <3>1 DEF Processes
    <3>3. QED  BY <1>0, <1>G, <2>1, <3>1, <3>2, CommandKeeps
  <2>3. CASE ~RunningNow
    <3>1. UNCHANGED <<scm, proc>> /\ Done(a, FALSE)
      BY <1>5, <2>3 DEF StopService
    <3>2. QED  BY <1>0, <1>D, <2>1, <3>1, CommandKeeps
  <2>4. QED  BY <2>2, <2>3
<1>6. CASE StartService(a)
  <2>1. /\ CommandUnchanged /\ proc' = NewProc /\ scm' = [scm EXCEPT !.state = "starting"]
        /\ Done(a, TRUE) /\ proc.at = "none"
    BY <1>6 DEF StartService, Starts
  <2>2. UNCHANGED <<agents, console, request>>
    BY <2>1 DEF CommandUnchanged
  <2>3. /\ proc' \in Processes /\ proc'.at = "starting" /\ proc'.client = "none"
        /\ proc'.gen = proc.gen + 1
    <3>1. scm.path \in Paths /\ proc.gen + 1 \in Nat
      BY <1>0
    <3>2. PICK p \in Processes : p = NoProc /\ p.client = "none"
      BY NoProcess
    <3>3. proc' = [p EXCEPT !.at = "starting", !.gen = proc.gen + 1, !.path = scm.path]
      BY <2>1, <3>2 DEF NewProc
    <3>4. QED  BY <3>1, <3>2, <3>3 DEF Processes
  <2>4. /\ scm' \in [path : Paths, state : {"stopped", "starting", "running", "stopping"}]
        /\ scm'.state = "starting"
    BY <1>0, <2>1
  <2> DEFINE c == [elevated[a] EXCEPT !.at = "done", !.ok = TRUE]
  <2>5. c \in Commands /\ c.at = "done" /\ c.was = elevated[a].was /\ c.cmd = elevated[a].cmd
    BY <1>0 DEF Commands
  <2>6. elevated' = [elevated EXCEPT ![a] = c]
    BY <1>0, <2>1 DEF Done
  <2> HIDE DEF c
  <2>7. elevated' \in [Askers -> Commands] /\ elevated'[a] = c /\ \A b \in Askers : b # a => elevated'[b] = elevated[b]
    BY <1>0, <2>5, <2>6
  <2>8. \A b \in Askers : elevated[b].was \in Nat /\ elevated[b].was <= proc.gen
    BY <1>0 DEF RestartRemembers, Commands
  <2>9. RestartRemembers'
    <3> SUFFICES ASSUME NEW b \in Askers
                 PROVE  /\ elevated'[b].was <= proc'.gen
                        /\ elevated'[b].was # 0 => elevated'[b].cmd = "restart"
                        /\ elevated'[b].at = "done" /\ elevated'[b].ok
                              => elevated'[b].was = 0 \/ elevated'[b].was < proc'.gen
                        /\ elevated'[b].at = "open" => elevated'[b].was = 0
      BY DEF RestartRemembers
    <3>1. elevated'[b].was = elevated[b].was /\ elevated'[b].cmd = elevated[b].cmd
          /\ (elevated'[b].at = "open" => elevated[b].at = "open")
      BY <2>5, <2>7
    <3>2. elevated[b].was < proc'.gen /\ elevated[b].was <= proc'.gen
      BY <1>0, <2>3, <2>8
    <3>3. QED  BY <1>0, <3>1, <3>2 DEF RestartRemembers
  <2>10. \A r \in Requesters : request[r].answered \in Nat /\ request[r].answered <= proc.gen
    BY <1>0 DEF ServiceInv, ServiceTypes, AnswersArePast, Asking
  <2>11. AnswersArePast' /\ ResponseIsRead'
    <3>1. \A r \in Requesters : request'[r].answered <= proc'.gen /\ request'[r].answered # proc'.gen
      BY <1>0, <2>2, <2>3, <2>10
    <3>2. QED  BY <3>1 DEF AnswersArePast, ResponseIsRead
  <2>12. ServiceTypes' /\ PipeHasClient' /\ StoppedIsIdle' /\ AgentsGoToo' /\ AgentIsWithItsClient'
    BY <1>0, <2>2, <2>3, <2>4, <2>7
       DEF ServiceInv, ServiceTypes, PipeHasClient, StoppedIsIdle, AgentsGoToo, AgentIsWithItsClient
  <2>13. QED  BY <2>9, <2>11, <2>12 DEF ServiceInv
<1>7. CASE AlreadyRuns(a) \/ StartFails(a)
  <2>1. UNCHANGED <<scm, proc>> /\ CommandUnchanged
    BY <1>7 DEF AlreadyRuns, StartFails
  <2>2. \/ Done(a, TRUE) /\ elevated[a].was = 0
        \/ Done(a, FALSE)
    BY <1>7 DEF AlreadyRuns, StartFails
  <2>3. elevated' \in [Askers -> Commands] /\ RestartRemembers'
    BY <1>D, <2>1, <2>2
  <2>4. QED  BY <1>0, <2>1, <2>3, CommandKeeps
<1>8. CASE OpenToUninstall(a)
  <2>1. CommandUnchanged /\ elevated[a].was = 0
    BY <1>0, <1>8 DEF OpenToUninstall, At
  <2>2. CASE scm' = scm /\ proc' = proc
    <3>1. Done(a, TRUE) \/ Go(a, "delete") \/ Go(a, "wait")
      BY <1>8 DEF OpenToUninstall
    <3>2. elevated' \in [Askers -> Commands] /\ RestartRemembers'
      BY <1>D, <1>G, <2>1, <2>2, <3>1
    <3>3. QED  BY <1>0, <2>1, <2>2, <3>2, CommandKeeps
  <2>3. CASE scm' = [scm EXCEPT !.state = "stopping"] /\ proc' = [proc EXCEPT !.stop = TRUE] /\ Go(a, "wait")
    <3>1. /\ proc' \in Processes /\ proc'.at = proc.at /\ proc'.client = proc.client /\ proc'.gen = proc.gen
          /\ scm' \in [path : Paths, state : {"stopped", "starting", "running", "stopping"}]
          /\ scm'.state = "stopping"
      BY <1>0, <2>3 DEF Processes
    <3>2. QED  BY <1>0, <1>G, <2>1, <2>3, <3>1, CommandKeeps
  <2>4. QED  BY <1>8, <2>2, <2>3 DEF OpenToUninstall
<1>9. CASE Delete(a)
  <2>1. /\ Done(a, Installed) /\ elevated[a].was = 0 /\ scm' = [scm EXCEPT !.path = "none"]
        /\ UNCHANGED proc /\ CommandUnchanged
    BY <1>0, <1>9 DEF Delete, At
  <2>2. /\ scm' \in [path : Paths, state : {"stopped", "starting", "running", "stopping"}]
        /\ scm'.state = scm.state
    BY <1>0, <1>1, <2>1
  <2>3. PICK ok \in BOOLEAN : Done(a, ok)
    BY <2>1 DEF Installed
  <2>4. elevated' \in [Askers -> Commands] /\ RestartRemembers'
    BY <1>D, <2>1, <2>3
  <2>5. QED  BY <1>0, <2>1, <2>2, <2>4, CommandKeeps
<1>10. QED  BY <1>2, <1>3, <1>4, <1>5, <1>6, <1>7, <1>8, <1>9


(* The program.  Most of its actions only ask for something else.          *)
LEMMA AppKeeps == ServiceInv /\ AppNext => ServiceInv'
<1> SUFFICES ASSUME ServiceInv, AppNext PROVE ServiceInv'
  OBVIOUS
<1>0. /\ ServiceTypes /\ PipeHasClient /\ StoppedIsIdle /\ AgentsGoToo /\ ResponseIsRead
      /\ proc \in Processes /\ request \in [Requesters -> Asking]
  BY DEF ServiceInv, ServiceTypes
<1>1. "user" \in Requesters /\ "auto" \in Requesters /\ "button" \in Askers /\ Requesters \subseteq Askers
  BY DEF Requesters, Askers
<1>2. CASE Click \/ Align \/ Aligned \/ Recover
  <2>1. UNCHANGED <<scm, proc, agents, console>>
    BY <1>2 DEF Click, Align, Aligned, Recover, AppUnchanged
  <2>2. \E r \in Requesters, at \in Turns : at # "waiting" /\ Goes(r, at)
    BY <1>1, <1>2 DEF Click, Align, Aligned, Recover, Turns
  <2>3. AsksOn
    BY <1>0, <2>2, AskFacts
  <2>4. \/ UNCHANGED elevated
        \/ Prompt("user", "restart") \/ Refused("user")
    BY <1>2 DEF Click, Align, Aligned, Recover
  <2>5. Commences
    BY <1>0, <1>1, <2>4, CommandFacts
  <2>6. QED  BY <2>1, <2>3, <2>5, AskingKeeps
<1>3. CASE Uninstall \/ Uninstalled
  <2>1. UNCHANGED <<scm, proc, agents, console>> /\ UNCHANGED request
    BY <1>3 DEF Uninstall, Uninstalled, AppUnchanged
  <2>2. AsksOn
    BY <1>0, <1>1, <2>1, AskFacts
  <2>3. \/ UNCHANGED elevated
        \/ Prompt("button", "uninstall") \/ Refused("button")
        \/ elevated' = [elevated EXCEPT !["button"] = NoCommand]
    BY <1>3 DEF Uninstall, Uninstalled
  <2>4. Commences
    BY <1>0, <1>1, <2>3, CommandFacts
  <2>5. QED  BY <2>1, <2>2, <2>4, AskingKeeps
<1>4. ASSUME NEW r \in Requesters, ConnectPipe(r)
      PROVE  ServiceInv'
  <2>1. /\ proc.at = "listening" /\ proc' = [proc EXCEPT !.at = "serving", !.client = r]
        /\ Goes(r, "connected") /\ UNCHANGED <<scm, agents, console, elevated>>
    BY <1>4 DEF ConnectPipe
  <2>2. /\ proc' \in Processes /\ proc'.at = "serving" /\ proc'.client = r /\ proc'.gen = proc.gen
    BY <1>0, <2>1 DEF Processes
  <2>3. "connected" \in Turns
    BY DEF Turns
  <2>4. AsksOn
    BY <1>0, <2>1, <2>3, AskFacts
  <2>5. r # "none" /\ proc.client = "none" /\ proc.gen # 0
    BY <1>0, <2>1 DEF PipeHasClient, Requesters
  <2>6. ServiceTypes'
    BY <1>0, <2>1, <2>2, <2>4 DEF ServiceTypes, AsksOn
  <2>7. PipeHasClient' /\ StoppedIsIdle' /\ AgentsGoToo' /\ AgentIsWithItsClient' /\ RestartRemembers'
    BY <1>0, <2>1, <2>2, <2>5 DEF ServiceInv, PipeHasClient, StoppedIsIdle, AgentsGoToo,
                                  AgentIsWithItsClient, RestartRemembers
  <2>8. AnswersArePast' /\ ResponseIsRead'
    <3> SUFFICES ASSUME NEW q \in Requesters
                 PROVE  /\ request'[q].answered <= proc'.gen
                        /\ request'[q].at = "waiting" => request'[q].answered # proc'.gen
      BY DEF AnswersArePast, ResponseIsRead
    <3>1. request[q].answered \in Nat /\ proc.gen \in Nat /\ request[q].answered <= proc.gen
      BY <1>0 DEF ServiceInv, AnswersArePast, Asking, Processes
    <3>2. q # "none"
      BY DEF Requesters
    <3>3. request[q].at = "waiting" => request[q].answered # proc.gen
      BY <1>0, <2>1, <2>5, <3>2 DEF ResponseIsRead
    <3>4. /\ request'[q].answered \in {0, request[q].answered}
          /\ request'[q].at = "waiting" => request'[q].answered = 0 \/ request[q].at = "waiting"
      BY <2>4 DEF AsksOn
    <3>5. CASE request'[q].answered = 0
      BY <2>2, <2>5, <3>1, <3>5
    <3>6. CASE request'[q].answered = request[q].answered /\ request'[q].answered # 0
      BY <2>2, <3>1, <3>3, <3>4, <3>6
    <3>7. QED  BY <3>4, <3>5, <3>6
  <2>9. QED  BY <2>6, <2>7, <2>8 DEF ServiceInv
<1>5. ASSUME NEW r \in Requesters, WriteRequest(r) \/ RepairHeard(r)
      PROVE  ServiceInv'
  <2>1. UNCHANGED <<scm, proc, agents, console>> /\ UNCHANGED elevated
    BY <1>5 DEF WriteRequest, RepairHeard, AppUnchanged
  <2>2. request[r] \in Asking
    BY <1>0
  <2>3. ASSUME WriteRequest(r) PROVE AsksOn
    <3> DEFINE at == IF proc.client = r THEN "waiting" ELSE "legacy"
               q == [request[r] EXCEPT !.at = at, !.reply = "none", !.answered = 0]
    <3>1. request' = [request EXCEPT ![r] = q]
      BY <1>0, <2>3 DEF WriteRequest
    <3>2. at \in Turns /\ "none" \in Responses
      BY DEF Turns, Responses
    <3> HIDE DEF at
    <3>3. q \in Asking /\ q.answered = 0
      BY <2>2, <3>2 DEF Asking
    <3> HIDE DEF q
    <3>4. QED  BY <1>0, <3>1, <3>3 DEF AsksOn
  <2>4. ASSUME RepairHeard(r) PROVE AsksOn
    <3> DEFINE yes == Verdict(r) = "yes"
               at == IF yes THEN "connecting" ELSE "legacy"
               q == [request[r] EXCEPT !.again = yes, !.at = at]
    <3>1. request' = [request EXCEPT ![r] = q]
      BY <1>0, <2>4 DEF RepairHeard
    <3>2. at \in Turns /\ at # "waiting" /\ yes \in BOOLEAN
      BY DEF Turns
    <3> HIDE DEF at, yes
    <3>3. q \in Asking /\ q.answered = request[r].answered /\ q.at = at
      BY <2>2, <3>2 DEF Asking
    <3> HIDE DEF q
    <3>4. QED  BY <1>0, <3>1, <3>2, <3>3 DEF AsksOn
  <2>5. AsksOn
    BY <1>5, <2>3, <2>4
  <2>6. Commences
    BY <1>0, <1>1, <2>1, CommandFacts
  <2>7. QED  BY <2>1, <2>5, <2>6, AskingKeeps
<1>6. ASSUME NEW r \in Requesters,
             \/ CheckAgent(r) \/ NoService(r) \/ Once(r) \/ CannotConnect(r) \/ NoResponse(r)
             \/ InstallHeard(r) \/ ReadResponse(r) \/ AgentReady(r) \/ Legacy(r)
      PROVE  ServiceInv'
  <2>1. UNCHANGED <<scm, proc, agents, console>> /\ UNCHANGED elevated
    BY <1>6 DEF CheckAgent, NoService, Once, CannotConnect, NoResponse, InstallHeard, ReadResponse,
                AgentReady, Legacy, AppUnchanged
  <2>2. \/ \E at \in Turns : at # "waiting" /\ Goes(r, at)
        \/ request' = [request EXCEPT ![r] = NoRequest]
    <3>1. CASE CheckAgent(r) \/ NoService(r) \/ Once(r) \/ CannotConnect(r) \/ NoResponse(r)
      BY <3>1 DEF CheckAgent, NoService, Once, CannotConnect, NoResponse, Turns
    <3>2. CASE InstallHeard(r) \/ ReadResponse(r)
      BY <3>2 DEF InstallHeard, ReadResponse, Turns
    <3>3. CASE AgentReady(r) \/ Legacy(r)
      BY <3>3 DEF AgentReady, Legacy, Got
    <3>4. QED  BY <1>6, <3>1, <3>2, <3>3
  <2>3. AsksOn
    BY <1>0, <2>2, AskFacts
  <2>4. Commences
    BY <1>0, <1>1, <2>1, CommandFacts
  <2>5. QED  BY <2>1, <2>3, <2>4, AskingKeeps
<1>7. ASSUME NEW r \in Requesters, InstallService(r) \/ Repair(r)
      PROVE  ServiceInv'
  <2>1. UNCHANGED <<scm, proc, agents, console>>
    BY <1>7 DEF InstallService, Repair, AppUnchanged
  <2>2. \E at \in Turns : at # "waiting" /\ Goes(r, at)
    BY <1>7 DEF InstallService, Repair, Turns
  <2>3. AsksOn
    BY <1>0, <2>2, AskFacts
  <2>4. UNCHANGED elevated \/ Prompt(r, "install") \/ Refused(r)
    BY <1>7 DEF InstallService, Repair
  <2>5. Commences
    BY <1>0, <1>1, <2>4, CommandFacts
  <2>6. QED  BY <2>1, <2>3, <2>5, AskingKeeps
<1>8. QED  BY <1>2, <1>3, <1>4, <1>5, <1>6, <1>7 DEF AppNext

LEMMA ServiceInitInv == ServiceInit => ServiceInv
<1> SUFFICES ASSUME ServiceInit PROVE ServiceInv
  OBVIOUS
<1>1. PICK s \in Situations :
         /\ scm = [path |-> s.path, state |-> IF s.running THEN "running" ELSE "stopped"]
         /\ proc = IF s.running
                   THEN [NoProc EXCEPT !.at = "top", !.gen = 1, !.path = s.path, !.stale = s.stale]
                   ELSE NoProc
  BY DEF ServiceInit
<1>2. s.running \in BOOLEAN /\ s.stale \in BOOLEAN /\ s.path \in Paths /\ "none" \in Paths
  BY ServiceAssumption DEF Paths
<1>3. /\ agents = {} /\ console = 1 /\ request = [r \in Requesters |-> NoRequest]
      /\ elevated = [a \in Askers |-> NoCommand]
  BY DEF ServiceInit, AppSession
<1>4. NoRequest \in Asking /\ NoRequest.at = "idle" /\ NoRequest.answered = 0
  BY DEF NoRequest, Asking, Turns, Responses
<1>5. NoCommand \in Commands /\ NoCommand.was = 0 /\ NoCommand.at = "none"
  BY DEF NoCommand, Commands
<1>6. NoProc \in Processes /\ NoProc.at = "none" /\ NoProc.client = "none" /\ NoProc.gen = 0
  BY NoProcess
<1>7. /\ proc \in Processes /\ proc.client = "none" /\ proc.gen \in Nat
      /\ proc.at \in {"none", "top"} /\ (proc.at # "none" => proc.gen # 0)
      /\ scm.state = "stopped" => proc.at = "none"
  <2>1. CASE s.running
    <3>1. /\ proc \in Processes /\ proc.client = "none" /\ proc.gen = 1 /\ proc.at = "top"
      <4>1. PICK p \in Processes : p = NoProc /\ p.client = "none"
        BY <1>6
      <4>2. proc = [p EXCEPT !.at = "top", !.gen = 1, !.path = s.path, !.stale = s.stale]
        BY <1>1, <2>1, <4>1
      <4>3. QED  BY <1>2, <4>1, <4>2 DEF Processes
    <3>2. scm.state = "running"
      BY <1>1, <2>1
    <3>3. QED  BY <3>1, <3>2
  <2>2. CASE ~s.running
    BY <1>1, <1>6, <2>2
  <2>3. QED  BY <2>1, <2>2
<1>8. scm \in [path : Paths, state : {"stopped", "starting", "running", "stopping"}]
  BY <1>1, <1>2
<1>9. ServiceTypes
  BY <1>3, <1>4, <1>5, <1>7, <1>8 DEF ServiceTypes
<1>10. PipeHasClient /\ StoppedIsIdle /\ RestartRemembers /\ AnswersArePast
  BY <1>3, <1>4, <1>5, <1>7 DEF PipeHasClient, StoppedIsIdle, RestartRemembers, AnswersArePast
<1>11. ResponseIsRead /\ AgentIsWithItsClient /\ AgentsGoToo
  BY <1>3, <1>4 DEF ResponseIsRead, AgentIsWithItsClient, AgentsGoToo
<1>12. QED  BY <1>9, <1>10, <1>11 DEF ServiceInv

LEMMA ServiceStepInv == ServiceInv /\ [ServiceNext]_serviceVars => ServiceInv'
<1> SUFFICES ASSUME ServiceInv, [ServiceNext]_serviceVars PROVE ServiceInv'
  OBVIOUS
<1>1. CASE ServiceNext
  BY <1>1, ProcKeeps, CommandsKeep, AppKeeps DEF ServiceNext
<1>2. CASE UNCHANGED serviceVars
  BY <1>2 DEF serviceVars, ServiceInv, ServiceTypes, PipeHasClient, StoppedIsIdle, RestartRemembers,
              AnswersArePast, ResponseIsRead, AgentIsWithItsClient, AgentsGoToo
<1>3. QED  BY <1>1, <1>2

(* The commands of the service's side restart, an agent or a response is   *)
(* never lost to a race: a response stays readable by its client, a        *)
(* restart is not taken in by the process it stopped, agents are started   *)
(* in the session of the program, and end with the service.                *)
THEOREM ServiceKeepsFaith == ServiceSpec => []ServiceIsTrue
<1>1. ServiceInv => ServiceIsTrue
  <2>1. ASSUME ServiceInv, NEW a \in Askers,
               elevated[a].at = "done", elevated[a].ok, elevated[a].was # 0
        PROVE  proc.gen # elevated[a].was
    <3>1. elevated[a].was \in Nat /\ proc.gen \in Nat /\ elevated[a].was < proc.gen
      BY <2>1 DEF ServiceInv, ServiceTypes, Commands, Processes, RestartRemembers
    <3>2. QED  BY <3>1
  <2>2. QED  BY <2>1 DEF ServiceInv, ServiceIsTrue, RestartedIsNew
<1>2. QED  BY <1>1, ServiceInitInv, ServiceStepInv, PTL DEF ServiceSpec


--------------------------------------------------------------------------------
(* The announcement of a host, and the list of hosts.                      *)

Offers == [modes : Modes \cup {"none"}, label : Labels, via : SUBSET Backends]
Beacons == [life : Nat, face : Offers]
Names == Nat \X Labels

\* The list never joins addresses of two lives of a host to one port.
Peers == {p \in [port : Nat, from : SUBSET Nat, face : Offers] : p.from \subseteq {p.port}}
Sights == [peer : Peers, age : Nat]
Instances == [name : Names, seen : Sights]
News == [kind : {"resolved"}, beacon : Beacons] \cup [kind : {"removed"}, name : Names]
Mails == [epoch : Nat, peer : Peers]

Stations == [at : {"down", "rest", "stopping", "announcing", "failed"}, life : Nat, want : Offers,
             ad : Offers, fresh : SUBSET {"modes", "settings"}, served : BOOLEAN]
Announcements == [mdns : BOOLEAN, renews : BOOLEAN, late : Beacons, leases : Seq(Beacons), now : Beacons]
Daemons == [held : SUBSET Names, news : Seq(News)]
Lists == [mdns : SUBSET Instances, lnd : Sights, at : {"idle", "asking"}, swept : BOOLEAN,
          dirty : BOOLEAN, last : Nat]
Screens == [epoch : Nat, peer : Peers, mail : Seq(Mails)]
Seekers == [at : {"idle", "connecting", "connected", "searching"}, query : Labels \cup {"device"},
            target : Peers]

DiscoveryTypes ==
    /\ station \in Stations /\ beacons \in Announcements /\ daemon \in Daemons
    /\ list \in Lists /\ screen \in Screens /\ seeker \in Seekers

\* While a host is up, what it announces or is about to announce differs from what the user
\* wants only where a change has not been seen yet.
Follows ==
    Up => /\ "modes" \in station.fresh \/ station.ad.modes = station.want.modes
          /\ "settings" \in station.fresh \/ (/\ station.ad.label = station.want.label
                                              /\ station.ad.via = station.want.via)

DiscoveryInv == DiscoveryTypes /\ Follows /\ NewestIsListed /\ GoneIsForgotten


(* Each step touches the host, the list or the client.                     *)
LEMMA HostSide ==
    ASSUME DiscoveryInv, UNCHANGED <<daemon, list, screen, seeker>>,
           station' \in Stations, beacons' \in Announcements, Follows'
    PROVE  DiscoveryInv'
BY DEF DiscoveryInv, DiscoveryTypes, NewestIsListed, GoneIsForgotten

LEMMA ListSide ==
    ASSUME DiscoveryInv, UNCHANGED <<station, beacons>>, daemon' \in Daemons, list' \in Lists,
           screen' \in Screens, seeker' \in Seekers, NewestIsListed', GoneIsForgotten'
    PROVE  DiscoveryInv'
BY DEF DiscoveryInv, DiscoveryTypes, Follows, Up

LEMMA NoHost == NoBeacon \in Beacons /\ NoBeacon.face \in Offers
BY DiscoveryAssumption DEF NoBeacon, Beacons, Offers, NoLabel

LEMMA BeaconNames == \A b \in Beacons : Name(b) \in Names
BY DEF Beacons, Offers, Names, Name

(* What becomes of an announcement.                                        *)
LEMMA AnnouncementFacts ==
    ASSUME beacons \in Announcements
    PROVE  /\ [beacons EXCEPT !.mdns = FALSE] \in Announcements
           /\ StopRenewal => beacons' \in Announcements
           /\ \A b \in Beacons : Leased(b) => beacons' \in Announcements
           /\ \A tail \in Seq(Beacons) : [beacons EXCEPT !.leases = tail] \in Announcements
<1>1. ASSUME NEW late \in Beacons
      PROVE  [beacons EXCEPT !.mdns = FALSE, !.renews = FALSE, !.late = late] \in Announcements
  BY DEF Announcements
<1>2. StopRenewal => beacons' \in Announcements
  <2> SUFFICES ASSUME StopRenewal PROVE beacons' \in Announcements
    OBVIOUS
  <2>1. PICK late \in {NoBeacon} \cup (IF beacons.renews THEN {beacons.now} ELSE {}) :
           beacons' = [beacons EXCEPT !.mdns = FALSE, !.renews = FALSE, !.late = late]
    BY DEF StopRenewal
  <2>2. beacons.now \in Beacons
    BY DEF Announcements
  <2>3. late \in Beacons
    BY <2>1, <2>2, NoHost
  <2>4. QED  BY <1>1, <2>1, <2>3
<1>3. ASSUME NEW b \in Beacons, Leased(b)
      PROVE  beacons' \in Announcements
  <2>1. PICK i \in 1 .. Len(beacons.leases) + 1 :
           beacons' = [beacons EXCEPT !.leases = Append(Without(i), b),
                                      !.late = IF b = @ THEN NoBeacon ELSE @]
    BY <1>3 DEF Leased
  <2>2. beacons.leases \in Seq(Beacons) /\ beacons.late \in Beacons
    BY DEF Announcements
  <2>3. Without(i) \in Seq(Beacons)
    <3>1. Len(beacons.leases) \in Nat
      BY <2>2
    <3>2. /\ SubSeq(beacons.leases, 1, i - 1) \in Seq(Beacons)
          /\ SubSeq(beacons.leases, i + 1, Len(beacons.leases)) \in Seq(Beacons)
      BY <2>2, <3>1
    <3>3. QED  BY <3>2 DEF Without
  <2>4. Append(Without(i), b) \in Seq(Beacons)
    BY <2>3
  <2>5. PICK leases \in Seq(Beacons) : leases = Append(Without(i), b)
    BY <2>4
  <2>6. PICK late \in Beacons : late = IF b = beacons.late THEN NoBeacon ELSE beacons.late
    BY <2>2, NoHost
  <2>7. beacons' = [beacons EXCEPT !.leases = leases, !.late = late]
    BY <2>1, <2>5, <2>6
  <2>8. QED  BY <2>7 DEF Announcements
<1>4. \A tail \in Seq(Beacons) : [beacons EXCEPT !.leases = tail] \in Announcements
  BY DEF Announcements
<1>6. [beacons EXCEPT !.mdns = FALSE] \in Announcements
  BY DEF Announcements
<1>7. QED  BY <1>2, <1>3, <1>4, <1>6

(* The host, with the changes its task has not seen.                       *)
LEMMA HostKeeps == DiscoveryInv /\ HostNext => DiscoveryInv'
<1> SUFFICES ASSUME DiscoveryInv, HostNext PROVE DiscoveryInv'
  OBVIOUS
<1>0. /\ station \in Stations /\ beacons \in Announcements /\ Follows
      /\ station.ad \in Offers /\ station.want \in Offers /\ station.life \in Nat
  BY DEF DiscoveryInv, DiscoveryTypes, Stations
<1>1. CASE StartHost
  <2>1. /\ station' = [station EXCEPT !.at = "announcing", !.life = @ + 1, !.ad = station.want,
                                      !.fresh = {}, !.served = FALSE]
        /\ UNCHANGED <<beacons, daemon, list, screen, seeker>>
    BY <1>1 DEF StartHost
  <2>2. station' \in Stations /\ station'.ad = station.want /\ station'.want = station.want
    <3>1. PICK life \in Nat, ad \in Offers : life = station.life + 1 /\ ad = station.want
      BY <1>0
    <3>2. station' = [station EXCEPT !.at = "announcing", !.life = life, !.ad = ad, !.fresh = {},
                                     !.served = FALSE]
      BY <2>1, <3>1
    <3>3. QED  BY <1>0, <3>1, <3>2 DEF Stations
  <2>3. Follows'
    BY <2>2 DEF Follows
  <2>4. QED  BY <1>0, <2>1, <2>2, <2>3, HostSide
<1>2. ASSUME NEW m \in Modes, ChangeModes(m) PROVE DiscoveryInv'
  <2>1. UNCHANGED <<beacons, daemon, list, screen, seeker>>
    BY <1>2 DEF ChangeModes
  <2>2. PICK fresh \in SUBSET {"modes", "settings"} :
           fresh = IF Up THEN station.fresh \cup {"modes"} ELSE station.fresh
    BY <1>0 DEF Stations
  <2>3. PICK want \in Offers : want = [station.want EXCEPT !.modes = m]
    BY <1>0 DEF Offers
  <2>4. station' = [station EXCEPT !.want = want, !.fresh = fresh]
    BY <1>0, <1>2, <2>2, <2>3 DEF ChangeModes, Stations
  <2>5. station' \in Stations /\ station'.ad = station.ad /\ station'.want = want
        /\ station'.fresh = fresh /\ station'.at = station.at
    BY <1>0, <2>4 DEF Stations
  <2>6. want.label = station.want.label /\ want.via = station.want.via
    BY <1>0, <2>3 DEF Offers
  <2>7. Follows'
    BY <1>0, <2>2, <2>5, <2>6 DEF Follows, Up
  <2>8. QED  BY <1>0, <2>1, <2>5, <2>7, HostSide
<1>3. ASSUME NEW label \in Labels, NEW via \in SUBSET Backends, ChangeSettings(label, via)
      PROVE  DiscoveryInv'
  <2>1. UNCHANGED <<beacons, daemon, list, screen, seeker>>
    BY <1>3 DEF ChangeSettings
  <2>2. PICK fresh \in SUBSET {"modes", "settings"} :
           fresh = IF Up THEN station.fresh \cup {"settings"} ELSE station.fresh
    BY <1>0 DEF Stations
  <2>3. PICK want \in Offers : want = [station.want EXCEPT !.label = label, !.via = via]
    BY <1>0 DEF Offers
  <2>4. station' = [station EXCEPT !.want = want, !.fresh = fresh]
    BY <1>0, <1>3, <2>2, <2>3 DEF ChangeSettings, Stations
  <2>5. station' \in Stations /\ station'.ad = station.ad /\ station'.want = want
        /\ station'.fresh = fresh /\ station'.at = station.at
    BY <1>0, <2>4 DEF Stations
  <2>6. want.modes = station.want.modes
    BY <1>0, <2>3 DEF Offers
  <2>7. Follows'
    BY <1>0, <2>2, <2>5, <2>6 DEF Follows, Up
  <2>8. QED  BY <1>0, <2>1, <2>5, <2>7, HostSide
<1>4. ASSUME NEW kind \in {"modes", "settings"}, NoticeChange(kind) PROVE DiscoveryInv'
  <2>1. PICK next \in Offers : next = Updated(kind)
    BY <1>0 DEF Updated, Offers
  <2>2. PICK at \in {"rest", "stopping"} : at = IF next = station.ad THEN "rest" ELSE "stopping"
    OBVIOUS
  <2>3. /\ station.at = "rest"
        /\ station' = [station EXCEPT !.fresh = @ \ {kind}, !.ad = next, !.at = at]
        /\ beacons' = IF next = station.ad THEN beacons ELSE [beacons EXCEPT !.mdns = FALSE]
        /\ UNCHANGED <<daemon, list, screen, seeker>>
    BY <1>4, <2>1, <2>2 DEF NoticeChange
  <2>4. station' \in Stations /\ station'.ad = next /\ station'.want = station.want
        /\ station'.fresh = station.fresh \ {kind}
    BY <1>0, <2>3 DEF Stations
  <2>5. IF kind = "modes"
        THEN next.modes = station.want.modes /\ next.label = station.ad.label /\ next.via = station.ad.via
        ELSE next.modes = station.ad.modes /\ next.label = station.want.label /\ next.via = station.want.via
    BY <1>0, <2>1 DEF Updated, Offers
  <2>6. Follows'
    BY <1>0, <2>3, <2>4, <2>5 DEF Follows, Up
  <2>7. beacons' \in Announcements
    BY <1>0, <2>3, AnnouncementFacts
  <2>8. QED  BY <1>0, <2>3, <2>4, <2>6, <2>7, HostSide
<1>5. CASE Stopped
  <2>1. /\ station.at = "stopping" /\ station' = [station EXCEPT !.at = "announcing"] /\ StopRenewal
        /\ UNCHANGED <<daemon, list, screen, seeker>>
    BY <1>5 DEF Stopped
  <2>2. station' \in Stations /\ station'.ad = station.ad /\ station'.want = station.want
        /\ station'.fresh = station.fresh
    BY <1>0, <2>1 DEF Stations
  <2>3. Follows'
    BY <1>0, <2>1, <2>2 DEF Follows, Up
  <2>4. QED  BY <1>0, <2>1, <2>2, <2>3, AnnouncementFacts, HostSide
<1>6. ASSUME NEW started \in SUBSET Backends, Announce(started) PROVE DiscoveryInv'
  <2>1. /\ station.at = "announcing" /\ UNCHANGED <<daemon, list, screen, seeker>>
        /\ station' \in {[station EXCEPT !.at = "rest", !.served = TRUE], [station EXCEPT !.at = "failed"]}
        /\ beacons' = [beacons EXCEPT !.mdns = "mdns" \in started, !.renews = "lnd" \in started,
                                      !.now = [life |-> station.life, face |-> station.ad]]
    BY <1>6 DEF Announce
  <2>2. station' \in Stations /\ station'.ad = station.ad /\ station'.want = station.want
        /\ station'.fresh = station.fresh
    BY <1>0, <2>1 DEF Stations
  <2>3. Follows'
    BY <1>0, <2>1, <2>2 DEF Follows, Up
  <2>4. [life |-> station.life, face |-> station.ad] \in Beacons
    BY <1>0 DEF Beacons
  <2>5. PICK b \in Beacons : b = [life |-> station.life, face |-> station.ad]
    BY <2>4
  <2>6. beacons' = [beacons EXCEPT !.mdns = "mdns" \in started, !.renews = "lnd" \in started, !.now = b]
    BY <2>1, <2>5
  <2>7. beacons' \in Announcements
    <3>1. \A on \in BOOLEAN, renews \in BOOLEAN :
             [beacons EXCEPT !.mdns = on, !.renews = renews, !.now = b] \in Announcements
      BY <1>0 DEF Announcements
    <3>2. ("mdns" \in started) \in BOOLEAN /\ ("lnd" \in started) \in BOOLEAN
      OBVIOUS
    <3>3. QED  BY <2>6, <3>1, <3>2, Zenon
  <2>8. QED  BY <1>0, <2>1, <2>2, <2>3, <2>7, HostSide
<1>7. CASE Renew \/ RenewLate
  <2>1. UNCHANGED <<station, daemon, list, screen, seeker>> /\ (Leased(beacons.now) \/ Leased(beacons.late))
    BY <1>7 DEF Renew, RenewLate
  <2>2. beacons.now \in Beacons /\ beacons.late \in Beacons
    BY <1>0 DEF Announcements
  <2>3. beacons' \in Announcements
    BY <1>0, <2>1, <2>2, AnnouncementFacts
  <2>4. Follows' /\ station' \in Stations
    BY <1>0, <2>1 DEF Follows, Up
  <2>5. QED  BY <2>1, <2>3, <2>4, HostSide
<1>8. CASE Lapse
  <2>1. UNCHANGED <<station, daemon, list, screen, seeker>> /\ beacons.leases # <<>>
        /\ beacons' = [beacons EXCEPT !.leases = Tail(@)]
    BY <1>8 DEF Lapse
  <2>2. Tail(beacons.leases) \in Seq(Beacons)
    BY <1>0, <2>1 DEF Announcements
  <2>3. beacons' \in Announcements
    BY <1>0, <2>1, <2>2, AnnouncementFacts
  <2>4. Follows' /\ station' \in Stations
    BY <1>0, <2>1 DEF Follows, Up
  <2>5. QED  BY <2>1, <2>3, <2>4, HostSide
<1>9. CASE EndHost
  <2>1. /\ station' = [station EXCEPT !.at = "down", !.fresh = {}] /\ StopRenewal
        /\ UNCHANGED <<daemon, list, screen, seeker>>
    BY <1>9 DEF EndHost
  <2>2. station' \in Stations /\ station'.at = "down"
    BY <1>0, <2>1 DEF Stations
  <2>3. Follows'
    BY <2>2 DEF Follows, Up
  <2>4. QED  BY <1>0, <2>1, <2>2, <2>3, AnnouncementFacts, HostSide
<1>10. QED
  BY <1>1, <1>2, <1>3, <1>4, <1>5, <1>6, <1>7, <1>8, <1>9 DEF HostNext


(* A peer of the list is one life of the host.                             *)
LEMMA ListedFacts ==
    /\ Nobody \in Sights
    /\ \A b \in Beacons : /\ Seen(b) \in Sights /\ Seen(b).peer.port = b.life /\ Seen(b).age = 0
                          /\ [name |-> Name(b), seen |-> Seen(b)] \in Instances
    /\ \A p \in Peers, q \in Peers : Merge(p, q) \in Peers
    /\ \A s \in Sights : /\ Older(s) \in Sights /\ Older(s).peer = s.peer /\ Older(s).age <= s.age + 1
<1>1. Nobody \in Sights
  <2>1. [port |-> 0, from |-> {}, face |-> NoBeacon.face] \in [port : Nat, from : SUBSET Nat, face : Offers]
    BY NoHost
  <2>2. [port |-> 0, from |-> {}, face |-> NoBeacon.face] \in Peers
    BY <2>1 DEF Peers
  <2>3. QED  BY <2>2 DEF Nobody, Sights
<1>2. ASSUME NEW b \in Beacons
      PROVE  /\ Seen(b) \in Sights /\ Seen(b).peer.port = b.life /\ Seen(b).age = 0
             /\ [name |-> Name(b), seen |-> Seen(b)] \in Instances
  <2>1. b.life \in Nat /\ b.face \in Offers
    BY DEF Beacons
  <2>2. Listed(b) \in [port : Nat, from : SUBSET Nat, face : Offers] /\ Listed(b).port = b.life
        /\ Listed(b).from = {b.life}
    BY <2>1 DEF Listed
  <2>3. Listed(b) \in Peers
    BY <2>2 DEF Peers
  <2>4. Seen(b) \in Sights /\ Seen(b).peer = Listed(b) /\ Seen(b).age = 0
    BY <2>3 DEF Seen, Sights
  <2>5. QED  BY <2>2, <2>4, BeaconNames DEF Instances
<1>3. ASSUME NEW p \in Peers, NEW q \in Peers PROVE Merge(p, q) \in Peers
  <2>1. /\ p \in [port : Nat, from : SUBSET Nat, face : Offers] /\ p.from \subseteq {p.port}
        /\ q \in [port : Nat, from : SUBSET Nat, face : Offers] /\ q.from \subseteq {q.port}
    BY DEF Peers
  <2>2. CASE p.port = q.port
    <3>1. PICK from \in SUBSET Nat : from = p.from \cup q.from
      BY <2>1
    <3>2. from \subseteq {p.port}
      BY <2>1, <2>2, <3>1
    <3>3. /\ [p EXCEPT !.from = from] \in [port : Nat, from : SUBSET Nat, face : Offers]
          /\ [p EXCEPT !.from = from].from = from /\ [p EXCEPT !.from = from].port = p.port
      BY <2>1
    <3>4. [p EXCEPT !.from = from] \in Peers
      BY <3>2, <3>3 DEF Peers
    <3>5. QED  BY <3>1, <3>4 DEF Merge
  <2>3. QED  BY <2>2 DEF Merge
<1>4. ASSUME NEW s \in Sights
      PROVE  Older(s) \in Sights /\ Older(s).peer = s.peer /\ Older(s).age <= s.age + 1
  BY DEF Older, Sights
<1>5. QED  BY <1>1, <1>2, <1>3, <1>4

LEMMA SnapshotFacts ==
    ASSUME NEW mdns \in SUBSET Instances, NEW lnd \in Sights
    PROVE  Snapshot(mdns, lnd) \in Peers
<1>1. lnd.peer \in Peers
  BY DEF Sights
<1>2. CASE mdns # {}
  <2>1. PICK e \in mdns : e = CHOOSE f \in mdns : TRUE
    BY <1>2
  <2>2. e.seen.peer \in Peers
    BY <2>1 DEF Instances, Sights
  <2>3. QED  BY <1>1, <1>2, <2>1, <2>2, ListedFacts DEF Snapshot
<1>3. QED  BY <1>1, <1>2 DEF Snapshot

LEMMA LatestFacts == ASSUME NEW leases \in Seq(Beacons) PROVE Latest(leases) \in Sights /\ Latest(leases).age = 0
<1>1. Nobody \in Sights /\ Nobody.age = 0
  BY ListedFacts DEF Nobody
<1>2. CASE leases # <<>>
  <2>1. leases[Len(leases)] \in Beacons
    BY <1>2
  <2>2. QED  BY <1>2, <2>1, ListedFacts DEF Latest
<1>3. QED  BY <1>1, <1>2 DEF Latest

(* The task of the list, what it hears and what it shows.                  *)
LEMMA ListKeeps == DiscoveryInv /\ ListNext => DiscoveryInv'
<1> SUFFICES ASSUME DiscoveryInv, ListNext PROVE DiscoveryInv'
  OBVIOUS
<1>0. /\ beacons \in Announcements /\ daemon \in Daemons /\ list \in Lists /\ screen \in Screens
      /\ seeker \in Seekers /\ NewestIsListed /\ GoneIsForgotten
      /\ beacons.now \in Beacons /\ beacons.leases \in Seq(Beacons)
      /\ daemon.news \in Seq(News) /\ daemon.held \in SUBSET Names
      /\ list.mdns \in SUBSET Instances /\ list.lnd \in Sights /\ screen.mail \in Seq(Mails)
      /\ screen.epoch \in Nat
  BY DEF DiscoveryInv, DiscoveryTypes, Announcements, Daemons, Lists, Screens
<1>a. MdnsStale \in Nat /\ LndStale \in Nat
  BY DiscoveryAssumption
<1>b. \A e \in list.mdns : e \in Instances /\ e.seen \in Sights /\ e.seen.age \in Nat
  BY <1>0 DEF Instances, Sights
<1>c. list.lnd.age \in Nat
  BY <1>0 DEF Sights
<1>1. CASE Hear \/ Miss
  <2>1. /\ UNCHANGED <<station, beacons, list, screen, seeker>>
        /\ \E event \in News : Tell(event)
    <3>1. CASE Hear
      <4>1. [kind |-> "resolved", beacon |-> beacons.now] \in News
        BY <1>0 DEF News
      <4>2. QED  BY <3>1, <4>1 DEF Hear
    <3>2. CASE Miss
      <4>1. PICK name \in daemon.held : Tell([kind |-> "removed", name |-> name])
        BY <3>2 DEF Miss
      <4>2. [kind |-> "removed", name |-> name] \in News
        BY <1>0 DEF News
      <4>3. QED  BY <3>2, <4>1, <4>2 DEF Miss
    <3>3. QED  BY <1>1, <3>1, <3>2
  <2>2. PICK event \in News : Tell(event)
    BY <2>1
  <2>3. PICK news \in Seq(News) : news = Append(daemon.news, event)
    <3>1. Append(daemon.news, event) \in Seq(News)
      BY <1>0
    <3>2. QED  BY <3>1
  <2>4. PICK held \in SUBSET Names :
           held = IF event.kind = "resolved" THEN daemon.held \cup {Name(event.beacon)}
                  ELSE daemon.held \ {event.name}
    <3>1. event.kind = "resolved" => event.beacon \in Beacons
      BY DEF News
    <3>2. QED  BY <1>0, <3>1, BeaconNames
  <2>5. daemon' = [daemon EXCEPT !.news = news, !.held = held]
    BY <2>2, <2>3, <2>4 DEF Tell
  <2>6. daemon' \in Daemons
    BY <1>0, <2>5 DEF Daemons
  <2>7. NewestIsListed' /\ GoneIsForgotten'
    BY <1>0, <2>1 DEF NewestIsListed, GoneIsForgotten
  <2>8. QED  BY <1>0, <2>1, <2>6, <2>7, ListSide
<1>2. CASE TakeNews
  <2>1. UNCHANGED <<station, beacons, screen, seeker>> /\ daemon.news # <<>>
    BY <1>2 DEF TakeNews
  <2>2. PICK event \in News : event = Head(daemon.news)
    BY <1>0, <2>1
  <2>3. PICK news \in Seq(News) : news = Tail(daemon.news)
    <3>1. Tail(daemon.news) \in Seq(News)
      BY <1>0, <2>1
    <3>2. QED  BY <3>1
  <2>4. daemon' = [daemon EXCEPT !.news = news]
    BY <1>2, <2>3 DEF TakeNews
  <2>5. daemon' \in Daemons
    BY <1>0, <2>4 DEF Daemons
  <2>6. CASE event.kind = "resolved"
    <3>1. event.beacon \in Beacons
      BY <2>6 DEF News
    <3>2. PICK mdns \in SUBSET Instances : mdns = Upsert(list.mdns, event.beacon)
      BY <3>1, ListedFacts DEF Upsert
    <3>3. PICK last \in Nat : last = event.beacon.life
      BY <3>1 DEF Beacons
    <3>4. list' = [list EXCEPT !.dirty = TRUE, !.mdns = mdns, !.last = last]
      BY <1>2, <2>2, <2>6, <3>2, <3>3 DEF TakeNews
    <3>5. list' \in Lists /\ list'.mdns = mdns /\ list'.last = last /\ list'.lnd = list.lnd
          /\ list'.swept = list.swept
      BY <1>0, <3>4 DEF Lists
    <3>6. \A e \in mdns : e.seen.peer.port = last /\ e.seen.age = 0
      BY <3>1, <3>2, <3>3, ListedFacts DEF Upsert
    <3>7. NewestIsListed' /\ GoneIsForgotten'
      BY <1>0, <1>a, <3>5, <3>6 DEF NewestIsListed, GoneIsForgotten
    <3>8. QED  BY <1>0, <2>1, <2>5, <3>5, <3>7, ListSide
  <2>7. CASE event.kind # "resolved"
    <3>1. PICK mdns \in SUBSET Instances : mdns = RemoveMdns(list.mdns, event.name)
      BY <1>0 DEF RemoveMdns
    <3>2. list' = [list EXCEPT !.dirty = TRUE, !.mdns = mdns, !.last = list.last]
      BY <1>2, <2>2, <2>7, <3>1 DEF TakeNews
    <3>3. list' \in Lists /\ list'.mdns = mdns /\ list'.last = list.last /\ list'.lnd = list.lnd
          /\ list'.swept = list.swept
      BY <1>0, <3>2 DEF Lists
    <3>4. mdns \subseteq list.mdns
      BY <3>1 DEF RemoveMdns
    <3>5. NewestIsListed' /\ GoneIsForgotten'
      BY <1>0, <3>3, <3>4 DEF NewestIsListed, GoneIsForgotten
    <3>6. QED  BY <1>0, <2>1, <2>5, <3>3, <3>5, ListSide
  <2>8. QED  BY <2>6, <2>7
<1>3. CASE AskServer \/ ServerFails
  <2>1. /\ UNCHANGED <<station, beacons, daemon, screen, seeker>>
        /\ \E at \in {"idle", "asking"} : list' = [list EXCEPT !.at = at]
    BY <1>3 DEF AskServer, ServerFails
  <2>2. /\ list' \in Lists /\ list'.mdns = list.mdns /\ list'.last = list.last /\ list'.lnd = list.lnd
        /\ list'.swept = list.swept
    BY <1>0, <2>1 DEF Lists
  <2>3. NewestIsListed' /\ GoneIsForgotten'
    BY <1>0, <2>2 DEF NewestIsListed, GoneIsForgotten
  <2>4. QED  BY <1>0, <2>1, <2>2, <2>3, ListSide
<1>4. CASE ServerAnswers
  <2>1. PICK lnd \in Sights : lnd = Latest(beacons.leases) /\ lnd.age = 0
    BY <1>0, LatestFacts
  <2>2. /\ UNCHANGED <<station, beacons, daemon, screen, seeker>>
        /\ list' = [list EXCEPT !.at = "idle", !.lnd = lnd, !.dirty = TRUE]
    BY <1>4, <2>1 DEF ServerAnswers
  <2>3. /\ list' \in Lists /\ list'.mdns = list.mdns /\ list'.last = list.last /\ list'.lnd = lnd
        /\ list'.swept = list.swept
    BY <1>0, <2>2 DEF Lists
  <2>4. NewestIsListed' /\ GoneIsForgotten'
    BY <1>0, <1>a, <2>1, <2>3 DEF NewestIsListed, GoneIsForgotten
  <2>5. QED  BY <1>0, <2>2, <2>3, <2>4, ListSide
<1>5. CASE Expire
  <2>1. PICK mdns \in SUBSET Instances : mdns = Believed(list.mdns)
    BY <1>0 DEF Believed
  <2>2. PICK lnd \in Sights : lnd = IF list.lnd.age <= LndStale THEN list.lnd ELSE Nobody
    BY <1>0, ListedFacts
  <2>3. PICK dirty \in BOOLEAN : dirty = (list.dirty \/ mdns # list.mdns \/ lnd # list.lnd)
    OBVIOUS
  <2>4. /\ UNCHANGED <<station, beacons, daemon, screen, seeker>>
        /\ list' = [list EXCEPT !.mdns = mdns, !.lnd = lnd, !.swept = TRUE, !.dirty = dirty]
    BY <1>5, <2>1, <2>2, <2>3 DEF Expire
  <2>5. /\ list' \in Lists /\ list'.mdns = mdns /\ list'.last = list.last /\ list'.lnd = lnd
    BY <1>0, <2>4 DEF Lists
  <2>6. /\ \A e \in mdns : e \in list.mdns /\ e.seen.age <= MdnsStale
        /\ lnd.age <= LndStale /\ lnd.age \in Nat
    BY <1>a, <1>c, <2>1, <2>2 DEF Believed, Nobody
  <2>7. NewestIsListed'
    BY <1>0, <2>5, <2>6 DEF NewestIsListed
  <2>8. GoneIsForgotten'
    <3>1. \A e \in mdns : e.seen.age <= MdnsStale + 1
      BY <1>a, <1>b, <2>6
    <3>2. lnd.age <= LndStale + 1
      BY <1>a, <2>6
    <3>3. QED  BY <2>5, <2>6, <3>1, <3>2 DEF GoneIsForgotten
  <2>9. QED  BY <1>0, <2>4, <2>5, <2>7, <2>8, ListSide
<1>6. CASE Tick
  <2>1. \A e \in list.mdns : /\ [e EXCEPT !.seen = Older(@)] \in Instances
                             /\ [e EXCEPT !.seen = Older(@)].seen.peer = e.seen.peer
                             /\ [e EXCEPT !.seen = Older(@)].seen.age <= e.seen.age + 1
    <3> SUFFICES ASSUME NEW e \in list.mdns
                 PROVE  /\ [e EXCEPT !.seen = Older(@)] \in Instances
                        /\ [e EXCEPT !.seen = Older(@)].seen.peer = e.seen.peer
                        /\ [e EXCEPT !.seen = Older(@)].seen.age <= e.seen.age + 1
      OBVIOUS
    <3>1. PICK older \in Sights : older = Older(e.seen) /\ older.peer = e.seen.peer
                                  /\ older.age <= e.seen.age + 1
      BY <1>b, ListedFacts
    <3>2. [e EXCEPT !.seen = older] \in Instances /\ [e EXCEPT !.seen = older].seen = older
      BY <1>b DEF Instances
    <3>3. QED  BY <3>1, <3>2
  <2>2. PICK mdns \in SUBSET Instances : mdns = {[e EXCEPT !.seen = Older(@)] : e \in list.mdns}
    BY <2>1
  <2>3. PICK lnd \in Sights : lnd = Older(list.lnd) /\ lnd.age <= list.lnd.age + 1
    BY <1>0, ListedFacts
  <2>4. /\ UNCHANGED <<station, beacons, daemon, screen, seeker>> /\ list.swept
        /\ list' = [list EXCEPT !.swept = FALSE, !.lnd = lnd, !.mdns = mdns]
    BY <1>6, <2>2, <2>3 DEF Tick
  <2>5. /\ list' \in Lists /\ list'.mdns = mdns /\ list'.last = list.last /\ list'.lnd = lnd
        /\ ~list'.swept
    BY <1>0, <2>4 DEF Lists
  <2>6. \A f \in mdns : \E e \in list.mdns : f.seen.peer = e.seen.peer /\ f.seen.age <= e.seen.age + 1
    BY <2>1, <2>2
  <2>7. NewestIsListed'
    BY <1>0, <2>5, <2>6 DEF NewestIsListed
  <2>8. GoneIsForgotten'
    <3>1. \A f \in mdns : f.seen.age <= MdnsStale + 1
      <4> SUFFICES ASSUME NEW f \in mdns PROVE f.seen.age <= MdnsStale + 1
        OBVIOUS
      <4>1. PICK e \in list.mdns : f.seen.age <= e.seen.age + 1
        BY <2>6
      <4>2. e.seen.age <= MdnsStale /\ e.seen.age \in Nat
        BY <1>0, <1>b, <2>4 DEF GoneIsForgotten
      <4>3. f.seen.age \in Nat
        BY <2>2 DEF Instances, Sights
      <4>4. QED  BY <1>a, <4>1, <4>2, <4>3
    <3>2. lnd.age <= LndStale + 1
      <4>1. lnd.age \in Nat /\ list.lnd.age <= LndStale
        BY <1>0, <2>4 DEF Sights, GoneIsForgotten
      <4>2. QED  BY <1>a, <1>c, <2>3, <4>1
    <3>3. QED  BY <2>5, <3>1, <3>2 DEF GoneIsForgotten
  <2>9. QED  BY <1>0, <2>4, <2>5, <2>7, <2>8, ListSide
<1>7. CASE Publish
  <2>1. PICK mail \in Mails : mail = [epoch |-> screen.epoch, peer |-> Snapshot(list.mdns, list.lnd)]
    BY <1>0, SnapshotFacts DEF Mails
  <2>2. PICK mails \in Seq(Mails) : mails = Append(screen.mail, mail)
    <3>1. Append(screen.mail, mail) \in Seq(Mails)
      BY <1>0
    <3>2. QED  BY <3>1
  <2>3. /\ UNCHANGED <<station, beacons, daemon, seeker>> /\ list' = [list EXCEPT !.dirty = FALSE]
        /\ screen' = [screen EXCEPT !.mail = mails]
    BY <1>7, <2>1, <2>2 DEF Publish
  <2>4. /\ list' \in Lists /\ list'.mdns = list.mdns /\ list'.last = list.last /\ list'.lnd = list.lnd
        /\ list'.swept = list.swept
    BY <1>0, <2>3 DEF Lists
  <2>5. screen' \in Screens
    BY <1>0, <2>3 DEF Screens
  <2>6. NewestIsListed' /\ GoneIsForgotten'
    BY <1>0, <2>4 DEF NewestIsListed, GoneIsForgotten
  <2>7. QED  BY <1>0, <2>3, <2>4, <2>5, <2>6, ListSide
<1>8. CASE TakeList
  <2>1. UNCHANGED <<station, beacons, daemon, list, seeker>> /\ screen.mail # <<>>
    BY <1>8 DEF TakeList
  <2>2. PICK mail \in Mails : mail = Head(screen.mail)
    BY <1>0, <2>1
  <2>3. PICK mails \in Seq(Mails) : mails = Tail(screen.mail)
    <3>1. Tail(screen.mail) \in Seq(Mails)
      BY <1>0, <2>1
    <3>2. QED  BY <3>1
  <2>4. PICK peer \in Peers : peer = Shows(mail)
    BY <1>0 DEF Shows, Mails, Screens
  <2>5. screen' = [screen EXCEPT !.peer = peer, !.mail = mails]
    BY <1>8, <2>2, <2>3, <2>4 DEF TakeList
  <2>6. screen' \in Screens
    BY <1>0, <2>5 DEF Screens
  <2>7. NewestIsListed' /\ GoneIsForgotten'
    BY <1>0, <2>1 DEF NewestIsListed, GoneIsForgotten
  <2>8. QED  BY <1>0, <2>1, <2>6, <2>7, ListSide
<1>9. CASE Respawn
  <2>1. /\ UNCHANGED <<station, beacons, seeker>> /\ screen' = [screen EXCEPT !.epoch = @ + 1]
        /\ list' = EmptyList /\ daemon' = [held |-> {}, news |-> <<>>]
    BY <1>9 DEF Respawn
  <2>2. EmptyList \in Lists
    BY ListedFacts DEF EmptyList, Lists
  <2>3. screen' \in Screens /\ daemon' \in Daemons
    BY <1>0, <2>1 DEF Screens, Daemons
  <2>4. NewestIsListed' /\ GoneIsForgotten'
    BY <1>a, <2>1 DEF NewestIsListed, GoneIsForgotten, EmptyList, Nobody
  <2>5. QED  BY <1>0, <2>1, <2>2, <2>3, <2>4, ListSide
<1>10. QED
  BY <1>1, <1>2, <1>3, <1>4, <1>5, <1>6, <1>7, <1>8, <1>9 DEF ListNext

(* The client.                                                             *)
LEMMA AimedFacts ==
    ASSUME seeker \in Seekers, NEW p \in Peers
    PROVE  Aimed(p) \in Seekers
<1>1. p.face.label \in Labels
  BY DEF Peers, Offers
<1>2. PreferredQuery(p) \in Labels \cup {"device"}
  BY <1>1 DEF PreferredQuery
<1>3. [seeker EXCEPT !.at = "searching"] \in Seekers
  BY DEF Seekers
<1>4. [at |-> "connecting", target |-> p, query |-> PreferredQuery(p)] \in Seekers
  BY <1>2 DEF Seekers
<1>5. QED  BY <1>3, <1>4 DEF Aimed

LEMMA SeekerKeeps == DiscoveryInv /\ SeekerNext => DiscoveryInv'
<1> SUFFICES ASSUME DiscoveryInv, SeekerNext PROVE DiscoveryInv'
  OBVIOUS
<1>0. /\ beacons \in Announcements /\ seeker \in Seekers /\ screen.peer \in Peers
      /\ beacons.now \in Beacons /\ beacons.leases \in Seq(Beacons)
      /\ daemon \in Daemons /\ list \in Lists /\ screen \in Screens /\ NewestIsListed /\ GoneIsForgotten
  BY DEF DiscoveryInv, DiscoveryTypes, Announcements, Screens
<1>1. UNCHANGED <<station, beacons, daemon, list, screen>>
  BY DEF SeekerNext, StartClient, Connect, LoseSession, Search
<1>2. seeker' \in Seekers
  <2>1. CASE StartClient
    BY <1>0, <2>1, AimedFacts DEF StartClient
  <2>2. CASE Connect \/ LoseSession
    <3>1. \E at \in {"connected", "searching"} : seeker' = [seeker EXCEPT !.at = at]
      BY <2>2 DEF Connect, LoseSession
    <3>2. QED  BY <1>0, <3>1 DEF Seekers
  <2>3. ASSUME NEW mdns \in BOOLEAN, NEW lnd \in BOOLEAN, Search(mdns, lnd)
        PROVE  seeker' \in Seekers
    <3>1. Heard(mdns) \in SUBSET Instances
      BY <1>0, ListedFacts DEF Heard, Upsert
    <3>2. Asked(lnd) \in Sights
      BY <1>0, ListedFacts, LatestFacts DEF Asked
    <3>3. Found(mdns, lnd) \in Peers
      BY <3>1, <3>2, SnapshotFacts DEF Found
    <3>4. QED  BY <1>0, <2>3, <3>3, AimedFacts DEF Search
  <2>4. QED  BY <2>1, <2>2, <2>3 DEF SeekerNext
<1>3. NewestIsListed' /\ GoneIsForgotten'
  BY <1>0, <1>1 DEF NewestIsListed, GoneIsForgotten
<1>4. QED  BY <1>0, <1>1, <1>2, <1>3, ListSide

LEMMA DiscoveryInitInv == DiscoveryInit => DiscoveryInv
<1> SUFFICES ASSUME DiscoveryInit PROVE DiscoveryInv
  OBVIOUS
<1>1. PICK face \in Faces :
         /\ station = [at |-> "down", life |-> 0, want |-> face, ad |-> face, fresh |-> {}, served |-> FALSE]
         /\ beacons = [mdns |-> FALSE, renews |-> FALSE, late |-> NoBeacon, leases |-> <<>>, now |-> NoBeacon]
  BY DEF DiscoveryInit
<1>2. face \in Offers
  BY DEF Faces, Offers
<1>3. station \in Stations /\ Follows
  BY <1>1, <1>2 DEF Stations, Follows, Up
<1>4. beacons \in Announcements
  BY <1>1, NoHost DEF Announcements
<1>5. /\ daemon = [held |-> {}, news |-> <<>>] /\ list = EmptyList
      /\ screen = [epoch |-> 1, peer |-> Nobody.peer, mail |-> <<>>]
      /\ seeker = [at |-> "idle", query |-> "device", target |-> Nobody.peer]
  BY DEF DiscoveryInit
<1>6. Nobody \in Sights /\ Nobody.peer \in Peers
  BY ListedFacts DEF Sights
<1>7. daemon \in Daemons /\ list \in Lists /\ screen \in Screens /\ seeker \in Seekers
  BY <1>5, <1>6 DEF Daemons, Lists, Screens, Seekers, EmptyList
<1>8. NewestIsListed /\ GoneIsForgotten
  BY <1>5, DiscoveryAssumption DEF NewestIsListed, GoneIsForgotten, EmptyList, Nobody
<1>9. QED  BY <1>3, <1>4, <1>7, <1>8 DEF DiscoveryInv, DiscoveryTypes

LEMMA DiscoveryStepInv == DiscoveryInv /\ [DiscoveryNext]_discoveryVars => DiscoveryInv'
<1> SUFFICES ASSUME DiscoveryInv, [DiscoveryNext]_discoveryVars PROVE DiscoveryInv'
  OBVIOUS
<1>1. CASE DiscoveryNext
  BY <1>1, HostKeeps, ListKeeps, SeekerKeeps DEF DiscoveryNext
<1>2. CASE UNCHANGED discoveryVars
  BY <1>2 DEF discoveryVars, DiscoveryInv, DiscoveryTypes, Follows, Up, NewestIsListed, GoneIsForgotten
<1>3. QED  BY <1>1, <1>2

(* For any modes, names and times of belief, and any number of changes,    *)
(* restarts and late events: what is announced becomes what the user set   *)
(* last, and the list and the client never join the addresses of two lives *)
(* of a host, go back to the older, or keep one that has gone silent.      *)
THEOREM HostsAreFound == DiscoverySpec => []DiscoveryIsTrue
<1>1. DiscoveryInv => DiscoveryIsTrue
  <2>1. DiscoveryInv => OneInstance
    BY DEF DiscoveryInv, DiscoveryTypes, Screens, Seekers, Peers, OneInstance
  <2>2. DiscoveryInv => AnnouncedIsCurrent
    <3> SUFFICES ASSUME DiscoveryInv, station.at = "rest", station.fresh = {}
                 PROVE  station.ad = station.want
      BY DEF AnnouncedIsCurrent
    <3>1. /\ station.ad \in Offers /\ station.want \in Offers
          /\ station.ad.modes = station.want.modes /\ station.ad.label = station.want.label
          /\ station.ad.via = station.want.via
      BY DEF DiscoveryInv, DiscoveryTypes, Stations, Follows, Up
    <3>2. QED  BY <3>1 DEF Offers
  <2>3. QED  BY <2>1, <2>2 DEF DiscoveryInv, DiscoveryIsTrue
<1>2. QED  BY <1>1, DiscoveryInitInv, DiscoveryStepInv, PTL DEF DiscoverySpec


--------------------------------------------------------------------------------
(* The authorization of two devices over Bluetooth.                        *)

\* Every key there may be.
Identities == {Joiner, Host, NoKey, Temporary, "another"} \cup {e.knew[p] : e \in Encounters, p \in Parties}

Consents == {"no", "yes", "remember"}
Ways == {"none", "authorize", "trusted"}

GreetingMessages == [kind : {"none", "hello", "share", "flight", "challenge", "bound"}, by : {NoKey},
                     on : {0}, body : [mode : Ways]]
RequestMessages == [kind : {"request"}, by : {Joiner}, on : Connections, body : [id : Connections]]
DecisionMessages == [kind : {"decision"}, by : {Host}, on : Connections,
                     body : [request : RequestMessages, says : Consents]]
ConfirmationMessages == [kind : {"confirmation"}, by : {Joiner}, on : Connections,
                         body : [decision : DecisionMessages, says : Consents]]
ReadyMessages == [kind : {"ready"}, by : {Host}, on : Connections,
                  body : [decision : DecisionMessages, says : Consents]]
AuthMessages == GreetingMessages \cup RequestMessages \cup DecisionMessages
                   \cup ConfirmationMessages \cup ReadyMessages

Numbers == Connections \cup {0}
Links == [open : BOOLEAN, mode : Ways, up : AuthMessages, down : AuthMessages,
          said : [Parties -> Consents \cup {"nothing"}]]
Joiners == [at : {"rest", "over", "challenge", "tls", "decision", "prompt", "ready", "binding", "session"},
            id : Numbers, roots : SUBSET Identities, candidate : BOOLEAN, named : BOOLEAN,
            sent : AuthMessages, bound : Numbers, input : BOOLEAN]
Acceptors == [at : {"vacant", "other", "greeted", "share", "tls", "prompt", "confirm"}, id : Numbers,
              active : BOOLEAN, roots : SUBSET Identities, sent : AuthMessages]
Completions == [id : Connections, trusted : BOOLEAN, existing : BOOLEAN]
Tables == [primary : Numbers, attached : Numbers, complete : Seq(Completions), revoking : BOOLEAN]

AuthTypes ==
    /\ known \in [Parties -> Identities] /\ lan \in [Parties -> BOOLEAN]
    /\ joiner \in Joiners /\ acceptor \in Acceptors /\ table \in Tables
    /\ rfcomm \in [Connections -> Links]

\* The joiner: it answers once on a connection, goes on when the host has agreed, and is a
\* candidate for a session on the LAN, with the identity of it, or else begins a session.
JoinerGood ==
    /\ joiner.at \in {"rest", "over"} <=> joiner.id = 0
    /\ joiner.id # 0 => Mine.mode # "none"
    /\ joiner.bound # 0 => rfcomm[joiner.bound].mode # "none" /\ joiner.candidate /\ lan[Joiner]
    /\ joiner.at \in {"challenge", "tls", "decision", "prompt"} => Mine.said[Joiner] = "nothing"
    /\ joiner.at \in {"prompt", "ready"} => Mine.said[Host] \in {"yes", "remember"}
    /\ joiner.at = "prompt" => Mine.mode # "trusted" /\ joiner.sent.kind = "decision"
    /\ joiner.candidate /\ joiner.id # 0 => lan[Joiner] /\ Mine.mode = "trusted"
    /\ joiner.at = "session" => ~joiner.candidate
    /\ joiner.at = "binding" => joiner.candidate

\* The host's task: it answers once too, and does not ask whom it may not.
AcceptorGood ==
    /\ acceptor.at \in {"vacant", "other"} <=> acceptor.id = 0
    /\ acceptor.id # 0 => Theirs.mode # "none"
    /\ acceptor.at \in {"greeted", "share", "tls", "prompt"} => Theirs.said[Host] = "nothing"
    /\ acceptor.at \in {"share", "tls", "prompt", "confirm"} => Theirs.up.kind # "hello"
    /\ acceptor.at = "prompt" => Theirs.mode = "authorize" /\ acceptor.sent.kind = "request"
    /\ acceptor.at \in {"share", "tls", "prompt"} /\ Theirs.mode = "authorize" => Host \notin policy.only

\* What the host has told the other end of a connection it has in its table.
InTable(n) ==
    \/ table.primary = n \/ table.attached = n
    \/ \E i \in DOMAIN table.complete : table.complete[i].id = n

TableGood ==
    /\ \A n \in Connections : InTable(n) => rfcomm[n].mode # "none"
    /\ \A i \in DOMAIN table.complete :
          table.complete[i].trusted <=> rfcomm[table.complete[i].id].mode = "trusted"
    /\ table.revoking => table.primary = 0 /\ table.attached = 0
    /\ table.attached # 0 => joiner.candidate
    /\ \A p \in Parties : lan[p] => joiner.candidate
    /\ TemporaryStaysSecond

\* A message says what its end has answered, and what the host's table holds.
LinkGood(n) ==
    /\ rfcomm[n].up.kind = "hello" => rfcomm[n].said[Host] = "nothing" /\ rfcomm[n].mode # "none"
    /\ rfcomm[n].up.kind = "confirmation" =>
          rfcomm[n].said[Joiner] # "nothing" /\ rfcomm[n].up.body.says = rfcomm[n].said[Joiner]
    /\ rfcomm[n].down.kind = "decision" =>
          rfcomm[n].said[Host] # "nothing" /\ rfcomm[n].down.body.says = rfcomm[n].said[Host]
    /\ rfcomm[n].open /\ rfcomm[n].down.kind = "ready" => InTable(n)
    /\ rfcomm[n].open /\ rfcomm[n].down.kind = "bound" => table.attached = n

LinksGood == \A n \in Connections : LinkGood(n)

AuthInv == AuthTypes /\ JoinerGood /\ AcceptorGood /\ TableGood /\ LinksGood /\ BothConsented /\ SameSession


LEMMA AuthMessageFacts ==
    /\ \A kind \in {"none", "hello", "share", "flight", "challenge", "bound"}, mode \in Ways :
          Greeting(kind, mode) \in AuthMessages /\ Greeting(kind, mode).kind = kind
    /\ Silence \in AuthMessages /\ Silence.kind = "none"
    /\ \A n \in Connections : Request(n) \in AuthMessages /\ Request(n).kind = "request"
    /\ \A r \in AuthMessages, says \in Consents : r.kind = "request" =>
          /\ Decision(r, says) \in AuthMessages /\ Decision(r, says).kind = "decision"
          /\ Decision(r, says).body.says = says
    /\ \A d \in AuthMessages, says \in Consents : d.kind = "decision" =>
          /\ Confirmation(d, says) \in AuthMessages /\ Confirmation(d, says).kind = "confirmation"
          /\ Confirmation(d, says).body.says = says
    /\ \A c \in AuthMessages : c.kind = "confirmation" =>
          Ready0(c) \in AuthMessages /\ Ready0(c).kind = "ready"
<1>1. \A kind \in {"none", "hello", "share", "flight", "challenge", "bound"}, mode \in Ways :
         Greeting(kind, mode) \in AuthMessages /\ Greeting(kind, mode).kind = kind
  BY DEF Greeting, Signed, AuthMessages, GreetingMessages
<1>2. Silence \in AuthMessages /\ Silence.kind = "none"
  BY <1>1 DEF Silence, Ways
<1>3. \A n \in Connections : Request(n) \in AuthMessages /\ Request(n).kind = "request"
  BY DEF Request, Signed, AuthMessages, RequestMessages
<1>4. ASSUME NEW r \in AuthMessages, NEW says \in Consents, r.kind = "request"
      PROVE  /\ Decision(r, says) \in AuthMessages /\ Decision(r, says).kind = "decision"
             /\ Decision(r, says).body.says = says
  <2>1. r \in RequestMessages /\ r.on \in Connections
    BY <1>4 DEF AuthMessages, GreetingMessages, RequestMessages, DecisionMessages, ConfirmationMessages,
                ReadyMessages
  <2>2. [request |-> r, says |-> says] \in [request : RequestMessages, says : Consents]
    BY <2>1
  <2>3. Decision(r, says) \in DecisionMessages
    BY <2>1, <2>2 DEF Decision, Signed, DecisionMessages
  <2>4. QED  BY <2>3 DEF Decision, Signed, AuthMessages
<1>5. ASSUME NEW d \in AuthMessages, NEW says \in Consents, d.kind = "decision"
      PROVE  /\ Confirmation(d, says) \in AuthMessages /\ Confirmation(d, says).kind = "confirmation"
             /\ Confirmation(d, says).body.says = says
  <2>1. d \in DecisionMessages /\ d.on \in Connections
    BY <1>5 DEF AuthMessages, GreetingMessages, RequestMessages, DecisionMessages, ConfirmationMessages,
                ReadyMessages
  <2>2. [decision |-> d, says |-> says] \in [decision : DecisionMessages, says : Consents]
    BY <2>1
  <2>3. Confirmation(d, says) \in ConfirmationMessages
    BY <2>1, <2>2 DEF Confirmation, Signed, ConfirmationMessages
  <2>4. QED  BY <2>3 DEF Confirmation, Signed, AuthMessages
<1>6. ASSUME NEW c \in AuthMessages, c.kind = "confirmation"
      PROVE  Ready0(c) \in AuthMessages /\ Ready0(c).kind = "ready"
  <2>1. c \in ConfirmationMessages /\ c.on \in Connections
        /\ c.body \in [decision : DecisionMessages, says : Consents]
    BY <1>6 DEF AuthMessages, GreetingMessages, RequestMessages, DecisionMessages, ConfirmationMessages,
                ReadyMessages
  <2>2. Ready0(c) \in ReadyMessages
    BY <2>1 DEF Ready0, Signed, ReadyMessages
  <2>3. QED  BY <2>2 DEF Ready0, Signed, AuthMessages
<1>7. QED  BY <1>1, <1>2, <1>3, <1>4, <1>5, <1>6

(* The operators on connections, each on one of them.                      *)
LEMMA ClosedFacts ==
    ASSUME NEW c \in [Connections -> Links], NEW n \in Connections
    PROVE  /\ Closed0(c, n) \in [Connections -> Links]
           /\ \A k \in Connections \ {n} : Closed0(c, n)[k] = c[k]
           /\ Closed0(c, n)[n].open = FALSE /\ Closed0(c, n)[n].mode = c[n].mode
           /\ Closed0(c, n)[n].up = c[n].up /\ Closed0(c, n)[n].down = c[n].down
           /\ Closed0(c, n)[n].said = c[n].said
<1>1. c[n] \in Links
  OBVIOUS
<1>2. Closed0(c, n) = [c EXCEPT ![n] = [c[n] EXCEPT !.open = FALSE]]
  BY DEF Closed0
<1>3. [c[n] EXCEPT !.open = FALSE] \in Links
  BY <1>1 DEF Links
<1>4. QED  BY <1>1, <1>2, <1>3 DEF Links

LEMMA HeardUpFacts ==
    ASSUME NEW c \in [Connections -> Links], NEW n \in Connections
    PROVE  /\ [c EXCEPT ![n].up = Silence] \in [Connections -> Links]
           /\ \A k \in Connections \ {n} : [c EXCEPT ![n].up = Silence][k] = c[k]
           /\ [c EXCEPT ![n].up = Silence][n].open = c[n].open
           /\ [c EXCEPT ![n].up = Silence][n].mode = c[n].mode
           /\ [c EXCEPT ![n].up = Silence][n].up = Silence
           /\ [c EXCEPT ![n].up = Silence][n].down = c[n].down
           /\ [c EXCEPT ![n].up = Silence][n].said = c[n].said
<1>1. c[n] \in Links
  OBVIOUS
<1>2. [c EXCEPT ![n].up = Silence] = [c EXCEPT ![n] = [c[n] EXCEPT !.up = Silence]]
  OBVIOUS
<1>3. [c[n] EXCEPT !.up = Silence] \in Links
  BY <1>1, AuthMessageFacts DEF Links
<1>4. QED  BY <1>1, <1>2, <1>3 DEF Links

LEMMA HeardDownFacts ==
    ASSUME NEW c \in [Connections -> Links], NEW n \in Connections
    PROVE  /\ [c EXCEPT ![n].down = Silence] \in [Connections -> Links]
           /\ \A k \in Connections \ {n} : [c EXCEPT ![n].down = Silence][k] = c[k]
           /\ [c EXCEPT ![n].down = Silence][n].open = c[n].open
           /\ [c EXCEPT ![n].down = Silence][n].mode = c[n].mode
           /\ [c EXCEPT ![n].down = Silence][n].down = Silence
           /\ [c EXCEPT ![n].down = Silence][n].up = c[n].up
           /\ [c EXCEPT ![n].down = Silence][n].said = c[n].said
<1>1. c[n] \in Links
  OBVIOUS
<1>2. [c EXCEPT ![n].down = Silence] = [c EXCEPT ![n] = [c[n] EXCEPT !.down = Silence]]
  OBVIOUS
<1>3. [c[n] EXCEPT !.down = Silence] \in Links
  BY <1>1, AuthMessageFacts DEF Links
<1>4. QED  BY <1>1, <1>2, <1>3 DEF Links

LEMMA AnswersFacts ==
    ASSUME NEW c \in [Connections -> Links], NEW n \in Connections, NEW p \in Parties, NEW says \in Consents
    PROVE  /\ Answers(c, n, p, says) \in [Connections -> Links]
           /\ \A k \in Connections \ {n} : Answers(c, n, p, says)[k] = c[k]
           /\ Answers(c, n, p, says)[n].open = c[n].open /\ Answers(c, n, p, says)[n].mode = c[n].mode
           /\ Answers(c, n, p, says)[n].up = c[n].up /\ Answers(c, n, p, says)[n].down = c[n].down
           /\ Answers(c, n, p, says)[n].said[p] = says
           /\ \A q \in Parties \ {p} : Answers(c, n, p, says)[n].said[q] = c[n].said[q]
<1>1. c[n] \in Links /\ c[n].said \in [Parties -> Consents \cup {"nothing"}]
  BY DEF Links
<1>2. PICK said \in [Parties -> Consents \cup {"nothing"}] : said = [c[n].said EXCEPT ![p] = says]
  BY <1>1
<1>3. Answers(c, n, p, says) = [c EXCEPT ![n] = [c[n] EXCEPT !.said = said]]
  BY <1>2 DEF Answers
<1>4. [c[n] EXCEPT !.said = said] \in Links
  BY <1>1 DEF Links
<1>5. said[p] = says /\ \A q \in Parties \ {p} : said[q] = c[n].said[q]
  BY <1>1, <1>2
<1>6. QED  BY <1>1, <1>3, <1>4, <1>5 DEF Links

LEMMA WritesUpFacts ==
    ASSUME NEW c \in [Connections -> Links], NEW n \in Connections, NEW m \in AuthMessages
    PROVE  /\ Writes(c, n, "up", m) \in [Connections -> Links]
           /\ \A k \in Connections \ {n} : Writes(c, n, "up", m)[k] = c[k]
           /\ Writes(c, n, "up", m)[n].open = c[n].open /\ Writes(c, n, "up", m)[n].mode = c[n].mode
           /\ Writes(c, n, "up", m)[n].up = IF c[n].open THEN m ELSE c[n].up
           /\ Writes(c, n, "up", m)[n].down = c[n].down
           /\ Writes(c, n, "up", m)[n].said = c[n].said
<1>1. c[n] \in Links /\ c[n].up \in AuthMessages
  BY DEF Links
<1>2. PICK up \in AuthMessages : up = IF c[n].open THEN m ELSE c[n].up
  BY <1>1
<1>3. Writes(c, n, "up", m) = [c EXCEPT ![n] = [c[n] EXCEPT !.up = up]]
  BY <1>1, <1>2 DEF Writes, Links
<1>4. PICK l \in Links : /\ l = [c[n] EXCEPT !.up = up] /\ l.open = c[n].open /\ l.mode = c[n].mode
                         /\ l.up = up /\ l.down = c[n].down /\ l.said = c[n].said
  <2>1. \A x \in Links : /\ [x EXCEPT !.up = up] \in Links /\ [x EXCEPT !.up = up].open = x.open
                         /\ [x EXCEPT !.up = up].mode = x.mode /\ [x EXCEPT !.up = up].up = up
                         /\ [x EXCEPT !.up = up].down = x.down /\ [x EXCEPT !.up = up].said = x.said
    BY DEF Links
  <2>2. QED  BY <1>1, <2>1
<1>5. Writes(c, n, "up", m) = [c EXCEPT ![n] = l]
  BY <1>3, <1>4
<1>6. QED  BY <1>2, <1>4, <1>5

LEMMA WritesDownFacts ==
    ASSUME NEW c \in [Connections -> Links], NEW n \in Connections, NEW m \in AuthMessages
    PROVE  /\ Writes(c, n, "down", m) \in [Connections -> Links]
           /\ \A k \in Connections \ {n} : Writes(c, n, "down", m)[k] = c[k]
           /\ Writes(c, n, "down", m)[n].open = c[n].open /\ Writes(c, n, "down", m)[n].mode = c[n].mode
           /\ Writes(c, n, "down", m)[n].down = IF c[n].open THEN m ELSE c[n].down
           /\ Writes(c, n, "down", m)[n].up = c[n].up
           /\ Writes(c, n, "down", m)[n].said = c[n].said
<1>1. c[n] \in Links /\ c[n].down \in AuthMessages
  BY DEF Links
<1>2. PICK down \in AuthMessages : down = IF c[n].open THEN m ELSE c[n].down
  BY <1>1
<1>3. Writes(c, n, "down", m) = [c EXCEPT ![n] = [c[n] EXCEPT !.down = down]]
  BY <1>1, <1>2 DEF Writes, Links
<1>4. PICK l \in Links : /\ l = [c[n] EXCEPT !.down = down] /\ l.open = c[n].open /\ l.mode = c[n].mode
                         /\ l.down = down /\ l.up = c[n].up /\ l.said = c[n].said
  <2>1. \A x \in Links : /\ [x EXCEPT !.down = down] \in Links /\ [x EXCEPT !.down = down].open = x.open
                         /\ [x EXCEPT !.down = down].mode = x.mode /\ [x EXCEPT !.down = down].down = down
                         /\ [x EXCEPT !.down = down].up = x.up /\ [x EXCEPT !.down = down].said = x.said
    BY DEF Links
  <2>2. QED  BY <1>1, <2>1
<1>5. Writes(c, n, "down", m) = [c EXCEPT ![n] = l]
  BY <1>3, <1>4
<1>6. QED  BY <1>2, <1>4, <1>5


(* What a step of the joiner does to its connection: it answers at most    *)
(* once, says what it answered, and never changes what the host said.      *)
JoinerTouches(n) ==
    /\ rfcomm' \in [Connections -> Links]
    /\ \A k \in Connections \ {n} : rfcomm'[k] = rfcomm[k]
    /\ rfcomm'[n].mode # "none"
    /\ rfcomm[n].mode # "none" => rfcomm'[n].mode = rfcomm[n].mode /\ (rfcomm'[n].open => rfcomm[n].open)
    /\ rfcomm'[n].said[Host] = rfcomm[n].said[Host]
    /\ rfcomm[n].said[Joiner] \in {"nothing", rfcomm'[n].said[Joiner]}
    /\ \/ rfcomm'[n].down = rfcomm[n].down /\ (rfcomm'[n].open => rfcomm[n].open)
       \/ rfcomm'[n].down = Silence
    /\ rfcomm'[n].up.kind = "hello" =>
          rfcomm'[n].said[Host] = "nothing" /\ (rfcomm[n].mode # "none" => rfcomm[n].up.kind = "hello")
    /\ rfcomm'[n].up.kind = "confirmation" =>
          rfcomm'[n].said[Joiner] # "nothing" /\ rfcomm'[n].up.body.says = rfcomm'[n].said[Joiner]

(* What a step of the host does to one.                                    *)
HostTouches(n) ==
    /\ rfcomm' \in [Connections -> Links]
    /\ \A k \in Connections \ {n} : rfcomm'[k] = rfcomm[k]
    /\ rfcomm'[n].mode = rfcomm[n].mode
    /\ rfcomm'[n].open => rfcomm[n].open
    /\ rfcomm'[n].said[Joiner] = rfcomm[n].said[Joiner]
    /\ rfcomm[n].said[Host] \in {"nothing", rfcomm'[n].said[Host]}

LEMMA ConsentStays ==
    ASSUME BothConsented, UNCHANGED <<known, policy>>,
           \A n \in Connections, p \in Parties : rfcomm[n].said[p] \in {"nothing", rfcomm'[n].said[p]}
    PROVE  BothConsented'
<1>1. Joiner \in Parties /\ Host \in Parties
  BY DEF Parties
<1>2. \A n \in Connections, p \in Parties, q \in Parties : Agreed(n, p, q) => Agreed(n, p, q)'
  BY DEF Agreed
<1>3. QED  BY <1>1, <1>2 DEF BothConsented

LEMMA BothParties == Parties = {Joiner, Host} /\ Joiner # Host
BY DEF Parties, Joiner, Host

LEMMA CompletedIds ==
    ASSUME table \in Tables
    PROVE  \A i \in DOMAIN table.complete : /\ table.complete[i] \in Completions
                                           /\ table.complete[i].id \in Connections
<1>1. table.complete \in Seq(Completions)
  BY DEF Tables
<1>2. \A i \in DOMAIN table.complete : table.complete[i] \in Completions
  BY <1>1
<1>3. QED  BY <1>2 DEF Completions

LEMMA JoinerSide ==
    ASSUME AuthInv, NEW n \in Connections, JoinerTouches(n), UNCHANGED <<policy, lan, acceptor, table>>,
           known' \in [Parties -> Identities], known'[Host] = known[Host], BothConsented',
           joiner' \in Joiners, joiner'.candidate = joiner.candidate, JoinerGood', SameSession'
    PROVE  AuthInv'
<1>1. /\ AuthTypes /\ AcceptorGood /\ TableGood /\ LinksGood /\ BothConsented
      /\ acceptor.id \in Numbers /\ rfcomm \in [Connections -> Links] /\ rfcomm' \in [Connections -> Links]
  BY DEF AuthInv, AuthTypes, Acceptors, JoinerTouches
<1>2. AuthTypes'
  BY <1>1 DEF AuthTypes
<1>3. \A k \in Connections : /\ rfcomm'[k].said[Host] = rfcomm[k].said[Host]
                             /\ rfcomm[k].said[Joiner] \in {"nothing", rfcomm'[k].said[Joiner]}
                             /\ rfcomm[k].mode # "none" => /\ rfcomm'[k].mode = rfcomm[k].mode
                                                           /\ rfcomm'[k].up.kind = "hello" => rfcomm[k].up.kind = "hello"
  BY DEF JoinerTouches
<1>4. AcceptorGood'
  BY <1>1, <1>3 DEF AcceptorGood, Theirs, Numbers
<1>5. TableGood'
  <2>1. \A k \in Connections : InTable(k)' <=> InTable(k)
    BY DEF InTable
  <2>2. \A k \in Connections : InTable(k)' => rfcomm'[k].mode # "none"
    BY <1>1, <1>3, <2>1 DEF TableGood
  <2>3. ASSUME NEW i \in DOMAIN table.complete
        PROVE  table.complete[i].trusted <=> rfcomm'[table.complete[i].id].mode = "trusted"
    <3>1. table.complete[i].id \in Connections
      BY <1>1, CompletedIds DEF AuthTypes
    <3>2. rfcomm[table.complete[i].id].mode # "none"
      BY <1>1, <3>1 DEF TableGood, InTable
    <3>3. QED  BY <1>1, <1>3, <3>1, <3>2 DEF TableGood
  <2>4. TemporaryStaysSecond'
    <3>1. table.primary \in Numbers
      BY <1>1 DEF AuthTypes, Tables
    <3>2. table.primary # 0 => InTable(table.primary) /\ table.primary \in Connections
      BY <3>1 DEF InTable, Numbers
    <3>3. QED  BY <1>1, <1>3, <3>2 DEF TableGood, TemporaryStaysSecond
  <2>5. QED  BY <1>1, <2>2, <2>3, <2>4 DEF TableGood
<1>6. LinksGood'
  <2>1. ASSUME NEW k \in Connections \ {n} PROVE LinkGood(k)'
    <3>1. LinkGood(k) /\ rfcomm'[k] = rfcomm[k] /\ (InTable(k)' <=> InTable(k))
      BY <1>1 DEF LinksGood, JoinerTouches, InTable
    <3>2. QED  BY <3>1 DEF LinkGood
  <2>2. LinkGood(n)'
    <3>1. LinkGood(n) /\ (InTable(n)' <=> InTable(n)) /\ Silence.kind = "none"
      BY <1>1, AuthMessageFacts DEF LinksGood, InTable
    <3>2. QED  BY <3>1 DEF LinkGood, JoinerTouches
  <2>3. QED  BY <2>1, <2>2 DEF LinksGood
<1>7. QED  BY <1>2, <1>4, <1>5, <1>6 DEF AuthInv

LEMMA JoinerConsents ==
    ASSUME AuthInv, NEW n \in Connections, JoinerTouches(n), UNCHANGED <<policy, known>>
    PROVE  known' \in [Parties -> Identities] /\ known'[Host] = known[Host] /\ BothConsented'
<1>1. BothConsented /\ known \in [Parties -> Identities]
  BY DEF AuthInv, AuthTypes
<1>2. \A k \in Connections : /\ rfcomm'[k].said[Host] = rfcomm[k].said[Host]
                             /\ rfcomm[k].said[Joiner] \in {"nothing", rfcomm'[k].said[Joiner]}
  BY DEF JoinerTouches
<1>3. QED  BY <1>1, <1>2, ConsentStays, BothParties

(* The joiner goes on, before it has a session.                            *)
LEMMA JoinerMoves ==
    ASSUME AuthInv, NEW n \in Connections, JoinerTouches(n), UNCHANGED <<policy, lan, acceptor, table>>,
           known' \in [Parties -> Identities], known'[Host] = known[Host], BothConsented',
           joiner' \in Joiners, joiner'.candidate = joiner.candidate, joiner'.bound = joiner.bound,
           joiner'.at # "session", JoinerGood'
    PROVE  AuthInv'
<1>1. SameSession /\ JoinerGood /\ joiner.bound \in Numbers
  BY DEF AuthInv, AuthTypes, Joiners
<1>2. joiner.bound # 0 => joiner.bound \in Connections /\ rfcomm[joiner.bound].mode # "none"
  BY <1>1 DEF JoinerGood, Numbers
<1>3. \A k \in Connections : rfcomm[k].mode # "none" => (rfcomm'[k].open => rfcomm[k].open)
  BY DEF JoinerTouches
<1>4. SameSession'
  BY <1>1, <1>2, <1>3 DEF SameSession, Mine
<1>5. QED  BY <1>4, JoinerSide

LEMMA HostSide0 ==
    ASSUME AuthInv, NEW n \in Connections, HostTouches(n), LinkGood(n)', UNCHANGED <<policy, lan, joiner>>,
           known' \in [Parties -> Identities], acceptor' \in Acceptors, AcceptorGood', table' \in Tables,
           TableGood', BothConsented', SameSession',
           \A k \in Connections \ {n} : rfcomm[k].open =>
              (InTable(k) => InTable(k)') /\ (table.attached = k => table'.attached = k)
    PROVE  AuthInv'
<1>1. AuthTypes /\ JoinerGood /\ LinksGood /\ joiner.id \in Numbers /\ joiner.bound \in Numbers
  BY DEF AuthInv, AuthTypes, Joiners
<1>2. AuthTypes'
  BY <1>1 DEF AuthTypes, HostTouches
<1>3. JoinerGood'
  <2>1. \A k \in Connections : /\ rfcomm'[k].said[Joiner] = rfcomm[k].said[Joiner]
                               /\ rfcomm[k].said[Host] \in {"nothing", rfcomm'[k].said[Host]}
                               /\ rfcomm'[k].mode = rfcomm[k].mode
    BY DEF HostTouches
  <2>2. QED  BY <1>1, <2>1, BothParties DEF JoinerGood, Mine, Numbers
<1>4. LinksGood'
  <2>1. ASSUME NEW k \in Connections \ {n} PROVE LinkGood(k)'
    <3>1. /\ LinkGood(k) /\ rfcomm'[k] = rfcomm[k]
          /\ rfcomm[k].open => (InTable(k) => InTable(k)') /\ (table.attached = k => table'.attached = k)
      BY <1>1 DEF LinksGood, HostTouches
    <3>2. QED  BY <3>1 DEF LinkGood
  <2>2. QED  BY <2>1 DEF LinksGood
<1>5. QED  BY <1>2, <1>3, <1>4 DEF AuthInv

LEMMA TableStays ==
    ASSUME AuthInv, NEW n \in Connections, HostTouches(n), UNCHANGED <<known, lan, joiner, table>>
    PROVE  TableGood' /\ SameSession'
<1>1. /\ AuthTypes /\ TableGood /\ SameSession /\ table \in Tables /\ joiner.id \in Numbers
      /\ joiner.bound \in Numbers /\ table.primary \in Numbers /\ JoinerGood
  BY DEF AuthInv, AuthTypes, Joiners, Tables
<1>2. \A k \in Connections : rfcomm'[k].mode = rfcomm[k].mode /\ (rfcomm'[k].open => rfcomm[k].open)
  BY DEF HostTouches
<1>3. TableGood'
  <2>1. \A k \in Connections : InTable(k)' <=> InTable(k)
    BY DEF InTable
  <2>2. \A i \in DOMAIN table.complete : table.complete[i].id \in Connections
    BY <1>1, CompletedIds
  <2>3. TemporaryStaysSecond'
    BY <1>1, <1>2 DEF TableGood, TemporaryStaysSecond, Numbers
  <2>4. QED  BY <1>1, <1>2, <2>1, <2>2, <2>3 DEF TableGood
<1>4. SameSession'
  <2>1. joiner.at = "session" => joiner.id \in Connections
    BY <1>1 DEF JoinerGood, Numbers
  <2>2. joiner.bound # 0 => joiner.bound \in Connections
    BY <1>1 DEF Numbers
  <2>3. QED  BY <1>1, <1>2, <2>1, <2>2 DEF SameSession, Mine
<1>5. QED  BY <1>3, <1>4

LEMMA HostMoves ==
    ASSUME AuthInv, NEW n \in Connections, HostTouches(n), LinkGood(n)',
           UNCHANGED <<policy, known, lan, joiner, table>>, acceptor' \in Acceptors, AcceptorGood'
    PROVE  AuthInv'
<1>1. /\ BothConsented /\ known \in [Parties -> Identities] /\ table \in Tables
  BY DEF AuthInv, AuthTypes
<1>2. \A k \in Connections : /\ rfcomm'[k].said[Joiner] = rfcomm[k].said[Joiner]
                             /\ rfcomm[k].said[Host] \in {"nothing", rfcomm'[k].said[Host]}
  BY DEF HostTouches
<1>3. BothConsented'
  BY <1>1, <1>2, ConsentStays, BothParties
<1>4. TableGood' /\ SameSession'
  BY TableStays
<1>5. \A k \in Connections \ {n} : rfcomm[k].open =>
         (InTable(k) => InTable(k)') /\ (table.attached = k => table'.attached = k)
  BY DEF InTable
<1>6. QED  BY <1>1, <1>3, <1>4, <1>5, HostSide0

(* A step that touches no connection.                                      *)
LEMMA JoinerStill ==
    ASSUME AuthInv, UNCHANGED <<policy, known, lan, acceptor, table, rfcomm>>,
           joiner' \in Joiners, joiner'.candidate = joiner.candidate, JoinerGood', SameSession'
    PROVE  AuthInv'
BY DEF AuthInv, AuthTypes, AcceptorGood, Theirs, TableGood, LinksGood, LinkGood, InTable, TemporaryStaysSecond,
       BothConsented, Agreed


(* The joiner writes on its connection.                                    *)
LEMMA GoesOnFacts ==
    ASSUME NEW c \in [Connections -> Links], NEW m \in AuthMessages, NEW n \in Connections,
           joiner.id = n, rfcomm' = Reads(Writes(c, n, "up", m))
    PROVE  /\ rfcomm' \in [Connections -> Links]
           /\ \A k \in Connections \ {n} : rfcomm'[k] = c[k]
           /\ rfcomm'[n].open = c[n].open /\ rfcomm'[n].mode = c[n].mode
           /\ rfcomm'[n].said = c[n].said /\ rfcomm'[n].down = Silence
           /\ rfcomm'[n].up = IF c[n].open THEN m ELSE c[n].up
<1>1. PICK d \in [Connections -> Links] : d = Writes(c, n, "up", m)
  BY WritesUpFacts
<1>2. rfcomm' = [d EXCEPT ![n].down = Silence]
  BY <1>1 DEF Reads
<1>3. /\ \A k \in Connections \ {n} : d[k] = c[k]
      /\ d[n].open = c[n].open /\ d[n].mode = c[n].mode /\ d[n].said = c[n].said
      /\ d[n].up = IF c[n].open THEN m ELSE c[n].up
  BY <1>1, WritesUpFacts
<1>4. /\ [d EXCEPT ![n].down = Silence] \in [Connections -> Links]
      /\ \A k \in Connections \ {n} : [d EXCEPT ![n].down = Silence][k] = d[k]
      /\ [d EXCEPT ![n].down = Silence][n].open = d[n].open
      /\ [d EXCEPT ![n].down = Silence][n].mode = d[n].mode
      /\ [d EXCEPT ![n].down = Silence][n].said = d[n].said
      /\ [d EXCEPT ![n].down = Silence][n].down = Silence
      /\ [d EXCEPT ![n].down = Silence][n].up = d[n].up
  BY HeardDownFacts
<1>5. QED  BY <1>2, <1>3, <1>4

LEMMA JoinerHere ==
    ASSUME AuthInv, joiner.at \notin {"rest", "over"}
    PROVE  /\ joiner.id \in Connections /\ rfcomm[joiner.id] \in Links /\ LinkGood(joiner.id)
           /\ rfcomm[joiner.id].mode # "none"
<1>1. joiner.id \in Numbers /\ joiner.id # 0
  BY DEF AuthInv, AuthTypes, Joiners, JoinerGood
<1>2. QED  BY <1>1 DEF AuthInv, AuthTypes, JoinerGood, Mine, LinksGood, Numbers

LEMMA JoinerAsks ==
    ASSUME AuthInv, NEW stage \in {"tls", "decision"}, NEW m \in AuthMessages,
           m.kind \notin {"hello", "confirmation"}, joiner.at \in {"challenge", "tls"},
           GoesOn(stage, m, rfcomm), UNCHANGED <<policy, known, lan, acceptor, table>>
    PROVE  AuthInv'
<1>1. PICK n \in Connections : n = joiner.id /\ LinkGood(n) /\ rfcomm[n].mode # "none"
  BY JoinerHere
<1>2. joiner \in Joiners /\ JoinerGood /\ rfcomm \in [Connections -> Links]
  BY DEF AuthInv, AuthTypes
<1>3. joiner' = [joiner EXCEPT !.at = stage, !.sent = m] /\ rfcomm' = Reads(Writes(rfcomm, n, "up", m))
  BY <1>1 DEF GoesOn
<1>4. /\ rfcomm' \in [Connections -> Links]
      /\ \A k \in Connections \ {n} : rfcomm'[k] = rfcomm[k]
      /\ rfcomm'[n].open = rfcomm[n].open /\ rfcomm'[n].mode = rfcomm[n].mode
      /\ rfcomm'[n].said = rfcomm[n].said /\ rfcomm'[n].down = Silence
      /\ rfcomm'[n].up \in {m, rfcomm[n].up}
  BY <1>1, <1>2, <1>3, GoesOnFacts
<1>5. JoinerTouches(n)
  BY <1>1, <1>4 DEF JoinerTouches, LinkGood
<1>6. /\ joiner' \in Joiners /\ joiner'.candidate = joiner.candidate /\ joiner'.bound = joiner.bound
      /\ joiner'.id = joiner.id /\ joiner'.at = stage
  BY <1>2, <1>3 DEF Joiners
<1>7. JoinerGood'
  <2>1. joiner.bound # 0 => joiner.bound \in Connections
    BY <1>2 DEF Joiners, Numbers
  <2>2. QED  BY <1>1, <1>2, <1>4, <1>6, <2>1 DEF JoinerGood, Mine
<1>8. QED  BY <1>5, <1>6, <1>7, JoinerConsents, JoinerMoves

LEMMA JoinerConfirms ==
    ASSUME AuthInv, NEW d \in AuthMessages, NEW says \in Consents, d.kind = "decision",
           joiner.at \in {"decision", "prompt"}, Mine.said[Host] \in {"yes", "remember"},
           GoesOn("ready", Confirmation(d, says), Answers(rfcomm, joiner.id, Joiner, says)),
           UNCHANGED <<policy, known, lan, acceptor, table>>
    PROVE  AuthInv'
<1>1. PICK n \in Connections : n = joiner.id /\ LinkGood(n) /\ rfcomm[n].mode # "none"
  BY JoinerHere
<1>2. joiner \in Joiners /\ JoinerGood /\ rfcomm \in [Connections -> Links]
  BY DEF AuthInv, AuthTypes
<1>3. PICK m \in AuthMessages : m = Confirmation(d, says) /\ m.kind = "confirmation" /\ m.body.says = says
  BY AuthMessageFacts
<1>4. PICK c \in [Connections -> Links] : c = Answers(rfcomm, n, Joiner, says)
  BY <1>2, AnswersFacts, BothParties
<1>5. /\ \A k \in Connections \ {n} : c[k] = rfcomm[k]
      /\ c[n].open = rfcomm[n].open /\ c[n].mode = rfcomm[n].mode /\ c[n].up = rfcomm[n].up
      /\ c[n].said[Joiner] = says /\ c[n].said[Host] = rfcomm[n].said[Host]
  BY <1>2, <1>4, AnswersFacts, BothParties
<1>6. joiner' = [joiner EXCEPT !.at = "ready", !.sent = m] /\ rfcomm' = Reads(Writes(c, n, "up", m))
  BY <1>1, <1>3, <1>4 DEF GoesOn
<1>7. /\ rfcomm' \in [Connections -> Links]
      /\ \A k \in Connections \ {n} : rfcomm'[k] = rfcomm[k]
      /\ rfcomm'[n].open = rfcomm[n].open /\ rfcomm'[n].mode = rfcomm[n].mode
      /\ rfcomm'[n].said[Joiner] = says /\ rfcomm'[n].said[Host] = rfcomm[n].said[Host]
      /\ rfcomm'[n].down = Silence /\ rfcomm'[n].up \in {m, rfcomm[n].up}
  BY <1>1, <1>5, <1>6, GoesOnFacts
<1>8. rfcomm[n].said[Joiner] = "nothing" /\ says # "nothing"
  BY <1>1, <1>2 DEF JoinerGood, Mine, Consents
<1>9. JoinerTouches(n)
  BY <1>1, <1>3, <1>7, <1>8 DEF JoinerTouches, LinkGood
<1>10. /\ joiner' \in Joiners /\ joiner'.candidate = joiner.candidate /\ joiner'.bound = joiner.bound
       /\ joiner'.id = joiner.id /\ joiner'.at = "ready"
  BY <1>2, <1>6 DEF Joiners
<1>11. JoinerGood'
  <2>1. joiner.bound # 0 => joiner.bound \in Connections
    BY <1>2 DEF Joiners, Numbers
  <2>2. QED  BY <1>1, <1>2, <1>7, <1>10, <2>1 DEF JoinerGood, Mine
<1>12. QED  BY <1>9, <1>10, <1>11, JoinerConsents, JoinerMoves

(* It gives its connection up.                                             *)
LEMMA GoneFacts ==
    ASSUME joiner \in Joiners
    PROVE  /\ Gone(joiner) \in Joiners /\ Gone(joiner).at \in {"rest", "over"} /\ Gone(joiner).id = 0
           /\ Gone(joiner).candidate = joiner.candidate /\ Gone(joiner).bound = joiner.bound
           /\ joiner.candidate => Gone(joiner).at = "rest"
<1>1. PICK at \in {"rest", "over"} : at = IF joiner.candidate THEN "rest" ELSE "over"
  OBVIOUS
<1>2. Gone(joiner) = [joiner EXCEPT !.at = at, !.id = 0, !.roots = {}, !.sent = Silence]
  BY <1>1 DEF Gone
<1>3. PICK id \in Numbers, roots \in SUBSET Identities, sent \in AuthMessages :
         id = 0 /\ roots = {} /\ sent = Silence
  BY AuthMessageFacts DEF Numbers
<1>4. Gone(joiner) = [joiner EXCEPT !.at = at, !.id = id, !.roots = roots, !.sent = sent]
  BY <1>2, <1>3
<1>5. QED  BY <1>1, <1>3, <1>4 DEF Joiners

LEMMA JoinerLeaves ==
    ASSUME AuthInv, NEW n \in Connections, JoinerTouches(n), UNCHANGED <<policy, lan, acceptor, table>>,
           known' \in [Parties -> Identities], known'[Host] = known[Host], BothConsented',
           joiner' \in {Gone(joiner), [Gone(joiner) EXCEPT !.at = "rest"]}
    PROVE  AuthInv'
<1>1. joiner \in Joiners /\ JoinerGood /\ rfcomm \in [Connections -> Links]
  BY DEF AuthInv, AuthTypes
<1>2. PICK j \in Joiners : /\ j = Gone(joiner) /\ j.id = 0 /\ j.candidate = joiner.candidate
                           /\ j.bound = joiner.bound /\ j.at \in {"rest", "over"}
  BY <1>1, GoneFacts
<1>3. /\ joiner' \in Joiners /\ joiner'.id = 0 /\ joiner'.candidate = joiner.candidate
      /\ joiner'.bound = joiner.bound /\ joiner'.at \in {"rest", "over"}
  BY <1>2 DEF Joiners
<1>4. JoinerGood'
  <2>1. joiner.bound # 0 => joiner.bound \in Connections /\ rfcomm'[joiner.bound].mode # "none"
    BY <1>1 DEF Joiners, Numbers, JoinerGood, JoinerTouches
  <2>2. QED  BY <1>1, <1>3, <2>1 DEF JoinerGood
<1>5. QED  BY <1>3, <1>4, JoinerMoves

LEMMA JoinerAbandons ==
    ASSUME AuthInv, joiner.at \notin {"rest", "over"}, Abandons, UNCHANGED <<policy, known, lan, acceptor, table>>
    PROVE  AuthInv'
<1>1. PICK n \in Connections : n = joiner.id /\ LinkGood(n) /\ rfcomm[n].mode # "none"
  BY JoinerHere
<1>2. rfcomm \in [Connections -> Links] /\ rfcomm' = Closed0(rfcomm, n) /\ joiner' = Gone(joiner)
  BY <1>1 DEF AuthInv, AuthTypes, Abandons
<1>3. JoinerTouches(n)
  BY <1>1, <1>2, ClosedFacts DEF JoinerTouches, LinkGood
<1>4. QED  BY <1>2, <1>3, JoinerConsents, JoinerLeaves

LEMMA JoinerOpens ==
    ASSUME AuthInv, NEW roots \in SUBSET Identities, Opens(roots), joiner.at = "rest", joiner.bound = 0,
           joiner.candidate => lan[Joiner] /\ roots = {Host},
           UNCHANGED <<policy, known, lan, acceptor, table>>
    PROVE  AuthInv'
<1>1. PICK n \in Connections : Opens(roots)!(n)
  BY DEF Opens
<1>2. PICK mode \in {"authorize", "trusted"} : mode = IF roots = {Temporary} THEN "authorize" ELSE "trusted"
  OBVIOUS
<1>3. /\ rfcomm[n] = Unused
      /\ rfcomm' = [rfcomm EXCEPT ![n] = [Unused EXCEPT !.open = TRUE, !.mode = mode, !.up = Greeting("hello", mode)]]
      /\ joiner' = [joiner EXCEPT !.id = n, !.roots = roots, !.at = IF mode = "trusted" THEN "tls" ELSE "challenge"]
  BY <1>1, <1>2
<1>4. joiner \in Joiners /\ JoinerGood /\ rfcomm \in [Connections -> Links] /\ n # 0
  BY BluetoothAuthAssumption DEF AuthInv, AuthTypes
<1>5. PICK at \in {"tls", "challenge"} : at = IF mode = "trusted" THEN "tls" ELSE "challenge"
  OBVIOUS
<1>6. joiner' = [joiner EXCEPT !.id = n, !.roots = roots, !.at = at]
  BY <1>3, <1>5
<1>7. /\ joiner' \in Joiners /\ joiner'.candidate = joiner.candidate /\ joiner'.bound = 0
      /\ joiner'.id = n /\ joiner'.at = at
  BY <1>4, <1>6 DEF Joiners, Numbers
<1>8. PICK hello \in AuthMessages : hello = Greeting("hello", mode) /\ hello.kind = "hello"
  BY AuthMessageFacts DEF Ways
<1>9. Unused \in Links /\ Unused.mode = "none" /\ Unused.down = Silence
      /\ \A p \in Parties : Unused.said[p] = "nothing"
  BY AuthMessageFacts DEF Unused, Links, Ways
<1>10. PICK l \in Links : l = Unused
  BY <1>9
<1>11. /\ [l EXCEPT !.open = TRUE, !.mode = mode, !.up = hello] \in Links
       /\ [l EXCEPT !.open = TRUE, !.mode = mode, !.up = hello].mode = mode
       /\ [l EXCEPT !.open = TRUE, !.mode = mode, !.up = hello].up = hello
       /\ [l EXCEPT !.open = TRUE, !.mode = mode, !.up = hello].down = l.down
       /\ [l EXCEPT !.open = TRUE, !.mode = mode, !.up = hello].said = l.said
  BY DEF Links, Ways
<1>12. rfcomm' = [rfcomm EXCEPT ![n] = [l EXCEPT !.open = TRUE, !.mode = mode, !.up = hello]]
  BY <1>3, <1>8, <1>10
<1>13. /\ rfcomm' \in [Connections -> Links]
       /\ \A k \in Connections \ {n} : rfcomm'[k] = rfcomm[k]
       /\ rfcomm'[n].mode = mode /\ rfcomm'[n].up = hello /\ rfcomm'[n].down = Silence
       /\ rfcomm'[n].said = rfcomm[n].said
       /\ rfcomm[n].mode = "none" /\ \A p \in Parties : rfcomm[n].said[p] = "nothing"
  <2>1. PICK x \in Links : /\ x = [l EXCEPT !.open = TRUE, !.mode = mode, !.up = hello]
                           /\ x.mode = mode /\ x.up = hello /\ x.down = l.down /\ x.said = l.said
    BY <1>11
  <2>2. rfcomm' = [rfcomm EXCEPT ![n] = x]
    BY <1>12, <2>1
  <2>3. rfcomm' \in [Connections -> Links] /\ rfcomm'[n] = x /\ \A k \in Connections \ {n} : rfcomm'[k] = rfcomm[k]
    BY <1>4, <2>2
  <2>4. QED  BY <1>3, <1>9, <1>10, <2>1, <2>3
<1>14. JoinerTouches(n)
  BY <1>8, <1>13, BothParties DEF JoinerTouches
<1>15. roots = {Host} => mode = "trusted"
  BY <1>2 DEF Host, Temporary
<1>16. JoinerGood'
  BY <1>4, <1>7, <1>13, <1>15, BothParties DEF JoinerGood, Mine
<1>17. joiner'.at # "session" /\ joiner.bound = 0
  BY <1>7
<1>18. QED  BY <1>7, <1>14, <1>16, <1>17, JoinerConsents, JoinerMoves


(* It reads, or opens a connection with what it knows.                     *)
LEMMA JoinerReads ==
    ASSUME AuthInv, joiner.at \notin {"rest", "over"}, rfcomm' = Reads(rfcomm)
    PROVE  /\ JoinerTouches(joiner.id)
           /\ \A k \in Connections : /\ rfcomm'[k].open = rfcomm[k].open /\ rfcomm'[k].mode = rfcomm[k].mode
                                     /\ rfcomm'[k].said = rfcomm[k].said
<1>1. PICK n \in Connections : n = joiner.id /\ LinkGood(n) /\ rfcomm[n].mode # "none"
  BY JoinerHere
<1>2. rfcomm \in [Connections -> Links] /\ rfcomm' = [rfcomm EXCEPT ![n].down = Silence]
  BY <1>1 DEF AuthInv, AuthTypes, Reads
<1>3. /\ rfcomm' \in [Connections -> Links]
      /\ \A k \in Connections \ {n} : rfcomm'[k] = rfcomm[k]
      /\ rfcomm'[n].open = rfcomm[n].open /\ rfcomm'[n].mode = rfcomm[n].mode
      /\ rfcomm'[n].said = rfcomm[n].said /\ rfcomm'[n].up = rfcomm[n].up /\ rfcomm'[n].down = Silence
  BY <1>2, HeardDownFacts
<1>4. JoinerTouches(n)
  BY <1>1, <1>3 DEF JoinerTouches, LinkGood
<1>5. QED  BY <1>1, <1>3, <1>4

LEMMA JoinerDials == ASSUME AuthInv, Dials \/ Seek PROVE AuthInv'
<1>1. joiner.bound # 0 => joiner.candidate
  BY DEF AuthInv, JoinerGood
<1>2. {Temporary} \in SUBSET Identities /\ {Host} \in SUBSET Identities
  BY DEF Identities
<1>3. Candidates \in SUBSET Identities
  <2>1. known[Joiner] \in Identities /\ "another" \in Identities
    BY BothParties DEF AuthInv, AuthTypes, Identities
  <2>2. QED  BY <2>1 DEF Candidates, RootsOf
<1>4. CASE Dials
  <2>1. PICK roots \in {{Temporary}, Candidates} : Opens(roots)
    BY <1>4 DEF Dials
  <2>2. roots \in SUBSET Identities
    BY <1>2, <1>3, <2>1
  <2>3. joiner.at = "rest" /\ joiner.bound = 0 /\ ~joiner.candidate
        /\ UNCHANGED <<policy, known, lan, acceptor, table>>
    BY <1>1, <1>4 DEF Dials
  <2>4. QED  BY <2>1, <2>2, <2>3, JoinerOpens
<1>5. CASE Seek
  BY <1>2, <1>5, JoinerOpens DEF Seek
<1>6. QED  BY <1>4, <1>5

LEMMA JoinerGreets == ASSUME AuthInv, JoinerShares \/ JoinerRequests PROVE AuthInv'
<1>1. CASE JoinerShares
  <2>1. Greeting("share", "authorize") \in AuthMessages /\ Greeting("share", "authorize").kind = "share"
    BY AuthMessageFacts DEF Ways
  <2>2. QED  BY <1>1, <2>1, JoinerAsks DEF JoinerShares
<1>2. CASE JoinerRequests
  <2>1. joiner.id \in Connections
    BY <1>2, JoinerHere DEF JoinerRequests
  <2>2. Request(joiner.id) \in AuthMessages /\ Request(joiner.id).kind = "request"
    BY <2>1, AuthMessageFacts
  <2>3. QED  BY <1>2, <2>2, JoinerAsks, JoinerAbandons DEF JoinerRequests
<1>3. QED  BY <1>1, <1>2

LEMMA JoinerDecides == ASSUME AuthInv, JoinerDecided PROVE AuthInv'
<1>1. PICK n \in Connections : n = joiner.id /\ LinkGood(n) /\ rfcomm[n] \in Links /\ rfcomm[n].mode # "none"
  BY JoinerHere DEF JoinerDecided
<1>2. /\ joiner.at = "decision" /\ UNCHANGED <<policy, known, lan, acceptor, table>>
      /\ rfcomm[n].down.kind = "decision"
  BY <1>1 DEF JoinerDecided, Waits, Mine
<1>3. PICK d \in AuthMessages : d = Mine.down /\ d.kind = "decision"
  BY <1>1, <1>2 DEF Links, Mine
<1>4. CASE Abandons
  BY <1>2, <1>4, JoinerAbandons
<1>5. CASE ~Abandons
  <2>1. rfcomm[n].said[Host] \in Consents \ {"no"}
    <3>1. d.body.says = rfcomm[n].said[Host] /\ rfcomm[n].said[Host] # "nothing" /\ d.body.says # "no"
      BY <1>1, <1>2, <1>3, <1>5 DEF LinkGood, JoinerDecided, Agreeable, Mine
    <3>2. QED  BY <1>1, <3>1, BothParties DEF Links
  <2>2. Mine.said[Host] \in {"yes", "remember"}
    BY <1>1, <2>1 DEF Mine, Consents
  <2>3. CASE Mine.mode = "trusted"
    <3>1. GoesOn("ready", Confirmation(d, "yes"), Answers(rfcomm, joiner.id, Joiner, "yes"))
      BY <1>3, <1>5, <2>3 DEF JoinerDecided
    <3>2. "yes" \in Consents /\ joiner.at \in {"decision", "prompt"}
      BY <1>2 DEF Consents
    <3>3. QED  BY <1>2, <1>3, <2>2, <3>1, <3>2, JoinerConfirms
  <2>4. CASE Mine.mode # "trusted"
    <3>1. joiner' = [joiner EXCEPT !.at = "prompt", !.sent = d] /\ rfcomm' = Reads(rfcomm)
      BY <1>3, <1>5, <2>4 DEF JoinerDecided
    <3>2. JoinerTouches(n) /\ rfcomm'[n].mode = rfcomm[n].mode /\ rfcomm'[n].said = rfcomm[n].said
      BY <1>1, <1>2, <3>1, JoinerReads
    <3>3. joiner \in Joiners /\ JoinerGood
      BY DEF AuthInv, AuthTypes
    <3>4. /\ joiner' \in Joiners /\ joiner'.candidate = joiner.candidate /\ joiner'.bound = joiner.bound
          /\ joiner'.id = joiner.id /\ joiner'.at = "prompt" /\ joiner'.sent = d
      BY <1>3, <3>1, <3>3 DEF Joiners
    <3>5. JoinerGood'
      <4>1. joiner.bound # 0 => rfcomm'[joiner.bound].mode # "none"
        BY <3>2, <3>3 DEF Joiners, Numbers, JoinerGood, JoinerTouches
      <4>2. QED  BY <1>1, <1>2, <1>3, <2>2, <2>4, <3>2, <3>3, <3>4, <4>1 DEF JoinerGood, Mine
    <3>6. QED  BY <1>2, <3>2, <3>4, <3>5, JoinerConsents, JoinerMoves
  <2>5. QED  BY <2>3, <2>4
<1>6. QED  BY <1>4, <1>5

LEMMA JoinerSays == ASSUME AuthInv, NEW says \in Consents, JoinerAnswers(says) PROVE AuthInv'
<1>1. PICK n \in Connections : n = joiner.id /\ LinkGood(n) /\ rfcomm[n] \in Links /\ rfcomm[n].mode # "none"
  BY JoinerHere DEF JoinerAnswers
<1>2. /\ joiner.at = "prompt" /\ UNCHANGED <<policy, known, lan, acceptor, table>>
      /\ joiner \in Joiners /\ JoinerGood /\ rfcomm \in [Connections -> Links]
  BY DEF JoinerAnswers, AuthInv, AuthTypes
<1>3. PICK d \in AuthMessages : d = joiner.sent /\ d.kind = "decision"
  BY <1>2 DEF JoinerGood, Joiners
<1>4. CASE says # "no"
  <2>1. /\ GoesOn("ready", Confirmation(d, says), Answers(rfcomm, joiner.id, Joiner, says))
        /\ Mine.said[Host] \in {"yes", "remember"}
    BY <1>2, <1>3, <1>4 DEF JoinerAnswers, JoinerGood
  <2>2. QED  BY <1>2, <1>3, <2>1, JoinerConfirms
<1>5. CASE says = "no"
  <2>1. PICK m \in AuthMessages : m = Confirmation(d, says) /\ m.kind = "confirmation" /\ m.body.says = says
    BY <1>3, AuthMessageFacts
  <2>2. PICK c \in [Connections -> Links] : c = Answers(rfcomm, n, Joiner, says)
    BY <1>2, AnswersFacts, BothParties
  <2>3. /\ \A k \in Connections \ {n} : c[k] = rfcomm[k]
        /\ c[n].mode = rfcomm[n].mode /\ c[n].up = rfcomm[n].up /\ c[n].down = rfcomm[n].down
        /\ c[n].said[Joiner] = says /\ c[n].said[Host] = rfcomm[n].said[Host]
    BY <1>2, <2>2, AnswersFacts, BothParties
  <2>4. PICK e \in [Connections -> Links] : e = Writes(c, n, "up", m)
    BY WritesUpFacts
  <2>5. /\ \A k \in Connections \ {n} : e[k] = c[k]
        /\ e[n].mode = c[n].mode /\ e[n].down = c[n].down /\ e[n].said = c[n].said
        /\ e[n].up \in {m, c[n].up}
    BY <2>4, WritesUpFacts
  <2>6. joiner' = Gone(joiner) /\ rfcomm' = Closed0(e, n)
    BY <1>1, <1>3, <1>5, <2>1, <2>2, <2>4 DEF JoinerAnswers
  <2>7. /\ rfcomm' \in [Connections -> Links]
        /\ \A k \in Connections \ {n} : rfcomm'[k] = e[k]
        /\ rfcomm'[n].open = FALSE /\ rfcomm'[n].mode = e[n].mode /\ rfcomm'[n].up = e[n].up
        /\ rfcomm'[n].down = e[n].down /\ rfcomm'[n].said = e[n].said
    BY <2>6, ClosedFacts
  <2>8. rfcomm[n].said[Joiner] = "nothing" /\ says # "nothing"
    BY <1>1, <1>2, <1>5 DEF JoinerGood, Mine
  <2>9. JoinerTouches(n)
    BY <1>1, <2>1, <2>3, <2>5, <2>7, <2>8 DEF JoinerTouches, LinkGood
  <2>10. QED  BY <1>2, <2>6, <2>9, JoinerConsents, JoinerLeaves
<1>6. QED  BY <1>4, <1>5


(* The last message of the host: what is saved has both answers.           *)
LEMMA JoinerIsReady == ASSUME AuthInv, NEW saved \in BOOLEAN, JoinerReady(saved) PROVE AuthInv'
<1>1. PICK n \in Connections : n = joiner.id /\ LinkGood(n) /\ rfcomm[n] \in Links /\ rfcomm[n].mode # "none"
  BY JoinerHere DEF JoinerReady
<1>2. /\ joiner.at = "ready" /\ rfcomm[n].down.kind = "ready" /\ UNCHANGED <<policy, lan, acceptor, table>>
      /\ joiner \in Joiners /\ JoinerGood /\ SameSession /\ BothConsented /\ TableGood
      /\ known \in [Parties -> Identities] /\ rfcomm \in [Connections -> Links]
  BY <1>1 DEF JoinerReady, AuthInv, AuthTypes, Waits, Mine
<1>3. CASE Abandons /\ UNCHANGED known
  BY <1>2, <1>3, JoinerAbandons
<1>4. ASSUME ~(Abandons /\ UNCHANGED known)
      PROVE  /\ known' = IF Mine.said[Joiner] = "remember" THEN [known EXCEPT ![Joiner] = Host] ELSE known
             /\ \/ /\ joiner' = [joiner EXCEPT !.at = IF joiner.candidate THEN "binding" ELSE "session",
                                               !.named = TRUE, !.sent = Silence]
                   /\ rfcomm' = Reads(rfcomm)
                \/ joiner' = [Gone(joiner) EXCEPT !.at = "rest"] /\ rfcomm' = Closed0(rfcomm, joiner.id)
  BY <1>4 DEF JoinerReady
<1>5. CASE ~(Abandons /\ UNCHANGED known)
  <2>1. JoinerTouches(n)
    <3>1. rfcomm' = Reads(rfcomm) => JoinerTouches(n)
      BY <1>1, <1>2, JoinerReads
    <3>2. ASSUME rfcomm' = Closed0(rfcomm, n) PROVE JoinerTouches(n)
      <4>1. /\ rfcomm' \in [Connections -> Links]
            /\ \A k \in Connections \ {n} : rfcomm'[k] = rfcomm[k]
            /\ rfcomm'[n].open = FALSE /\ rfcomm'[n].mode = rfcomm[n].mode /\ rfcomm'[n].up = rfcomm[n].up
            /\ rfcomm'[n].down = rfcomm[n].down /\ rfcomm'[n].said = rfcomm[n].said
        BY <1>2, <3>2, ClosedFacts
      <4>2. QED  BY <1>1, <4>1 DEF JoinerTouches, LinkGood
    <3>3. QED  BY <1>1, <1>4, <1>5, <3>1, <3>2
  <2>2. known' \in [Parties -> Identities] /\ known'[Host] = known[Host]
        /\ known'[Joiner] = IF rfcomm[n].said[Joiner] = "remember" THEN Host ELSE known[Joiner]
    <3>1. Host \in Identities
      BY DEF Identities
    <3>2. QED  BY <1>1, <1>2, <1>4, <1>5, <3>1, BothParties DEF Mine
  <2>3. BothConsented'
    <3>1. \A k \in Connections, p \in Parties : rfcomm[k].said[p] \in {"nothing", rfcomm'[k].said[p]}
      BY <2>1, BothParties DEF JoinerTouches
    <3>2. Joiner \in Parties /\ Host \in Parties
      BY BothParties
    <3>3. \A k \in Connections, p \in Parties, q \in Parties : Agreed(k, p, q) => Agreed(k, p, q)'
      BY <3>1 DEF Agreed
    <3>4. rfcomm[n].said[Joiner] = "remember" => Agreed(n, Joiner, Host)
      BY <1>1, <1>2 DEF Agreed, JoinerGood, Mine
    <3>5. QED  BY <1>1, <1>2, <2>2, <3>2, <3>3, <3>4 DEF BothConsented
  <2>4. CASE joiner' = [Gone(joiner) EXCEPT !.at = "rest"]
    BY <1>2, <2>1, <2>2, <2>3, <2>4, JoinerLeaves
  <2>5. CASE joiner' # [Gone(joiner) EXCEPT !.at = "rest"]
    <3>1. PICK at \in {"binding", "session"}, named \in BOOLEAN, sent \in AuthMessages :
             at = (IF joiner.candidate THEN "binding" ELSE "session") /\ named = TRUE /\ sent = Silence
      BY AuthMessageFacts
    <3>2. joiner' = [joiner EXCEPT !.at = at, !.named = named, !.sent = sent] /\ rfcomm' = Reads(rfcomm)
      BY <1>4, <1>5, <2>5, <3>1
    <3>3. /\ joiner' \in Joiners /\ joiner'.candidate = joiner.candidate /\ joiner'.bound = joiner.bound
          /\ joiner'.id = joiner.id /\ joiner'.at = at
      BY <1>2, <3>2 DEF Joiners
    <3>4. \A k \in Connections : rfcomm'[k].open = rfcomm[k].open /\ rfcomm'[k].mode = rfcomm[k].mode
      BY <1>2, <3>2, JoinerReads
    <3>5. joiner.bound # 0 => joiner.bound \in Connections
      BY <1>2 DEF Joiners, Numbers
    <3>6. JoinerGood'
      BY <1>1, <1>2, <3>1, <3>3, <3>4, <3>5 DEF JoinerGood, Mine
    <3>7. SameSession'
      <4>1. (joiner.bound # 0 /\ rfcomm'[joiner.bound].open) => lan[Joiner] /\ table.attached = joiner.bound
        BY <1>2, <3>4, <3>5 DEF SameSession
      <4>2. (at = "session" /\ rfcomm[n].open) =>
               table.primary = n \/ \E i \in DOMAIN table.complete : table.complete[i].id = n
        <5>1. at = "session" => ~joiner.candidate
          BY <3>1
        <5>2. rfcomm[n].open => InTable(n)
          BY <1>1, <1>2 DEF LinkGood
        <5>3. n # 0
          BY BluetoothAuthAssumption
        <5>4. table.attached = n => joiner.candidate
          BY <1>2, <5>3 DEF TableGood
        <5>5. QED  BY <5>1, <5>2, <5>4 DEF InTable
      <4>3. QED  BY <1>1, <1>2, <3>3, <3>4, <4>1, <4>2 DEF SameSession, Mine
    <3>8. QED  BY <1>2, <2>1, <2>2, <2>3, <3>3, <3>6, <3>7, JoinerSide
  <2>6. QED  BY <2>4, <2>5
<1>6. QED  BY <1>3, <1>5

LEMMA JoinerBinds == ASSUME AuthInv, Binds PROVE AuthInv'
<1>1. PICK n \in Connections : n = joiner.id /\ LinkGood(n) /\ rfcomm[n] \in Links /\ rfcomm[n].mode # "none"
  BY JoinerHere DEF Binds
<1>2. /\ joiner.at = "binding" /\ rfcomm[n].down.kind = "bound"
      /\ UNCHANGED <<policy, known, lan, acceptor, table>> /\ rfcomm' = Reads(rfcomm)
      /\ joiner' = [Gone(joiner) EXCEPT !.bound = n]
      /\ joiner \in Joiners /\ JoinerGood
  BY <1>1 DEF Binds, AuthInv, AuthTypes, Waits, Mine
<1>3. PICK j \in Joiners : /\ j = Gone(joiner) /\ j.id = 0 /\ j.candidate = joiner.candidate
                           /\ j.at \in {"rest", "over"}
  BY <1>2, GoneFacts
<1>4. /\ joiner' \in Joiners /\ joiner'.id = 0 /\ joiner'.candidate = joiner.candidate
      /\ joiner'.bound = n /\ joiner'.at \in {"rest", "over"}
  BY <1>2, <1>3 DEF Joiners, Numbers
<1>5. JoinerTouches(n) /\ rfcomm'[n].open = rfcomm[n].open /\ rfcomm'[n].mode = rfcomm[n].mode
  BY <1>1, <1>2, JoinerReads
<1>6. joiner.candidate /\ lan[Joiner] /\ n # 0
  BY <1>1, <1>2, BluetoothAuthAssumption DEF JoinerGood
<1>7. JoinerGood'
  BY <1>1, <1>2, <1>4, <1>5, <1>6 DEF JoinerGood
<1>8. SameSession'
  <2>1. rfcomm[n].open => table.attached = n
    BY <1>1, <1>2 DEF LinkGood
  <2>2. QED  BY <1>2, <1>4, <1>5, <1>6, <2>1 DEF SameSession
<1>9. QED  BY <1>2, <1>4, <1>5, <1>7, <1>8, JoinerConsents, JoinerSide

LEMMA JoinerResting == ASSUME AuthInv, JoinerReturns \/ Unbinds \/ Input PROVE AuthInv'
<1>1. /\ joiner \in Joiners /\ JoinerGood /\ SameSession
      /\ UNCHANGED <<policy, known, lan, acceptor, table, rfcomm>>
  BY DEF AuthInv, AuthTypes, JoinerReturns, Unbinds, Input
<1>2. CASE JoinerReturns
  <2>1. PICK j \in Joiners : /\ j = Gone(joiner) /\ j.id = 0 /\ j.candidate = joiner.candidate
                             /\ j.bound = joiner.bound
    BY <1>1, GoneFacts
  <2>2. joiner' = [j EXCEPT !.at = "rest"]
    BY <1>2, <2>1 DEF JoinerReturns
  <2>3. /\ joiner' \in Joiners /\ joiner'.id = 0 /\ joiner'.candidate = joiner.candidate
        /\ joiner'.bound = joiner.bound /\ joiner'.at = "rest"
    BY <2>1, <2>2 DEF Joiners
  <2>4. JoinerGood' /\ SameSession'
    BY <1>1, <2>3 DEF JoinerGood, SameSession
  <2>5. QED  BY <1>1, <2>3, <2>4, JoinerStill
<1>3. CASE Unbinds
  <2>1. joiner' = [joiner EXCEPT !.bound = 0]
    BY <1>3 DEF Unbinds
  <2>2. /\ joiner' \in Joiners /\ joiner'.id = joiner.id /\ joiner'.candidate = joiner.candidate
        /\ joiner'.bound = 0 /\ joiner'.at = joiner.at /\ joiner'.sent = joiner.sent
    BY <1>1, <2>1 DEF Joiners, Numbers
  <2>3. JoinerGood' /\ SameSession'
    BY <1>1, <2>2 DEF JoinerGood, SameSession, Mine
  <2>4. QED  BY <1>1, <2>2, <2>3, JoinerStill
<1>4. CASE Input
  <2>1. joiner.input \in BOOLEAN /\ joiner' = [joiner EXCEPT !.input = ~joiner.input]
    BY <1>1, <1>4 DEF Input, Joiners
  <2>2. PICK input \in BOOLEAN : input = ~joiner.input
    BY <2>1
  <2>3. joiner' = [joiner EXCEPT !.input = input]
    BY <2>1, <2>2
  <2>4. /\ joiner' \in Joiners /\ joiner'.id = joiner.id /\ joiner'.candidate = joiner.candidate
        /\ joiner'.bound = joiner.bound /\ joiner'.at = joiner.at /\ joiner'.sent = joiner.sent
    BY <1>1, <2>3 DEF Joiners
  <2>5. JoinerGood' /\ SameSession'
    BY <1>1, <2>4 DEF JoinerGood, SameSession, Mine
  <2>6. QED  BY <1>1, <2>4, <2>5, JoinerStill
<1>5. QED  BY <1>2, <1>3, <1>4

LEMMA JoinersStep ==
    ASSUME AuthInv, \/ JoinerSteps
                    \/ \E says \in Consents : JoinerAnswers(says)
                    \/ \E saved \in BOOLEAN : JoinerReady(saved)
    PROVE  AuthInv'
<1>1. CASE JoinerFails
  BY <1>1, JoinerAbandons DEF JoinerFails, InHandshake
<1>2. CASE JoinerSteps /\ ~JoinerFails
  BY <1>2, JoinerDials, JoinerGreets, JoinerDecides, JoinerBinds, JoinerResting DEF JoinerSteps
<1>3. QED  BY <1>1, <1>2, JoinerSays, JoinerIsReady


(* The host's task, on the connection it holds.                            *)
LEMMA HostHere ==
    ASSUME AuthInv, acceptor.at \notin {"vacant", "other"}
    PROVE  /\ acceptor.id \in Connections /\ rfcomm[acceptor.id] \in Links /\ LinkGood(acceptor.id)
           /\ rfcomm[acceptor.id].mode # "none"
<1>1. acceptor.id \in Numbers /\ acceptor.id # 0
  BY DEF AuthInv, AuthTypes, Acceptors, AcceptorGood
<1>2. QED  BY <1>1 DEF AuthInv, AuthTypes, AcceptorGood, Theirs, LinksGood, Numbers

LEMMA VacantFacts == Vacant \in Acceptors /\ Vacant.at = "vacant" /\ Vacant.id = 0
<1>1. PICK id \in Numbers, active \in BOOLEAN, roots \in SUBSET Identities, sent \in AuthMessages :
         id = 0 /\ active = FALSE /\ roots = {} /\ sent = Silence
  BY AuthMessageFacts DEF Numbers
<1>2. Vacant = [at |-> "vacant", id |-> id, active |-> active, roots |-> roots, sent |-> sent]
  BY <1>1 DEF Vacant
<1>3. QED  BY <1>1, <1>2 DEF Acceptors

LEMMA HostLeaves ==
    ASSUME AuthInv, NEW n \in Connections, HostTouches(n), LinkGood(n)',
           UNCHANGED <<policy, known, lan, joiner, table>>, acceptor' = Vacant
    PROVE  AuthInv'
<1>1. acceptor' \in Acceptors /\ AcceptorGood'
  BY VacantFacts DEF AcceptorGood
<1>2. QED  BY <1>1, HostMoves

LEMMA HostAbandons ==
    ASSUME AuthInv, acceptor.at \notin {"vacant", "other"}, Leaves0,
           UNCHANGED <<policy, known, lan, joiner, table>>
    PROVE  AuthInv'
<1>1. PICK n \in Connections : n = acceptor.id /\ LinkGood(n) /\ rfcomm[n].mode # "none"
  BY HostHere
<1>2. rfcomm \in [Connections -> Links] /\ acceptor' = Vacant
  BY DEF AuthInv, AuthTypes, Leaves0
<1>3. PICK c \in [Connections -> Links] : c = Closed0(rfcomm, n)
  BY <1>2, ClosedFacts
<1>4. /\ \A k \in Connections \ {n} : c[k] = rfcomm[k]
      /\ c[n].open = FALSE /\ c[n].mode = rfcomm[n].mode /\ c[n].down = rfcomm[n].down
      /\ c[n].said = rfcomm[n].said
  BY <1>2, <1>3, ClosedFacts
<1>5. rfcomm' = [c EXCEPT ![n].up = Silence]
  BY <1>1, <1>3 DEF Leaves0
<1>6. /\ rfcomm' \in [Connections -> Links]
      /\ \A k \in Connections \ {n} : rfcomm'[k] = c[k]
      /\ rfcomm'[n].open = c[n].open /\ rfcomm'[n].mode = c[n].mode /\ rfcomm'[n].up = Silence
      /\ rfcomm'[n].down = c[n].down /\ rfcomm'[n].said = c[n].said
  BY <1>5, HeardUpFacts
<1>7. HostTouches(n)
  BY <1>4, <1>6 DEF HostTouches
<1>8. LinkGood(n)'
  BY <1>1, <1>4, <1>6, AuthMessageFacts DEF LinkGood
<1>9. QED  BY <1>2, <1>7, <1>8, HostLeaves

(* It writes on its connection, and has read what was there.               *)
LEMMA RepliesFacts ==
    ASSUME NEW c \in [Connections -> Links], NEW m \in AuthMessages, NEW n \in Connections,
           rfcomm' = [Writes(c, n, "down", m) EXCEPT ![n].up = Silence]
    PROVE  /\ rfcomm' \in [Connections -> Links]
           /\ \A k \in Connections \ {n} : rfcomm'[k] = c[k]
           /\ rfcomm'[n].open = c[n].open /\ rfcomm'[n].mode = c[n].mode
           /\ rfcomm'[n].said = c[n].said /\ rfcomm'[n].up = Silence
           /\ rfcomm'[n].down = IF c[n].open THEN m ELSE c[n].down
<1>1. PICK d \in [Connections -> Links] : d = Writes(c, n, "down", m)
  BY WritesDownFacts
<1>2. rfcomm' = [d EXCEPT ![n].up = Silence]
  BY <1>1
<1>3. /\ \A k \in Connections \ {n} : d[k] = c[k]
      /\ d[n].open = c[n].open /\ d[n].mode = c[n].mode /\ d[n].said = c[n].said
      /\ d[n].down = IF c[n].open THEN m ELSE c[n].down
  BY <1>1, WritesDownFacts
<1>4. /\ [d EXCEPT ![n].up = Silence] \in [Connections -> Links]
      /\ \A k \in Connections \ {n} : [d EXCEPT ![n].up = Silence][k] = d[k]
      /\ [d EXCEPT ![n].up = Silence][n].open = d[n].open
      /\ [d EXCEPT ![n].up = Silence][n].mode = d[n].mode
      /\ [d EXCEPT ![n].up = Silence][n].said = d[n].said
      /\ [d EXCEPT ![n].up = Silence][n].up = Silence
      /\ [d EXCEPT ![n].up = Silence][n].down = d[n].down
  BY HeardUpFacts
<1>5. QED  BY <1>2, <1>3, <1>4

\* It decides nothing: a greeting, its share of the temporary root, its side of the TLS.
LEMMA HostGreets ==
    ASSUME AuthInv, NEW m \in AuthMessages, m.kind \in {"flight", "challenge"}, acceptor.at \in {"greeted", "share"},
           rfcomm' = [Writes(rfcomm, acceptor.id, "down", m) EXCEPT ![acceptor.id].up = Silence],
           acceptor' \in Acceptors, acceptor'.id = acceptor.id, acceptor'.at \in {"share", "tls"},
           Theirs.mode = "authorize" => Host \notin policy.only,
           UNCHANGED <<policy, known, lan, joiner, table>>
    PROVE  AuthInv'
<1>1. PICK n \in Connections : n = acceptor.id /\ LinkGood(n) /\ rfcomm[n].mode # "none"
  BY HostHere
<1>2. rfcomm \in [Connections -> Links] /\ AcceptorGood
  BY DEF AuthInv, AuthTypes
<1>3. /\ rfcomm' \in [Connections -> Links]
      /\ \A k \in Connections \ {n} : rfcomm'[k] = rfcomm[k]
      /\ rfcomm'[n].open = rfcomm[n].open /\ rfcomm'[n].mode = rfcomm[n].mode
      /\ rfcomm'[n].said = rfcomm[n].said /\ rfcomm'[n].up = Silence
      /\ rfcomm'[n].down = IF rfcomm[n].open THEN m ELSE rfcomm[n].down
  BY <1>1, <1>2, RepliesFacts
<1>4. HostTouches(n)
  BY <1>3 DEF HostTouches
<1>5. LinkGood(n)'
  BY <1>1, <1>3, AuthMessageFacts DEF LinkGood, InTable
<1>6. AcceptorGood'
  BY <1>1, <1>2, <1>3, AuthMessageFacts DEF AcceptorGood, Theirs
<1>7. QED  BY <1>4, <1>5, <1>6, HostMoves

\* It agrees, once.
LEMMA HostAgrees ==
    ASSUME AuthInv, NEW r \in AuthMessages, r.kind = "request", NEW says \in Consents,
           acceptor.at \in {"tls", "prompt"},
           Replies("confirm", Decision(r, says), Answers(rfcomm, acceptor.id, Host, says)),
           UNCHANGED <<policy, known, lan, joiner, table>>
    PROVE  AuthInv'
<1>1. PICK n \in Connections : n = acceptor.id /\ LinkGood(n) /\ rfcomm[n].mode # "none"
  BY HostHere
<1>2. rfcomm \in [Connections -> Links] /\ AcceptorGood /\ acceptor \in Acceptors
  BY DEF AuthInv, AuthTypes
<1>3. PICK m \in AuthMessages : m = Decision(r, says) /\ m.kind = "decision" /\ m.body.says = says
  BY AuthMessageFacts
<1>4. PICK c \in [Connections -> Links] : c = Answers(rfcomm, n, Host, says)
  BY <1>2, AnswersFacts, BothParties
<1>5. /\ \A k \in Connections \ {n} : c[k] = rfcomm[k]
      /\ c[n].open = rfcomm[n].open /\ c[n].mode = rfcomm[n].mode /\ c[n].down = rfcomm[n].down
      /\ c[n].said[Host] = says /\ c[n].said[Joiner] = rfcomm[n].said[Joiner]
  BY <1>2, <1>4, AnswersFacts, BothParties
<1>6. /\ acceptor' = [acceptor EXCEPT !.at = "confirm", !.sent = m]
      /\ rfcomm' = [Writes(c, n, "down", m) EXCEPT ![n].up = Silence]
  BY <1>1, <1>3, <1>4 DEF Replies
<1>7. /\ rfcomm' \in [Connections -> Links]
      /\ \A k \in Connections \ {n} : rfcomm'[k] = c[k]
      /\ rfcomm'[n].open = c[n].open /\ rfcomm'[n].mode = c[n].mode
      /\ rfcomm'[n].said = c[n].said /\ rfcomm'[n].up = Silence
      /\ rfcomm'[n].down = IF c[n].open THEN m ELSE c[n].down
  BY <1>6, RepliesFacts
<1>8. rfcomm[n].said[Host] = "nothing" /\ says # "nothing"
  BY <1>1, <1>2 DEF AcceptorGood, Theirs, Consents
<1>9. HostTouches(n)
  BY <1>5, <1>7, <1>8 DEF HostTouches
<1>10. LinkGood(n)'
  BY <1>1, <1>3, <1>5, <1>7, <1>8, AuthMessageFacts DEF LinkGood, InTable
<1>11. acceptor' \in Acceptors /\ acceptor'.id = n /\ acceptor'.at = "confirm"
  BY <1>1, <1>2, <1>6 DEF Acceptors
<1>12. AcceptorGood'
  BY <1>1, <1>2, <1>5, <1>7, <1>11, AuthMessageFacts DEF AcceptorGood, Theirs
<1>13. QED  BY <1>9, <1>10, <1>11, <1>12, HostMoves

LEMMA HostListens == ASSUME AuthInv, NEW n \in Connections, Accept(n) PROVE AuthInv'
<1>1. /\ rfcomm \in [Connections -> Links] /\ AcceptorGood /\ acceptor \in Acceptors /\ LinkGood(n)
      /\ rfcomm[n].up.kind = "hello" /\ UNCHANGED <<policy, known, lan, joiner, table>>
  BY DEF AuthInv, AuthTypes, LinksGood, Accept
<1>2. rfcomm[n] \in Links /\ rfcomm[n].mode # "none" /\ rfcomm[n].said[Host] = "nothing"
  BY <1>1 DEF LinkGood
<1>3. CASE acceptor.at = "vacant"
  <2>1. rfcomm' = rfcomm /\ acceptor' = [Vacant EXCEPT !.at = "greeted", !.id = n, !.active = Online]
    BY <1>3 DEF Accept
  <2>2. Online \in BOOLEAN
    <3>1. lan[Host] \in BOOLEAN
      BY BothParties DEF AuthInv, AuthTypes
    <3>2. QED  BY <3>1 DEF Online
  <2>3. PICK online \in BOOLEAN : online = Online
    BY <2>2
  <2>4. PICK v \in Acceptors : v = Vacant
    BY VacantFacts
  <2>5. acceptor' = [v EXCEPT !.at = "greeted", !.id = n, !.active = online]
    BY <2>1, <2>3, <2>4
  <2>6. acceptor' \in Acceptors /\ acceptor'.at = "greeted" /\ acceptor'.id = n /\ n # 0
    BY <2>5, BluetoothAuthAssumption DEF Acceptors, Numbers
  <2>7. AcceptorGood'
    BY <1>2, <2>1, <2>6 DEF AcceptorGood, Theirs
  <2>8. HostTouches(n) /\ LinkGood(n)'
    BY <1>1, <2>1 DEF HostTouches, LinkGood, InTable
  <2>9. QED  BY <1>1, <2>6, <2>7, <2>8, HostMoves
<1>4. CASE acceptor.at # "vacant"
  <2>1. acceptor' = acceptor /\ rfcomm' = [rfcomm EXCEPT ![n] = [rfcomm[n] EXCEPT !.open = FALSE, !.up = Silence]]
    BY <1>4 DEF Accept
  <2>2. PICK up \in AuthMessages : up = Silence
    BY AuthMessageFacts
  <2>3. /\ [rfcomm[n] EXCEPT !.open = FALSE, !.up = up] \in Links
        /\ [rfcomm[n] EXCEPT !.open = FALSE, !.up = up].open = FALSE
        /\ [rfcomm[n] EXCEPT !.open = FALSE, !.up = up].mode = rfcomm[n].mode
        /\ [rfcomm[n] EXCEPT !.open = FALSE, !.up = up].up = up
        /\ [rfcomm[n] EXCEPT !.open = FALSE, !.up = up].down = rfcomm[n].down
        /\ [rfcomm[n] EXCEPT !.open = FALSE, !.up = up].said = rfcomm[n].said
    BY <1>2 DEF Links
  <2>4. /\ rfcomm' \in [Connections -> Links]
        /\ \A k \in Connections \ {n} : rfcomm'[k] = rfcomm[k]
        /\ rfcomm'[n].open = FALSE /\ rfcomm'[n].mode = rfcomm[n].mode /\ rfcomm'[n].up = up
        /\ rfcomm'[n].down = rfcomm[n].down /\ rfcomm'[n].said = rfcomm[n].said
    BY <1>1, <2>1, <2>2, <2>3
  <2>5. HostTouches(n)
    BY <2>4 DEF HostTouches
  <2>6. LinkGood(n)'
    BY <1>1, <2>2, <2>4, AuthMessageFacts DEF LinkGood
  <2>7. AcceptorGood'
    <3>1. acceptor.id \in Numbers
      BY <1>1 DEF Acceptors
    <3>2. QED  BY <1>1, <1>2, <2>1, <2>2, <2>4, <3>1, AuthMessageFacts DEF AcceptorGood, Theirs, Numbers
  <2>8. QED  BY <1>1, <2>1, <2>5, <2>6, <2>7, HostMoves
<1>5. QED  BY <1>3, <1>4


LEMMA HostBegins == ASSUME AuthInv, Greets \/ HostShares PROVE AuthInv'
<1>1. PICK n \in Connections : n = acceptor.id /\ LinkGood(n) /\ rfcomm[n] \in Links /\ rfcomm[n].mode # "none"
  BY HostHere DEF Greets, HostShares
<1>2. /\ acceptor \in Acceptors /\ AcceptorGood /\ rfcomm \in [Connections -> Links]
      /\ known \in [Parties -> Identities] /\ UNCHANGED <<policy, known, lan, joiner, table>>
  BY DEF AuthInv, AuthTypes, Greets, HostShares
<1>3. CASE HostShares
  <2>1. PICK m \in AuthMessages : m = Greeting("flight", "authorize") /\ m.kind = "flight"
    BY AuthMessageFacts DEF Ways
  <2>2. acceptor' = [acceptor EXCEPT !.at = "tls", !.sent = m] /\ acceptor.at = "share"
    BY <1>3, <2>1 DEF HostShares, Replies
  <2>3. acceptor' \in Acceptors /\ acceptor'.id = acceptor.id /\ acceptor'.at = "tls"
    BY <1>2, <2>2 DEF Acceptors
  <2>4. rfcomm' = [Writes(rfcomm, acceptor.id, "down", m) EXCEPT ![acceptor.id].up = Silence]
    BY <1>3, <2>1 DEF HostShares, Replies
  <2>5. Theirs.mode = "authorize" => Host \notin policy.only
    BY <1>2, <2>2 DEF AcceptorGood
  <2>6. QED  BY <1>2, <2>1, <2>2, <2>3, <2>4, <2>5, HostGreets
<1>4. CASE Greets /\ Leaves0
  <2>1. acceptor.at = "greeted"
    BY <1>4 DEF Greets
  <2>2. QED  BY <1>2, <1>4, <2>1, HostAbandons
<1>5. CASE Greets /\ ~Leaves0
  <2>1. PICK roots \in SUBSET Identities :
           roots = IF Theirs.mode = "authorize" THEN {Temporary}
                   ELSE IF acceptor.active THEN {Joiner} ELSE RootsOf({known[Host]})
    <3>1. /\ {Temporary} \in SUBSET Identities /\ {Joiner} \in SUBSET Identities
          /\ RootsOf({known[Host]}) \in SUBSET Identities
      BY <1>2, BothParties DEF Identities, RootsOf
    <3>2. QED  BY <3>1
  <2>2. PICK m \in AuthMessages, at \in {"tls", "share"} :
           /\ m = Greeting(IF Theirs.mode = "trusted" THEN "flight" ELSE "challenge", Theirs.mode)
           /\ m.kind \in {"flight", "challenge"}
           /\ at = IF Theirs.mode = "trusted" THEN "tls" ELSE "share"
    <3>1. Theirs.mode \in Ways
      BY <1>1 DEF Links, Theirs
    <3>2. QED  BY <3>1, AuthMessageFacts
  <2>3. /\ acceptor.at = "greeted" /\ (Theirs.mode = "authorize" => Host \notin policy.only)
        /\ acceptor' = [acceptor EXCEPT !.at = at, !.roots = roots]
        /\ rfcomm' = [Writes(rfcomm, acceptor.id, "down", m) EXCEPT ![acceptor.id].up = Silence]
    BY <1>5, <2>1, <2>2 DEF Greets
  <2>4. acceptor' \in Acceptors /\ acceptor'.id = acceptor.id /\ acceptor'.at \in {"share", "tls"}
    BY <1>2, <2>3 DEF Acceptors
  <2>5. QED  BY <1>2, <2>2, <2>3, <2>4, HostGreets
<1>6. QED  BY <1>3, <1>4, <1>5

LEMMA HostIsAsked == ASSUME AuthInv, Requested PROVE AuthInv'
<1>1. PICK n \in Connections : n = acceptor.id /\ LinkGood(n) /\ rfcomm[n] \in Links /\ rfcomm[n].mode # "none"
  BY HostHere DEF Requested
<1>2. /\ acceptor \in Acceptors /\ AcceptorGood /\ rfcomm \in [Connections -> Links] /\ acceptor.at = "tls"
      /\ UNCHANGED <<policy, known, lan, joiner, table>> /\ rfcomm[n].up.kind = "request"
  BY <1>1 DEF AuthInv, AuthTypes, Requested, Hears0, Theirs
<1>3. PICK r \in AuthMessages : r = Theirs.up /\ r.kind = "request"
  BY <1>1, <1>2 DEF Links, Theirs
<1>4. CASE Leaves0
  BY <1>2, <1>4, HostAbandons
<1>5. CASE ~Leaves0 /\ Theirs.mode = "trusted"
  <2>1. Replies("confirm", Decision(r, "yes"), Answers(rfcomm, acceptor.id, Host, "yes"))
    BY <1>3, <1>5 DEF Requested
  <2>2. "yes" \in Consents /\ acceptor.at \in {"tls", "prompt"}
    BY <1>2 DEF Consents
  <2>3. QED  BY <1>2, <1>3, <2>1, <2>2, HostAgrees
<1>6. CASE ~Leaves0 /\ Theirs.mode # "trusted"
  <2>1. /\ acceptor' = [acceptor EXCEPT !.at = "prompt", !.sent = r]
        /\ rfcomm' = [rfcomm EXCEPT ![n].up = Silence]
    BY <1>1, <1>3, <1>6 DEF Requested
  <2>2. acceptor' \in Acceptors /\ acceptor'.id = n /\ acceptor'.at = "prompt" /\ acceptor'.sent = r
    BY <1>1, <1>2, <2>1 DEF Acceptors
  <2>3. /\ rfcomm' \in [Connections -> Links]
        /\ \A k \in Connections \ {n} : rfcomm'[k] = rfcomm[k]
        /\ rfcomm'[n].open = rfcomm[n].open /\ rfcomm'[n].mode = rfcomm[n].mode /\ rfcomm'[n].up = Silence
        /\ rfcomm'[n].down = rfcomm[n].down /\ rfcomm'[n].said = rfcomm[n].said
    BY <1>2, <2>1, HeardUpFacts
  <2>4. HostTouches(n)
    BY <2>3 DEF HostTouches
  <2>5. LinkGood(n)'
    BY <1>1, <1>2, <2>3, AuthMessageFacts DEF LinkGood, InTable
  <2>6. Theirs.mode = "authorize"
    BY <1>1, <1>6 DEF Links, Ways, Theirs
  <2>7. AcceptorGood'
    BY <1>1, <1>2, <1>3, <2>2, <2>3, <2>6, AuthMessageFacts DEF AcceptorGood, Theirs
  <2>8. QED  BY <1>2, <2>2, <2>4, <2>5, <2>7, HostMoves
<1>7. QED  BY <1>4, <1>5, <1>6

LEMMA HostDecides == ASSUME AuthInv, NEW says \in Consents, HostAnswers(says) PROVE AuthInv'
<1>1. PICK n \in Connections : n = acceptor.id /\ LinkGood(n) /\ rfcomm[n] \in Links /\ rfcomm[n].mode # "none"
  BY HostHere DEF HostAnswers, HostSays
<1>2. /\ acceptor \in Acceptors /\ AcceptorGood /\ rfcomm \in [Connections -> Links] /\ acceptor.at = "prompt"
      /\ UNCHANGED <<policy, known, lan, joiner, table>>
  BY DEF AuthInv, AuthTypes, HostAnswers, HostSays
<1>3. PICK r \in AuthMessages : r = acceptor.sent /\ r.kind = "request"
  BY <1>2 DEF AcceptorGood, Acceptors
<1>4. CASE says # "no"
  <2>1. Replies("confirm", Decision(r, says), Answers(rfcomm, acceptor.id, Host, says))
    BY <1>3, <1>4 DEF HostAnswers, HostSays
  <2>2. QED  BY <1>2, <1>3, <2>1, HostAgrees
<1>5. CASE says = "no"
  <2>1. PICK m \in AuthMessages : m = Decision(r, says) /\ m.kind = "decision" /\ m.body.says = says
    BY <1>3, AuthMessageFacts
  <2>2. PICK c \in [Connections -> Links] : c = Answers(rfcomm, n, Host, says)
    BY <1>2, AnswersFacts, BothParties
  <2>3. /\ \A k \in Connections \ {n} : c[k] = rfcomm[k]
        /\ c[n].open = rfcomm[n].open /\ c[n].mode = rfcomm[n].mode /\ c[n].up = rfcomm[n].up
        /\ c[n].down = rfcomm[n].down
        /\ c[n].said[Host] = says /\ c[n].said[Joiner] = rfcomm[n].said[Joiner]
    BY <1>2, <2>2, AnswersFacts, BothParties
  <2>4. PICK e \in [Connections -> Links] : e = Writes(c, n, "down", m)
    BY WritesDownFacts
  <2>5. /\ \A k \in Connections \ {n} : e[k] = c[k]
        /\ e[n].mode = c[n].mode /\ e[n].up = c[n].up /\ e[n].said = c[n].said
        /\ e[n].down \in {m, c[n].down}
    BY <2>4, WritesDownFacts
  <2>6. acceptor' = Vacant /\ rfcomm' = Closed0(e, n)
    BY <1>1, <1>3, <1>5, <2>1, <2>2, <2>4 DEF HostAnswers, HostSays
  <2>7. /\ rfcomm' \in [Connections -> Links]
        /\ \A k \in Connections \ {n} : rfcomm'[k] = e[k]
        /\ rfcomm'[n].open = FALSE /\ rfcomm'[n].mode = e[n].mode /\ rfcomm'[n].up = e[n].up
        /\ rfcomm'[n].down = e[n].down /\ rfcomm'[n].said = e[n].said
    BY <2>6, ClosedFacts
  <2>8. rfcomm[n].said[Host] = "nothing" /\ says # "nothing" /\ rfcomm[n].up.kind # "hello"
    BY <1>1, <1>2, <1>5 DEF AcceptorGood, Theirs
  <2>9. HostTouches(n)
    BY <2>3, <2>5, <2>7, <2>8 DEF HostTouches
  <2>10. LinkGood(n)'
    BY <1>1, <2>1, <2>3, <2>5, <2>7, <2>8 DEF LinkGood
  <2>11. QED  BY <1>2, <2>6, <2>9, <2>10, HostLeaves
<1>6. QED  BY <1>4, <1>5

(* The joiner has confirmed: what is saved has both answers, and the       *)
(* session is in the table before the joiner reads of it.                  *)
LEMMA HostEstablishes ==
    ASSUME AuthInv, acceptor.at = "confirm", Hears0("confirmation"), Theirs.up.body.says # "no",
           NEW saved \in BOOLEAN, NEW saves,
           Established(saved, Theirs.said[Host] = "remember", saves), UNCHANGED <<policy, lan, joiner>>
    PROVE  AuthInv'
<1>1. PICK n \in Connections : n = acceptor.id /\ LinkGood(n) /\ rfcomm[n] \in Links /\ rfcomm[n].mode # "none"
  BY HostHere
<1>2. /\ acceptor \in Acceptors /\ AcceptorGood /\ rfcomm \in [Connections -> Links] /\ table \in Tables
      /\ known \in [Parties -> Identities] /\ BothConsented /\ TableGood /\ SameSession
      /\ joiner \in Joiners /\ JoinerGood /\ AuthTypes /\ rfcomm[n].up.kind = "confirmation"
  BY <1>1 DEF AuthInv, AuthTypes, Hears0, Theirs
<1>3. PICK m \in AuthMessages : m = Ready0(Theirs.up) /\ m.kind = "ready"
  <2>1. Theirs.up \in AuthMessages /\ Theirs.up.kind = "confirmation"
    BY <1>1, <1>2 DEF Theirs, Links
  <2>2. QED  BY <2>1, AuthMessageFacts
<1>4. PICK c \in [Connections -> Links] : c = Writes(rfcomm, n, "down", m)
  BY <1>2, WritesDownFacts
<1>5. /\ \A k \in Connections \ {n} : c[k] = rfcomm[k]
      /\ c[n].open = rfcomm[n].open /\ c[n].mode = rfcomm[n].mode /\ c[n].up = rfcomm[n].up
      /\ c[n].said = rfcomm[n].said /\ c[n].down = IF rfcomm[n].open THEN m ELSE rfcomm[n].down
  BY <1>2, <1>4, WritesDownFacts
<1>6. known' \in [Parties -> Identities] /\ known'[Joiner] = known[Joiner]
      /\ known'[Host] = IF rfcomm[n].said[Host] = "remember" THEN Joiner ELSE known[Host]
  <2>1. Joiner \in Identities
    BY DEF Identities
  <2>2. QED  BY <1>1, <1>2, <2>1, BothParties DEF Established, Theirs
<1>7. /\ rfcomm' \in [Connections -> Links]
      /\ \A k \in Connections \ {n} : rfcomm'[k] = rfcomm[k]
      /\ rfcomm'[n].open => rfcomm[n].open
      /\ rfcomm'[n].mode = rfcomm[n].mode /\ rfcomm'[n].said = rfcomm[n].said
      /\ rfcomm'[n].up \in {Silence, rfcomm[n].up}
      /\ rfcomm'[n].down = IF rfcomm[n].open THEN m ELSE rfcomm[n].down
  <2>1. rfcomm' = [c EXCEPT ![n].up = Silence] \/ rfcomm' = Closed0(c, n)
    BY <1>1, <1>3, <1>4 DEF Established
  <2>2. /\ [c EXCEPT ![n].up = Silence] \in [Connections -> Links]
        /\ \A k \in Connections \ {n} : [c EXCEPT ![n].up = Silence][k] = c[k]
        /\ [c EXCEPT ![n].up = Silence][n].open = c[n].open
        /\ [c EXCEPT ![n].up = Silence][n].mode = c[n].mode
        /\ [c EXCEPT ![n].up = Silence][n].said = c[n].said
        /\ [c EXCEPT ![n].up = Silence][n].up = Silence
        /\ [c EXCEPT ![n].up = Silence][n].down = c[n].down
    BY HeardUpFacts
  <2>3. /\ Closed0(c, n) \in [Connections -> Links]
        /\ \A k \in Connections \ {n} : Closed0(c, n)[k] = c[k]
        /\ Closed0(c, n)[n].open = FALSE /\ Closed0(c, n)[n].mode = c[n].mode
        /\ Closed0(c, n)[n].up = c[n].up /\ Closed0(c, n)[n].down = c[n].down
        /\ Closed0(c, n)[n].said = c[n].said
    BY ClosedFacts
  <2>4. CASE rfcomm' = [c EXCEPT ![n].up = Silence]
    BY <1>5, <2>2, <2>4
  <2>5. CASE rfcomm' = Closed0(c, n)
    BY <1>5, <2>3, <2>5
  <2>6. QED  BY <2>1, <2>4, <2>5
<1>8. HostTouches(n)
  BY <1>7 DEF HostTouches
<1>9. acceptor' \in Acceptors /\ AcceptorGood'
  <2>1. acceptor' = Vacant
    BY DEF Established
  <2>2. QED  BY <2>1, VacantFacts DEF AcceptorGood
<1>10. PICK e \in Completions :
          /\ e.id = n /\ (e.trusted <=> rfcomm[n].mode = "trusted")
          /\ \/ table' = table /\ ~rfcomm'[n].open
             \/ table' = [table EXCEPT !.complete = Append(table.complete, e)]
  <2>1. PICK trusted \in BOOLEAN, existing \in BOOLEAN :
           /\ trusted = (Theirs.mode = "trusted")
           /\ existing = (Theirs.mode = "trusted" /\ known[Host] # Joiner)
    OBVIOUS
  <2>2. [id |-> n, trusted |-> trusted, existing |-> existing] \in Completions
    BY DEF Completions
  <2>3. Closed0(c, n)[n].open = FALSE
    BY ClosedFacts
  <2>4. \/ table' = table /\ rfcomm' = Closed0(c, n)
        \/ table' = [table EXCEPT !.complete =
                        Append(table.complete, [id |-> n, trusted |-> trusted, existing |-> existing])]
    BY <1>1, <1>3, <1>4, <2>1 DEF Established
  <2>5. QED  BY <1>1, <2>1, <2>2, <2>3, <2>4 DEF Theirs
<1>11. table.complete \in Seq(Completions) /\ table.primary \in Numbers /\ table.attached \in Numbers
       /\ Append(table.complete, e) \in Seq(Completions)
  BY <1>2 DEF Tables
<1>12. /\ table' \in Tables /\ table'.primary = table.primary /\ table'.attached = table.attached
       /\ table'.revoking = table.revoking
       /\ table'.complete \in {table.complete, Append(table.complete, e)}
       /\ rfcomm'[n].open => table'.complete = Append(table.complete, e)
  BY <1>2, <1>10, <1>11 DEF Tables
<1>13. /\ \A i \in DOMAIN table.complete : i \in DOMAIN table'.complete /\ table'.complete[i] = table.complete[i]
       /\ \A i \in DOMAIN table'.complete : i \in DOMAIN table.complete \/ table'.complete[i] = e
  BY <1>11, <1>12
<1>14. (\A k \in Connections : InTable(k) => InTable(k)') /\ (rfcomm'[n].open => InTable(n)')
  <2>1. \A k \in Connections : InTable(k) => InTable(k)'
    BY <1>12, <1>13 DEF InTable
  <2>2. ASSUME rfcomm'[n].open PROVE InTable(n)'
    <3>1. table'.complete[Len(table.complete) + 1] = e /\ Len(table.complete) + 1 \in DOMAIN table'.complete
      BY <1>11, <1>12, <2>2
    <3>2. QED  BY <1>10, <3>1 DEF InTable
  <2>3. QED  BY <2>1, <2>2
<1>15. LinkGood(n)'
  BY <1>1, <1>3, <1>7, <1>12, <1>14, AuthMessageFacts DEF LinkGood
<1>16. TableGood'
  <2>1. \A k \in Connections : rfcomm'[k].mode = rfcomm[k].mode
    BY <1>7
  <2>2. \A k \in Connections : InTable(k)' => InTable(k) \/ k = n
    BY <1>10, <1>12, <1>13 DEF InTable
  <2>3. \A i \in DOMAIN table'.complete :
           table'.complete[i].trusted <=> rfcomm'[table'.complete[i].id].mode = "trusted"
    <3>1. \A i \in DOMAIN table.complete : table.complete[i].id \in Connections
      BY <1>2, CompletedIds
    <3>2. QED  BY <1>2, <1>10, <1>13, <2>1, <3>1 DEF TableGood
  <2>4. TemporaryStaysSecond'
    BY <1>2, <1>6, <1>11, <1>12, <2>1 DEF TableGood, TemporaryStaysSecond, Numbers
  <2>5. QED  BY <1>1, <1>2, <1>12, <2>1, <2>2, <2>3, <2>4 DEF TableGood
<1>17. BothConsented'
  <2>1. Joiner \in Parties /\ Host \in Parties
    BY BothParties
  <2>2. \A k \in Connections, p \in Parties, q \in Parties : Agreed(k, p, q) <=> Agreed(k, p, q)'
    BY <1>7 DEF Agreed
  <2>3. rfcomm[n].said[Host] = "remember" => Agreed(n, Host, Joiner)
    <3>1. rfcomm[n].said[Joiner] \in Consents \cup {"nothing"}
      BY <1>1, BothParties DEF Links
    <3>2. rfcomm[n].said[Joiner] # "nothing" /\ rfcomm[n].said[Joiner] # "no"
      BY <1>1, <1>2 DEF LinkGood, Theirs
    <3>3. QED  BY <3>1, <3>2 DEF Agreed, Consents
  <2>4. QED  BY <1>1, <1>2, <1>6, <2>1, <2>2, <2>3 DEF BothConsented
<1>18. SameSession'
  <2>1. joiner.at = "session" => joiner.id \in Connections
    BY <1>2 DEF JoinerGood, Joiners, Numbers
  <2>2. joiner.bound # 0 => joiner.bound \in Connections
    BY <1>2 DEF Joiners, Numbers
  <2>3. \A k \in Connections : rfcomm'[k].open => rfcomm[k].open
    BY <1>7
  <2>4. (joiner.at = "session" /\ rfcomm'[joiner.id].open) =>
           \/ table'.primary = joiner.id
           \/ \E i \in DOMAIN table'.complete : table'.complete[i].id = joiner.id
    BY <1>2, <1>12, <1>13, <2>1, <2>3 DEF SameSession, Mine
  <2>5. (joiner.bound # 0 /\ rfcomm'[joiner.bound].open) => lan[Joiner] /\ table'.attached = joiner.bound
    BY <1>2, <1>12, <2>2, <2>3 DEF SameSession
  <2>6. QED  BY <2>4, <2>5 DEF SameSession, Mine
<1>19. \A k \in Connections \ {n} : rfcomm[k].open =>
          (InTable(k) => InTable(k)') /\ (table.attached = k => table'.attached = k)
  BY <1>12, <1>14
<1>20. QED  BY <1>6, <1>8, <1>9, <1>12, <1>15, <1>16, <1>17, <1>18, <1>19, HostSide0

LEMMA HostEnds == ASSUME AuthInv, NEW saved \in BOOLEAN, Confirmed(saved) \/ HostFails PROVE AuthInv'
<1>1. CASE Confirmed(saved)
  <2>1. acceptor.at = "confirm" /\ Hears0("confirmation") /\ UNCHANGED <<policy, lan, joiner>>
    BY <1>1 DEF Confirmed
  <2>2. CASE Leaves0 /\ UNCHANGED <<known, table>>
    BY <2>1, <2>2, HostAbandons
  <2>3. CASE ~(Leaves0 /\ UNCHANGED <<known, table>>)
    <3>1. PICK saves \in {Theirs.said[Host] = "remember" \/ known[Host] = Joiner} :
             /\ Theirs.up.body.says # "no"
             /\ Established(saved, Theirs.said[Host] = "remember", saves)
      BY <1>1, <2>3 DEF Confirmed
    <3>2. QED  BY <2>1, <3>1, HostEstablishes
  <2>4. QED  BY <2>2, <2>3
<1>2. CASE HostFails
  <2>1. acceptor.at \notin {"vacant", "other"} /\ Leaves0 /\ UNCHANGED <<policy, known, lan, joiner, table>>
    BY <1>2 DEF HostFails, Leaves0
  <2>2. QED  BY <2>1, HostAbandons
<1>3. QED  BY <1>1, <1>2


(* The host's loop takes what completed, into its table or away.           *)
LEMMA HostAdmits == ASSUME AuthInv, Admit PROVE AuthInv'
<1>1. /\ rfcomm \in [Connections -> Links] /\ table \in Tables /\ known \in [Parties -> Identities]
      /\ BothConsented /\ TableGood /\ LinksGood /\ SameSession /\ AcceptorGood /\ JoinerGood
      /\ acceptor \in Acceptors /\ joiner \in Joiners
      /\ UNCHANGED <<policy, known, lan, joiner, acceptor, faults>> /\ ~table.revoking
  BY DEF AuthInv, AuthTypes, Admit
<1>2. table.complete \in Seq(Completions) /\ table.complete # <<>>
      /\ table.primary \in Numbers /\ table.attached \in Numbers
  BY <1>1 DEF Tables, Admit
<1>3. PICK c \in Completions : c = Head(table.complete) /\ c = table.complete[1]
  BY <1>2
<1>4. PICK n \in Connections : n = c.id /\ n # 0 /\ LinkGood(n) /\ rfcomm[n] \in Links
  BY <1>1, BluetoothAuthAssumption DEF Completions, LinksGood
<1>5. PICK rest \in Seq(Completions) :
         /\ rest = Tail(table.complete)
         /\ \A i \in DOMAIN rest : i + 1 \in DOMAIN table.complete /\ rest[i] = table.complete[i + 1]
         /\ \A i \in DOMAIN table.complete : i = 1 \/ (i - 1 \in DOMAIN rest /\ rest[i - 1] = table.complete[i])
  <2>1. PICK s \in Seq(Completions) : s = table.complete /\ s # <<>>
    BY <1>2
  <2>2. Tail(s) \in Seq(Completions) /\ Len(Tail(s)) = Len(s) - 1 /\ Len(s) \in Nat
    BY <2>1
  <2>3. PICK rest \in Seq(Completions) : rest = Tail(s)
    BY <2>2
  <2>4. \A i \in 1..Len(s) - 1 : rest[i] = s[i + 1]
    BY <2>1, <2>3
  <2>5. DOMAIN rest = 1..Len(s) - 1 /\ DOMAIN s = 1..Len(s)
    BY <2>1, <2>2, <2>3
  <2>6. \A i \in DOMAIN rest : i + 1 \in DOMAIN s /\ rest[i] = s[i + 1]
    BY <2>2, <2>4, <2>5
  <2>7. ASSUME NEW i \in DOMAIN s, i # 1 PROVE i - 1 \in DOMAIN rest /\ rest[i - 1] = s[i]
    <3>1. i \in Nat /\ i - 1 \in 1..Len(s) - 1
      BY <2>2, <2>5, <2>7
    <3>2. rest[i - 1] = s[(i - 1) + 1] /\ (i - 1) + 1 = i
      BY <2>4, <3>1
    <3>3. QED  BY <2>5, <3>1, <3>2
  <2>8. QED  BY <2>1, <2>3, <2>6, <2>7
<1>6. PICK t \in Tables : /\ t = [table EXCEPT !.complete = rest] /\ t.complete = rest
                          /\ t.primary = table.primary /\ t.attached = table.attached
                          /\ t.revoking = table.revoking
  <2>1. \A x \in Tables : /\ [x EXCEPT !.complete = rest] \in Tables
                          /\ [x EXCEPT !.complete = rest].complete = rest
                          /\ [x EXCEPT !.complete = rest].primary = x.primary
                          /\ [x EXCEPT !.complete = rest].attached = x.attached
                          /\ [x EXCEPT !.complete = rest].revoking = x.revoking
    BY DEF Tables
  <2>2. QED  BY <1>1, <2>1
<1>7. Taken = t
  BY <1>5, <1>6 DEF Taken
<1>8. InTable(n) /\ rfcomm[n].mode # "none" /\ (c.trusted <=> rfcomm[n].mode = "trusted")
  <2>1. 1 \in DOMAIN table.complete
    BY <1>2
  <2>2. InTable(n)
    BY <1>3, <1>4, <2>1 DEF InTable
  <2>3. QED  BY <1>1, <1>3, <1>4, <2>1, <2>2 DEF TableGood
<1>9. \A k \in Connections : (\E i \in DOMAIN table.complete : table.complete[i].id = k)
                                => k = n \/ \E i \in DOMAIN rest : rest[i].id = k
  BY <1>3, <1>4, <1>5
<1>10. \A i \in DOMAIN rest : \E j \in DOMAIN table.complete : rest[i] = table.complete[j]
  BY <1>5
\* The three outcomes.
<1>11. CASE /\ table' \in Tables /\ table'.complete = rest /\ table'.revoking = FALSE
            /\ HostTouches(n) /\ rfcomm'[n].said = rfcomm[n].said /\ rfcomm'[n].up = rfcomm[n].up
            /\ \/ /\ table'.primary = table.primary /\ table'.attached = table.attached /\ ~rfcomm'[n].open
                  /\ rfcomm'[n].down = rfcomm[n].down
               \/ /\ table.primary = 0 /\ table.attached = 0 /\ lan[Host]
                  /\ table'.primary = 0 /\ table'.attached = n
                  /\ rfcomm'[n].down = rfcomm[n].down \/ rfcomm'[n].down.kind = "bound"
                  /\ rfcomm'[n].open => rfcomm'[n].down.kind = "bound"
               \/ /\ table.primary = 0 /\ table.attached = 0 /\ rfcomm' = rfcomm
                  /\ table'.primary = n /\ table'.attached = 0
                  /\ c.trusted => known[Host] = Joiner
  <2>1. \A k \in Connections : rfcomm'[k].mode = rfcomm[k].mode /\ (rfcomm'[k].open => rfcomm[k].open)
    BY <1>11 DEF HostTouches
  <2>2. \A k \in Connections \ {n} : rfcomm[k].open =>
           (InTable(k) => InTable(k)') /\ (table.attached = k => table'.attached = k)
    <3>1. \A k \in Connections : k # 0
      BY BluetoothAuthAssumption
    <3>2. QED  BY <1>9, <1>11, <3>1 DEF InTable
  <2>3. \A k \in Connections : InTable(k)' => InTable(k)
    BY <1>8, <1>10, <1>11, BluetoothAuthAssumption DEF InTable
  <2>4. LinkGood(n)'
    BY <1>4, <1>11, <2>1 DEF LinkGood, HostTouches, InTable
  <2>5. TableGood'
    <3>1. \A i \in DOMAIN rest : rest[i].trusted <=> rfcomm'[rest[i].id].mode = "trusted"
      <4>1. \A i \in DOMAIN table.complete : table.complete[i].id \in Connections
        BY <1>1, CompletedIds
      <4>2. QED  BY <1>1, <1>10, <2>1, <4>1 DEF TableGood
    <3>2. TemporaryStaysSecond'
      <4>1. table'.primary # 0 => table'.primary \in Connections
        BY <1>2, <1>11 DEF Numbers
      <4>2. CASE table'.primary = table.primary
        BY <1>1, <2>1, <4>1, <4>2 DEF TableGood, TemporaryStaysSecond
      <4>3. CASE table'.primary # table.primary
        <5>1. table'.primary = n /\ (c.trusted => known[Host] = Joiner)
          BY <1>11, <4>3
        <5>2. QED  BY <1>1, <1>8, <2>1, <5>1 DEF TemporaryStaysSecond
      <4>4. QED  BY <4>2, <4>3
    <3>3. table'.attached # 0 => joiner.candidate
      BY <1>1, <1>11, BothParties DEF TableGood
    <3>4. QED  BY <1>1, <1>11, <2>1, <2>3, <3>1, <3>2, <3>3 DEF TableGood
  <2>6. BothConsented'
    <3>1. \A k \in Connections, p \in Parties : rfcomm'[k].said[p] = rfcomm[k].said[p]
      BY <1>11 DEF HostTouches
    <3>2. QED  BY <1>1, <3>1, ConsentStays
  <2>7. AcceptorGood'
    <3>1. \A k \in Connections : rfcomm'[k].said = rfcomm[k].said /\ rfcomm'[k].up = rfcomm[k].up
      BY <1>11 DEF HostTouches
    <3>2. QED  BY <1>1, <2>1, <3>1 DEF AcceptorGood, Theirs, Acceptors, Numbers
  <2>8. SameSession'
    <3>1. (joiner.at = "session" /\ rfcomm'[joiner.id].open) =>
             table'.primary = joiner.id \/ \E i \in DOMAIN rest : rest[i].id = joiner.id
      <4>1. SUFFICES ASSUME joiner.at = "session", rfcomm'[joiner.id].open
                     PROVE  table'.primary = joiner.id \/ \E i \in DOMAIN rest : rest[i].id = joiner.id
        OBVIOUS
      <4>2. joiner.id \in Connections /\ ~joiner.candidate
        BY <1>1, <4>1 DEF JoinerGood, Joiners, Numbers
      <4>3. ~lan[Host] /\ rfcomm[joiner.id].open
        BY <1>1, <2>1, <4>1, <4>2, BothParties DEF TableGood
      <4>4. table.primary = joiner.id \/ \E i \in DOMAIN table.complete : table.complete[i].id = joiner.id
        BY <1>1, <4>1, <4>3 DEF SameSession, Mine
      <4>5. table.primary = joiner.id \/ joiner.id = n \/ \E i \in DOMAIN rest : rest[i].id = joiner.id
        BY <1>9, <4>2, <4>4
      <4>6. joiner.id # 0
        BY <4>2, BluetoothAuthAssumption
      <4>7. QED  BY <1>11, <4>1, <4>3, <4>5, <4>6
    <3>2. (joiner.bound # 0 /\ rfcomm'[joiner.bound].open) => lan[Joiner] /\ table'.attached = joiner.bound
      <4>1. joiner.bound # 0 => joiner.bound \in Connections
        BY <1>1 DEF Joiners, Numbers
      <4>2. QED  BY <1>1, <1>11, <2>1, <4>1 DEF SameSession
    <3>3. QED  BY <1>1, <1>11, <3>1, <3>2 DEF SameSession, Mine
  <2>9. QED  BY <1>1, <1>11, <2>2, <2>4, <2>5, <2>6, <2>7, <2>8, HostSide0
<1>12. CASE Drops(c)
  <2>1. table' = t /\ rfcomm' = Closed0(rfcomm, n)
    BY <1>4, <1>7, <1>12 DEF Drops
  <2>2. /\ rfcomm' \in [Connections -> Links]
        /\ \A k \in Connections \ {n} : rfcomm'[k] = rfcomm[k]
        /\ rfcomm'[n].open = FALSE /\ rfcomm'[n].mode = rfcomm[n].mode /\ rfcomm'[n].up = rfcomm[n].up
        /\ rfcomm'[n].down = rfcomm[n].down /\ rfcomm'[n].said = rfcomm[n].said
    BY <1>1, <2>1, ClosedFacts
  <2>3. HostTouches(n)
    BY <2>2 DEF HostTouches
  <2>4. table.revoking = FALSE
    BY <1>1 DEF Tables
  <2>5. QED  BY <1>6, <1>11, <2>1, <2>2, <2>3, <2>4
<1>13. CASE ~Drops(c)
  <2>1. \/ /\ ~(LostTrust(c) \/ Double) /\ lan[Host]
           /\ table' = [Taken EXCEPT !.attached = c.id]
           /\ rfcomm' = Writes(rfcomm, c.id, "down", Greeting("bound", "trusted"))
        \/ /\ ~(LostTrust(c) \/ LostSession(c) \/ Double) /\ ~lan[Host]
           /\ table' = [Taken EXCEPT !.primary = c.id] /\ rfcomm' = rfcomm
    <3>1. CASE LostTrust(c) \/ LostSession(c) \/ Double
      <4>1. ~(~(LostTrust(c) \/ Double) /\ lan[Host])
        BY <3>1 DEF LostSession, Online
      <4>2. QED  BY <1>3, <1>13, <3>1, <4>1 DEF Admit
    <3>2. CASE ~(LostTrust(c) \/ LostSession(c) \/ Double)
      BY <1>3, <3>2 DEF Admit
    <3>3. QED  BY <3>1, <3>2
  <2>2. table.primary = 0 /\ table.attached = 0 /\ ~LostTrust(c)
    BY <2>1 DEF Double
  <2>3. table.revoking = FALSE
    BY <1>1 DEF Tables
  <2>4. CASE lan[Host]
    <3>1. PICK m \in AuthMessages : m = Greeting("bound", "trusted") /\ m.kind = "bound"
      BY AuthMessageFacts DEF Ways
    <3>2. table' = [t EXCEPT !.attached = n] /\ rfcomm' = Writes(rfcomm, n, "down", m)
      BY <1>4, <1>7, <2>1, <2>4, <3>1
    <3>3. /\ table' \in Tables /\ table'.complete = rest /\ table'.revoking = FALSE
          /\ table'.primary = 0 /\ table'.attached = n
      BY <1>4, <1>6, <2>2, <2>3, <3>2 DEF Tables, Numbers
    <3>4. /\ rfcomm' \in [Connections -> Links]
          /\ \A k \in Connections \ {n} : rfcomm'[k] = rfcomm[k]
          /\ rfcomm'[n].open = rfcomm[n].open /\ rfcomm'[n].mode = rfcomm[n].mode
          /\ rfcomm'[n].down = (IF rfcomm[n].open THEN m ELSE rfcomm[n].down)
          /\ rfcomm'[n].up = rfcomm[n].up /\ rfcomm'[n].said = rfcomm[n].said
      BY <1>1, <3>2, WritesDownFacts
    <3>5. HostTouches(n)
      BY <3>4 DEF HostTouches
    <3>6. QED  BY <1>11, <2>2, <2>4, <3>1, <3>3, <3>4, <3>5
  <2>5. CASE ~lan[Host]
    <3>1. table' = [t EXCEPT !.primary = n] /\ rfcomm' = rfcomm
      BY <1>4, <1>7, <2>1, <2>5
    <3>2. /\ table' \in Tables /\ table'.complete = rest /\ table'.revoking = FALSE
          /\ table'.primary = n /\ table'.attached = 0
      BY <1>4, <1>6, <2>2, <2>3, <3>1 DEF Tables, Numbers
    <3>3. HostTouches(n)
      BY <1>1, <3>1 DEF HostTouches
    <3>4. c.trusted => known[Host] = Joiner
      BY <2>1, <2>2, <2>5 DEF LostTrust, LostSession, Online
    <3>5. QED  BY <1>11, <2>2, <3>1, <3>2, <3>3, <3>4
  <2>6. QED  BY <2>4, <2>5
<1>14. QED  BY <1>12, <1>13


LEMMA HostForgets == ASSUME AuthInv, HostNotices0 PROVE AuthInv'
<1>1. /\ rfcomm \in [Connections -> Links] /\ table \in Tables /\ known \in [Parties -> Identities]
      /\ BothConsented /\ TableGood /\ LinksGood /\ SameSession /\ AcceptorGood /\ JoinerGood
      /\ acceptor \in Acceptors /\ joiner \in Joiners /\ table.primary \in Numbers /\ table.attached \in Numbers
      /\ UNCHANGED <<policy, known, lan, joiner, acceptor, rfcomm>>
  BY DEF AuthInv, AuthTypes, HostNotices0, Tables
<1>2. PICK n \in Connections :
         /\ n \in {table.primary, table.attached} /\ ~rfcomm[n].open
         /\ table' \in Tables /\ table'.complete = table.complete /\ table'.revoking = table.revoking
         /\ table'.primary = table.primary \/ (table.primary = n /\ table'.primary = 0)
         /\ table'.attached = table.attached \/ (table.attached = n /\ table'.attached = 0)
  <2>1. \A x \in Tables : /\ [x EXCEPT !.primary = 0] \in Tables /\ [x EXCEPT !.attached = 0] \in Tables
                          /\ [x EXCEPT !.primary = 0].primary = 0
                          /\ [x EXCEPT !.primary = 0].attached = x.attached
                          /\ [x EXCEPT !.primary = 0].complete = x.complete
                          /\ [x EXCEPT !.primary = 0].revoking = x.revoking
                          /\ [x EXCEPT !.attached = 0].attached = 0
                          /\ [x EXCEPT !.attached = 0].primary = x.primary
                          /\ [x EXCEPT !.attached = 0].complete = x.complete
                          /\ [x EXCEPT !.attached = 0].revoking = x.revoking
    BY DEF Tables, Numbers
  <2>2. CASE table.primary # 0 /\ ~rfcomm[table.primary].open /\ table' = [table EXCEPT !.primary = 0]
    BY <1>1, <2>1, <2>2 DEF Numbers
  <2>3. CASE table.attached # 0 /\ ~rfcomm[table.attached].open /\ table' = [table EXCEPT !.attached = 0]
    BY <1>1, <2>1, <2>3 DEF Numbers
  <2>4. QED  BY <2>2, <2>3 DEF HostNotices0
<1>3. n # 0 /\ \A k \in Connections : k # 0
  BY BluetoothAuthAssumption
<1>4. \A k \in Connections : /\ InTable(k)' => InTable(k)
                             /\ rfcomm[k].open /\ InTable(k) => InTable(k)'
                             /\ rfcomm[k].open /\ table.attached = k => table'.attached = k
  BY <1>2, <1>3 DEF InTable
<1>5. HostTouches(n) /\ LinkGood(n)'
  BY <1>1, <1>4 DEF HostTouches, LinksGood, LinkGood
<1>6. TableGood'
  <2>1. TemporaryStaysSecond'
    BY <1>1, <1>2 DEF TableGood, TemporaryStaysSecond
  <2>2. QED  BY <1>1, <1>2, <1>4, <2>1 DEF TableGood
<1>7. BothConsented' /\ AcceptorGood'
  BY <1>1 DEF BothConsented, Agreed, AcceptorGood, Theirs
<1>8. SameSession'
  <2>1. joiner.id \in Numbers /\ joiner.bound \in Numbers /\ (joiner.at = "session" => joiner.id # 0)
    BY <1>1 DEF Joiners, JoinerGood
  <2>2. QED  BY <1>1, <1>2, <2>1 DEF SameSession, Mine, Numbers
<1>9. QED  BY <1>1, <1>2, <1>4, <1>5, <1>6, <1>7, <1>8, HostSide0

(* Connections are closed, several of them together.                       *)
LEMMA SomeClosed ==
    ASSUME NEW closed \in SUBSET Numbers, rfcomm \in [Connections -> Links],
           rfcomm' = [n \in Connections |-> [rfcomm[n] EXCEPT !.open = rfcomm[n].open /\ n \notin closed]]
    PROVE  /\ rfcomm' \in [Connections -> Links]
           /\ \A n \in Connections : /\ rfcomm'[n].open <=> rfcomm[n].open /\ n \notin closed
                                     /\ rfcomm'[n].mode = rfcomm[n].mode /\ rfcomm'[n].up = rfcomm[n].up
                                     /\ rfcomm'[n].down = rfcomm[n].down /\ rfcomm'[n].said = rfcomm[n].said
<1>1. ASSUME NEW n \in Connections
      PROVE  /\ rfcomm'[n] \in Links
             /\ rfcomm'[n].open <=> rfcomm[n].open /\ n \notin closed
             /\ rfcomm'[n].mode = rfcomm[n].mode /\ rfcomm'[n].up = rfcomm[n].up
             /\ rfcomm'[n].down = rfcomm[n].down /\ rfcomm'[n].said = rfcomm[n].said
  <2>1. rfcomm[n] \in Links /\ rfcomm[n].open \in BOOLEAN
    BY DEF Links
  <2>2. PICK open \in BOOLEAN : open <=> rfcomm[n].open /\ n \notin closed
    OBVIOUS
  <2>3. open = (rfcomm[n].open /\ n \notin closed)
    BY <2>1, <2>2
  <2>4. rfcomm'[n] = [rfcomm[n] EXCEPT !.open = open]
    BY <2>3
  <2>5. QED  BY <2>1, <2>2, <2>4 DEF Links
<1>2. QED  BY <1>1

\* What no end has said is disturbed by it.
LEMMA ClosingKeeps ==
    ASSUME AuthInv, UNCHANGED policy, rfcomm' \in [Connections -> Links],
           known' \in {known, [known EXCEPT ![Host] = NoKey]},
           \A n \in Connections : /\ rfcomm'[n].open => rfcomm[n].open
                                  /\ rfcomm'[n].mode = rfcomm[n].mode /\ rfcomm'[n].up = rfcomm[n].up
                                  /\ rfcomm'[n].down = rfcomm[n].down /\ rfcomm'[n].said = rfcomm[n].said
    PROVE  /\ BothConsented' /\ known' \in [Parties -> Identities]
           /\ acceptor' = acceptor => AcceptorGood'
           /\ joiner' = joiner /\ lan'[Joiner] = lan[Joiner] => JoinerGood'
<1>1. /\ BothConsented /\ known \in [Parties -> Identities] /\ AcceptorGood /\ JoinerGood
      /\ acceptor.id \in Numbers /\ joiner.id \in Numbers /\ joiner.bound \in Numbers
  BY DEF AuthInv, AuthTypes, Acceptors, Joiners
<1>2. known' \in [Parties -> Identities] /\ known'[Joiner] = known[Joiner] /\ known'[Host] \in {known[Host], NoKey}
  BY <1>1, BothParties DEF Identities
<1>3. BothConsented'
  BY <1>1, <1>2 DEF BothConsented, Agreed
<1>4. acceptor' = acceptor => AcceptorGood'
  BY <1>1 DEF AcceptorGood, Theirs, Numbers
<1>5. joiner' = joiner /\ lan'[Joiner] = lan[Joiner] => JoinerGood'
  BY <1>1 DEF JoinerGood, Mine, Numbers
<1>6. QED  BY <1>2, <1>3, <1>4, <1>5

\* The table after links are closed: it has lost only what is closed.
LEMMA ClosingLinks ==
    ASSUME AuthInv, table' \in Tables,
           \A n \in Connections : /\ rfcomm'[n].open => rfcomm[n].open
                                  /\ rfcomm'[n].mode = rfcomm[n].mode /\ rfcomm'[n].up = rfcomm[n].up
                                  /\ rfcomm'[n].down = rfcomm[n].down /\ rfcomm'[n].said = rfcomm[n].said
                                  /\ rfcomm'[n].open => (InTable(n) => InTable(n)')
                                                        /\ (table.attached = n => table'.attached = n)
    PROVE  LinksGood'
<1>1. LinksGood
  BY DEF AuthInv
<1>2. \A n \in Connections : LinkGood(n)'
  BY <1>1 DEF LinksGood, LinkGood
<1>3. QED  BY <1>2 DEF LinksGood

LEMMA HostRevokes == ASSUME AuthInv, Revokes PROVE AuthInv'
<1>1. /\ rfcomm \in [Connections -> Links] /\ table \in Tables /\ known \in [Parties -> Identities]
      /\ TableGood /\ SameSession /\ JoinerGood /\ AuthTypes
      /\ acceptor \in Acceptors /\ joiner \in Joiners /\ lan \in [Parties -> BOOLEAN]
      /\ UNCHANGED <<policy, joiner, acceptor>>
  BY DEF AuthInv, AuthTypes, Revokes
<1>2. \A k \in Connections : k # 0
  BY BluetoothAuthAssumption
<1>3. CASE ~table.revoking
  <2>1. /\ table' = [table EXCEPT !.primary = 0, !.attached = 0, !.revoking = TRUE]
        /\ lan' = [lan EXCEPT ![Host] = FALSE] /\ rfcomm' = SessionsClosed(rfcomm) /\ known' = known
    BY <1>3 DEF Revokes
  <2>2. /\ rfcomm' \in [Connections -> Links]
        /\ \A n \in Connections : /\ rfcomm'[n].open <=> rfcomm[n].open /\ n \notin {table.primary, table.attached}
                                  /\ rfcomm'[n].mode = rfcomm[n].mode /\ rfcomm'[n].up = rfcomm[n].up
                                  /\ rfcomm'[n].down = rfcomm[n].down /\ rfcomm'[n].said = rfcomm[n].said
    <3>1. PICK closed \in SUBSET Numbers : closed = {table.primary, table.attached}
      BY <1>1 DEF Tables
    <3>2. rfcomm' = [n \in Connections |-> [rfcomm[n] EXCEPT !.open = rfcomm[n].open /\ n \notin closed]]
      BY <2>1, <3>1 DEF SessionsClosed
    <3>3. /\ rfcomm' \in [Connections -> Links]
          /\ \A n \in Connections : /\ rfcomm'[n].open <=> rfcomm[n].open /\ n \notin closed
                                    /\ rfcomm'[n].mode = rfcomm[n].mode /\ rfcomm'[n].up = rfcomm[n].up
                                    /\ rfcomm'[n].down = rfcomm[n].down /\ rfcomm'[n].said = rfcomm[n].said
      BY <1>1, <3>2, SomeClosed
    <3>4. QED  BY <3>1, <3>3
  <2>3. /\ table' \in Tables /\ table'.primary = 0 /\ table'.attached = 0 /\ table'.revoking = TRUE
        /\ table'.complete = table.complete
    <3>1. \A x \in Tables :
             /\ [x EXCEPT !.primary = 0, !.attached = 0, !.revoking = TRUE] \in Tables
             /\ [x EXCEPT !.primary = 0, !.attached = 0, !.revoking = TRUE].primary = 0
             /\ [x EXCEPT !.primary = 0, !.attached = 0, !.revoking = TRUE].attached = 0
             /\ [x EXCEPT !.primary = 0, !.attached = 0, !.revoking = TRUE].revoking = TRUE
             /\ [x EXCEPT !.primary = 0, !.attached = 0, !.revoking = TRUE].complete = x.complete
      BY DEF Tables, Numbers
    <3>2. QED  BY <1>1, <2>1, <3>1
  <2>4. lan' \in [Parties -> BOOLEAN] /\ lan'[Joiner] = lan[Joiner] /\ lan'[Host] = FALSE
    BY <1>1, <2>1, BothParties
  <2>5. /\ BothConsented' /\ AcceptorGood' /\ JoinerGood'
    BY <1>1, <2>1, <2>2, <2>4, ClosingKeeps
  <2>6. \A k \in Connections : InTable(k)' => InTable(k)
    BY <1>2, <2>3 DEF InTable
  <2>7. LinksGood'
    BY <2>2, <2>3, ClosingLinks DEF InTable
  <2>8. TableGood'
    <3>1. \A i \in DOMAIN table.complete : table.complete[i].id \in Connections
      BY <1>1, CompletedIds
    <3>2. TemporaryStaysSecond'
      BY <2>3 DEF TemporaryStaysSecond
    <3>3. \A p \in Parties : lan'[p] => joiner.candidate
      BY <1>1, <2>4, BothParties DEF TableGood
    <3>4. QED  BY <1>1, <2>2, <2>3, <2>6, <3>1, <3>2, <3>3 DEF TableGood
  <2>9. SameSession'
    <3>1. /\ joiner.id \in Numbers /\ joiner.bound \in Numbers /\ (joiner.at = "session" => joiner.id # 0)
      BY <1>1 DEF Joiners, JoinerGood
    <3>2. QED  BY <1>1, <2>2, <2>3, <2>4, <3>1 DEF SameSession, Mine, Numbers
  <2>10. QED  BY <1>1, <2>1, <2>2, <2>3, <2>4, <2>5, <2>7, <2>8, <2>9 DEF AuthInv, AuthTypes
<1>4. CASE table.revoking
  <2>1. /\ table' = [table EXCEPT !.revoking = FALSE] /\ known' = [known EXCEPT ![Host] = NoKey]
        /\ UNCHANGED <<lan, rfcomm>>
    BY <1>4 DEF Revokes
  <2>2. /\ table' \in Tables /\ table'.primary = table.primary /\ table'.attached = table.attached
        /\ table'.revoking = FALSE /\ table'.complete = table.complete
    BY <1>1, <2>1 DEF Tables
  <2>3. BothConsented' /\ AcceptorGood' /\ JoinerGood' /\ known' \in [Parties -> Identities]
    BY <1>1, <2>1, ClosingKeeps
  <2>4. LinksGood'
    BY <2>1, <2>2, ClosingLinks DEF InTable
  <2>5. TableGood'
    <3>1. TemporaryStaysSecond'
      BY <1>1, <1>4, <2>2 DEF TableGood, TemporaryStaysSecond
    <3>2. QED  BY <1>1, <2>1, <2>2, <3>1 DEF TableGood, InTable
  <2>6. SameSession'
    BY <1>1, <2>1, <2>2 DEF SameSession, Mine
  <2>7. QED  BY <1>1, <2>1, <2>2, <2>3, <2>4, <2>5, <2>6 DEF AuthInv, AuthTypes
<1>5. QED  BY <1>3, <1>4

(* What goes wrong elsewhere.                                              *)
LEMMA OthersPair == ASSUME AuthInv, OtherPairs PROVE AuthInv'
<1>1. /\ UNCHANGED <<policy, known, lan, joiner, table, rfcomm>> /\ AcceptorGood
      /\ acceptor' = Vacant \/ acceptor' = [Vacant EXCEPT !.at = "other"]
  BY DEF OtherPairs, AuthInv
<1>2. PICK v \in Acceptors : v = Vacant /\ v.at = "vacant" /\ v.id = 0
  BY VacantFacts
<1>3. acceptor' \in Acceptors /\ acceptor'.id = 0 /\ acceptor'.at \in {"vacant", "other"}
  BY <1>1, <1>2 DEF Acceptors
<1>4. AcceptorGood'
  BY <1>3 DEF AcceptorGood
<1>5. QED  BY <1>1, <1>3, <1>4 DEF AuthInv, AuthTypes, JoinerGood, Mine, TableGood, LinksGood, LinkGood, InTable,
                                   TemporaryStaysSecond, BothConsented, Agreed, SameSession

LEMMA LinkBreaks == ASSUME AuthInv, NEW n \in Connections, Breaks(n) PROVE AuthInv'
<1>1. /\ rfcomm \in [Connections -> Links] /\ rfcomm[n] \in Links /\ AcceptorGood /\ acceptor \in Acceptors
      /\ LinkGood(n) /\ UNCHANGED <<policy, known, lan, joiner, acceptor, table>>
  BY DEF AuthInv, AuthTypes, LinksGood, Breaks
<1>2. PICK up \in {rfcomm[n].up, Silence}, down \in {rfcomm[n].down, Silence} :
         rfcomm' = [rfcomm EXCEPT ![n] = [rfcomm[n] EXCEPT !.open = FALSE, !.up = up, !.down = down]]
  <2>1. [rfcomm[n] EXCEPT !.open = FALSE] =
           [rfcomm[n] EXCEPT !.open = FALSE, !.up = rfcomm[n].up, !.down = rfcomm[n].down]
    BY <1>1 DEF Links
  <2>2. QED  BY <2>1 DEF Breaks
<1>3. up \in AuthMessages /\ down \in AuthMessages
  BY <1>1, AuthMessageFacts DEF Links
<1>4. PICK l \in Links : /\ l = [rfcomm[n] EXCEPT !.open = FALSE, !.up = up, !.down = down]
                         /\ l.open = FALSE /\ l.mode = rfcomm[n].mode /\ l.up = up /\ l.down = down
                         /\ l.said = rfcomm[n].said
  <2>1. \A x \in Links : /\ [x EXCEPT !.open = FALSE, !.up = up, !.down = down] \in Links
                         /\ [x EXCEPT !.open = FALSE, !.up = up, !.down = down].open = FALSE
                         /\ [x EXCEPT !.open = FALSE, !.up = up, !.down = down].mode = x.mode
                         /\ [x EXCEPT !.open = FALSE, !.up = up, !.down = down].up = up
                         /\ [x EXCEPT !.open = FALSE, !.up = up, !.down = down].down = down
                         /\ [x EXCEPT !.open = FALSE, !.up = up, !.down = down].said = x.said
    BY <1>3 DEF Links
  <2>2. QED  BY <1>1, <2>1
<1>5. rfcomm' \in [Connections -> Links] /\ rfcomm'[n] = l /\ \A k \in Connections \ {n} : rfcomm'[k] = rfcomm[k]
  BY <1>1, <1>2, <1>4
<1>6. HostTouches(n)
  BY <1>4, <1>5 DEF HostTouches
<1>7. LinkGood(n)'
  BY <1>1, <1>2, <1>4, <1>5, AuthMessageFacts DEF LinkGood
<1>8. AcceptorGood'
  <2>1. \A k \in Connections : /\ rfcomm'[k].mode = rfcomm[k].mode /\ rfcomm'[k].said = rfcomm[k].said
                               /\ rfcomm'[k].up.kind = "hello" => rfcomm[k].up.kind = "hello"
    BY <1>2, <1>4, <1>5, AuthMessageFacts
  <2>2. QED  BY <1>1, <2>1 DEF AcceptorGood, Theirs, Acceptors, Numbers
<1>9. QED  BY <1>1, <1>6, <1>7, <1>8, HostMoves

LEMMA SessionEnds == ASSUME AuthInv, NEW end \in Parties, LanEnds(end) PROVE AuthInv'
<1>1. /\ rfcomm \in [Connections -> Links] /\ table \in Tables /\ known \in [Parties -> Identities]
      /\ TableGood /\ SameSession /\ JoinerGood /\ AuthTypes
      /\ acceptor \in Acceptors /\ joiner \in Joiners /\ lan \in [Parties -> BOOLEAN]
      /\ UNCHANGED <<policy, known, acceptor>> /\ lan' = [lan EXCEPT ![end] = FALSE]
  BY DEF AuthInv, AuthTypes, LanEnds
<1>2. \A k \in Connections : k # 0
  BY BluetoothAuthAssumption
<1>3. lan' \in [Parties -> BOOLEAN] /\ lan'[end] = FALSE /\ \A p \in Parties : lan'[p] => lan[p]
  BY <1>1
<1>4. CASE end = Joiner
  <2>1. /\ joiner' = [Gone(joiner) EXCEPT !.bound = 0] /\ table' = table
        /\ rfcomm' = [n \in Connections |->
              [rfcomm[n] EXCEPT !.open = rfcomm[n].open /\ n \notin {joiner.id, joiner.bound}]]
    BY <1>4 DEF LanEnds
  <2>2. /\ rfcomm' \in [Connections -> Links]
        /\ \A n \in Connections : /\ rfcomm'[n].open <=> rfcomm[n].open /\ n \notin {joiner.id, joiner.bound}
                                  /\ rfcomm'[n].mode = rfcomm[n].mode /\ rfcomm'[n].up = rfcomm[n].up
                                  /\ rfcomm'[n].down = rfcomm[n].down /\ rfcomm'[n].said = rfcomm[n].said
    <3>1. PICK closed \in SUBSET Numbers : closed = {joiner.id, joiner.bound}
      BY <1>1 DEF Joiners
    <3>2. rfcomm' = [n \in Connections |-> [rfcomm[n] EXCEPT !.open = rfcomm[n].open /\ n \notin closed]]
      BY <2>1, <3>1
    <3>3. /\ rfcomm' \in [Connections -> Links]
          /\ \A n \in Connections : /\ rfcomm'[n].open <=> rfcomm[n].open /\ n \notin closed
                                    /\ rfcomm'[n].mode = rfcomm[n].mode /\ rfcomm'[n].up = rfcomm[n].up
                                    /\ rfcomm'[n].down = rfcomm[n].down /\ rfcomm'[n].said = rfcomm[n].said
      BY <1>1, <3>2, SomeClosed
    <3>4. QED  BY <3>1, <3>3
  <2>3. PICK j \in Joiners : /\ j = Gone(joiner) /\ j.id = 0 /\ j.candidate = joiner.candidate
                             /\ j.at \in {"rest", "over"}
    BY <1>1, GoneFacts
  <2>4. /\ joiner' \in Joiners /\ joiner'.id = 0 /\ joiner'.candidate = joiner.candidate
        /\ joiner'.bound = 0 /\ joiner'.at \in {"rest", "over"}
    BY <2>1, <2>3 DEF Joiners, Numbers
  <2>5. BothConsented' /\ AcceptorGood'
    BY <1>1, <2>1, <2>2, ClosingKeeps
  <2>6. JoinerGood' /\ SameSession'
    BY <2>4 DEF JoinerGood, SameSession
  <2>7. \A k \in Connections : InTable(k)' <=> InTable(k)
    BY <2>1 DEF InTable
  <2>8. LinksGood'
    BY <1>1, <2>1, <2>2, <2>7, ClosingLinks
  <2>9. TableGood'
    <3>1. \A i \in DOMAIN table.complete : table.complete[i].id \in Connections
      BY <1>1, CompletedIds
    <3>2. TemporaryStaysSecond'
      <4>1. table.primary \in Numbers
        BY <1>1 DEF Tables
      <4>2. QED  BY <1>1, <2>1, <2>2, <4>1 DEF TableGood, TemporaryStaysSecond, Numbers
    <3>3. \A n \in Connections : InTable(n)' => rfcomm'[n].mode # "none"
      BY <1>1, <2>2, <2>7 DEF TableGood
    <3>4. \A i \in DOMAIN table.complete :
             table.complete[i].trusted <=> rfcomm'[table.complete[i].id].mode = "trusted"
      BY <1>1, <2>2, <3>1 DEF TableGood
    <3>5. \A p \in Parties : lan'[p] => joiner'.candidate
      BY <1>1, <1>3, <2>4 DEF TableGood
    <3>6. (table.revoking => table.primary = 0 /\ table.attached = 0) /\ (table.attached # 0 => joiner'.candidate)
      BY <1>1, <2>4 DEF TableGood
    <3>7. QED  BY <2>1, <3>2, <3>3, <3>4, <3>5, <3>6 DEF TableGood
  <2>10. QED  BY <1>1, <1>3, <2>1, <2>2, <2>4, <2>5, <2>6, <2>8, <2>9 DEF AuthInv, AuthTypes
<1>5. CASE end # Joiner
  <2>1. /\ joiner' = joiner /\ table' = [table EXCEPT !.attached = 0] /\ rfcomm' = SessionsClosed(rfcomm)
        /\ end = Host
    BY <1>5, BothParties DEF LanEnds
  <2>2. /\ rfcomm' \in [Connections -> Links]
        /\ \A n \in Connections : /\ rfcomm'[n].open <=> rfcomm[n].open /\ n \notin {table.primary, table.attached}
                                  /\ rfcomm'[n].mode = rfcomm[n].mode /\ rfcomm'[n].up = rfcomm[n].up
                                  /\ rfcomm'[n].down = rfcomm[n].down /\ rfcomm'[n].said = rfcomm[n].said
    <3>1. PICK closed \in SUBSET Numbers : closed = {table.primary, table.attached}
      BY <1>1 DEF Tables
    <3>2. rfcomm' = [n \in Connections |-> [rfcomm[n] EXCEPT !.open = rfcomm[n].open /\ n \notin closed]]
      BY <2>1, <3>1 DEF SessionsClosed
    <3>3. /\ rfcomm' \in [Connections -> Links]
          /\ \A n \in Connections : /\ rfcomm'[n].open <=> rfcomm[n].open /\ n \notin closed
                                    /\ rfcomm'[n].mode = rfcomm[n].mode /\ rfcomm'[n].up = rfcomm[n].up
                                    /\ rfcomm'[n].down = rfcomm[n].down /\ rfcomm'[n].said = rfcomm[n].said
      BY <1>1, <3>2, SomeClosed
    <3>4. QED  BY <3>1, <3>3
  <2>3. /\ table' \in Tables /\ table'.primary = table.primary /\ table'.attached = 0
        /\ table'.revoking = table.revoking /\ table'.complete = table.complete
    BY <1>1, <2>1 DEF Tables, Numbers
  <2>4. lan'[Joiner] = lan[Joiner]
    BY <1>1, <1>5, BothParties
  <2>5. BothConsented' /\ AcceptorGood' /\ JoinerGood'
    BY <1>1, <2>1, <2>2, <2>4, ClosingKeeps
  <2>6. \A k \in Connections : InTable(k)' => InTable(k)
    BY <1>2, <2>3 DEF InTable
  <2>7. LinksGood'
    BY <2>2, <2>3, ClosingLinks DEF InTable
  <2>8. TableGood'
    <3>1. \A i \in DOMAIN table.complete : table.complete[i].id \in Connections
      BY <1>1, CompletedIds
    <3>2. TemporaryStaysSecond'
      <4>1. table.primary \in Numbers
        BY <1>1 DEF Tables
      <4>2. QED  BY <1>1, <2>2, <2>3, <4>1 DEF TableGood, TemporaryStaysSecond, Numbers
    <3>3. QED  BY <1>1, <1>3, <2>1, <2>2, <2>3, <2>6, <3>1, <3>2 DEF TableGood
  <2>9. SameSession'
    <3>1. /\ joiner.id \in Numbers /\ joiner.bound \in Numbers /\ (joiner.at = "session" => joiner.id # 0)
      BY <1>1 DEF Joiners, JoinerGood
    <3>2. QED  BY <1>1, <2>1, <2>2, <2>3, <2>4, <3>1 DEF SameSession, Mine, Numbers
  <2>10. QED  BY <1>1, <1>3, <2>1, <2>2, <2>3, <2>5, <2>7, <2>8, <2>9 DEF AuthInv, AuthTypes
<1>6. QED  BY <1>4, <1>5

LEMMA SessionReturns == ASSUME AuthInv, LanReturns PROVE AuthInv'
<1>1. /\ UNCHANGED <<policy, known, joiner, acceptor, table, rfcomm>> /\ joiner.candidate
      /\ lan' = [p \in Parties |-> TRUE]
  BY DEF LanReturns
<1>2. lan' \in [Parties -> BOOLEAN] /\ \A p \in Parties : lan'[p]
  BY <1>1
<1>3. lan'[Joiner]
  BY <1>2, BothParties
<1>4. JoinerGood' /\ TableGood'
  BY <1>1, <1>2, <1>3 DEF AuthInv, JoinerGood, Mine, TableGood, InTable, TemporaryStaysSecond
<1>5. SameSession'
  BY <1>1, <1>3 DEF AuthInv, SameSession, Mine
<1>6. QED  BY <1>1, <1>2, <1>4, <1>5 DEF AuthInv, AuthTypes, AcceptorGood, Theirs, LinksGood, LinkGood, InTable,
                                         BothConsented, Agreed

LEMMA AuthInitially == AuthInit => AuthInv
<1>1. SUFFICES ASSUME AuthInit PROVE AuthInv
  OBVIOUS
<1>2. PICK e \in Encounters :
         /\ policy.knew = e.knew /\ known = e.knew /\ lan = [p \in Parties |-> e.lan]
         /\ joiner = [Resting EXCEPT !.candidate = e.lan, !.named = e.named]
  <2>1. PICK e \in Encounters : AuthInit!(e)
    BY <1>1 DEF AuthInit
  <2>2. policy.knew = e.knew
    BY <2>1
  <2>3. QED  BY <2>1, <2>2
<1>3. /\ acceptor = Vacant /\ rfcomm = [n \in Connections |-> Unused]
      /\ table = [primary |-> 0, attached |-> 0, complete |-> <<>>, revoking |-> FALSE]
  BY <1>1 DEF AuthInit
<1>4. e.lan \in BOOLEAN /\ e.named \in BOOLEAN
  BY BluetoothAuthAssumption
<1>5. known \in [Parties -> Identities]
  <2>1. DOMAIN e.knew = Parties /\ e.knew = [p \in Parties |-> e.knew[p]]
    BY BluetoothAuthAssumption DEF Parties, Joiner, Host
  <2>2. \A p \in Parties : e.knew[p] \in Identities
    BY DEF Identities
  <2>3. QED  BY <1>2, <2>1, <2>2
<1>6. joiner \in Joiners /\ joiner.at = "rest" /\ joiner.id = 0 /\ joiner.bound = 0 /\ joiner.candidate = e.lan
  <2>1. PICK id \in Numbers, roots \in SUBSET Identities, sent \in AuthMessages, no \in BOOLEAN :
           id = 0 /\ roots = {} /\ sent = Silence /\ no = FALSE
    BY AuthMessageFacts DEF Numbers
  <2>2. Resting = [at |-> "rest", id |-> id, roots |-> roots, candidate |-> no, named |-> no, sent |-> sent,
                   bound |-> id, input |-> no]
    BY <2>1 DEF Resting
  <2>3. joiner = [at |-> "rest", id |-> id, roots |-> roots, candidate |-> e.lan, named |-> e.named, sent |-> sent,
                  bound |-> id, input |-> no]
    BY <1>2, <2>2
  <2>4. QED  BY <1>4, <2>1, <2>3 DEF Joiners
<1>7. table \in Tables /\ table.primary = 0 /\ table.attached = 0 /\ table.complete = <<>> /\ ~table.revoking
  BY <1>3 DEF Tables, Numbers
<1>8. Unused \in Links /\ Unused.open = FALSE /\ Unused.up = Silence /\ Unused.down = Silence
  <2>1. PICK m \in AuthMessages : m = Silence
    BY AuthMessageFacts
  <2>2. [p \in Parties |-> "nothing"] \in [Parties -> Consents \cup {"nothing"}]
    OBVIOUS
  <2>3. QED  BY <2>1, <2>2 DEF Unused, Links, Ways
<1>9. rfcomm \in [Connections -> Links] /\ \A n \in Connections : rfcomm[n] = Unused
  BY <1>3, <1>8
<1>10. AuthTypes
  BY <1>2, <1>3, <1>4, <1>5, <1>6, <1>7, <1>9, VacantFacts DEF AuthTypes
<1>11. JoinerGood /\ AcceptorGood
  BY <1>3, <1>6, VacantFacts DEF JoinerGood, AcceptorGood
<1>12. \A n \in Connections : ~InTable(n)
  BY <1>7, BluetoothAuthAssumption DEF InTable
<1>13. TableGood
  BY <1>2, <1>4, <1>6, <1>7, <1>12 DEF TableGood, TemporaryStaysSecond
<1>14. LinksGood
  BY <1>8, <1>9, AuthMessageFacts DEF LinksGood, LinkGood
<1>15. BothConsented /\ SameSession
  BY <1>2, <1>6 DEF BothConsented, SameSession
<1>16. QED  BY <1>10, <1>11, <1>13, <1>14, <1>15 DEF AuthInv

\* Two devices that authorize each other over Bluetooth: each remembers the other only after
\* both users agreed on one connection, a user is asked only in its turn, a temporary identity
\* never begins a primary session, and both ends have the same session.
THEOREM AuthorizationHolds == AuthSpec => []AuthorizationIsTrue
<1>1. AuthInit => AuthInv
  BY AuthInitially
<1>2. ASSUME AuthInv, [AuthNext]_authVars PROVE AuthInv'
  <2>1. CASE UNCHANGED authVars
    BY <1>2, <2>1 DEF authVars, AuthInv, AuthTypes, JoinerGood, Mine, AcceptorGood, Theirs, TableGood, LinksGood,
                      LinkGood, InTable, TemporaryStaysSecond, BothConsented, Agreed, SameSession
  <2>2. CASE AuthNext
    <3>1. CASE JoinerSteps \/ (\E says \in Consents : JoinerAnswers(says))
                           \/ \E saved \in BOOLEAN : JoinerReady(saved)
      BY <1>2, <3>1, JoinersStep
    <3>2. CASE HostSteps0
      <4>1. CASE HostFails
        BY <1>2, <4>1, HostEnds
      <4>2. CASE ~HostFails
        BY <1>2, <3>2, <4>2, HostBegins, HostIsAsked, HostAdmits, HostForgets, HostRevokes DEF HostSteps0
      <4>3. QED  BY <4>1, <4>2
    <3>3. CASE \E n \in Connections : Accept(n) \/ Breaks(n)
      BY <1>2, <3>3, HostListens, LinkBreaks
    <3>4. CASE \E says \in Consents : HostAnswers(says)
      BY <1>2, <3>4, HostDecides
    <3>5. CASE \E saved \in BOOLEAN : Confirmed(saved)
      BY <1>2, <3>5, HostEnds
    <3>6. CASE \E end \in Parties : LanEnds(end)
      BY <1>2, <3>6, SessionEnds
    <3>7. CASE OtherPairs \/ LanReturns
      BY <1>2, <3>7, OthersPair, SessionReturns
    <3>8. QED  BY <2>2, <3>1, <3>2, <3>3, <3>4, <3>5, <3>6, <3>7 DEF AuthNext, Consents
  <2>3. QED  BY <1>2, <2>1, <2>2
<1>3. AuthInv => AuthorizationIsTrue
  <2>1. SUFFICES ASSUME AuthInv PROVE AskedInTurn
    BY DEF AuthInv, TableGood, AuthorizationIsTrue
  <2>2. joiner.at = "prompt" => ~joiner.candidate /\ Mine.said[Host] \in {"yes", "remember"}
    <3>1. joiner.at = "prompt" => joiner.id # 0
      BY <2>1 DEF AuthInv, JoinerGood
    <3>2. Mine.mode # "trusted" => ~(joiner.candidate /\ joiner.id # 0)
      BY <2>1 DEF AuthInv, JoinerGood
    <3>3. QED  BY <2>1, <3>1, <3>2 DEF AuthInv, JoinerGood
  <2>3. QED  BY <2>1, <2>2 DEF AuthInv, AcceptorGood, AskedInTurn
<1>4. QED  BY <1>1, <1>2, <1>3, PTL DEF AuthSpec
=============================================================================
