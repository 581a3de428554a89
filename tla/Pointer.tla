------------------------------- MODULE Pointer -------------------------------
(***************************************************************************)
(* The mouse pointer over two desks (input/geometry.rs, the motion of      *)
(* input/runtime.rs).  The pointer of the sender leaves its desk at an     *)
(* edge, at a position that is a fraction of the exposed length of that    *)
(* edge; it enters the desk of the receiver at the same fraction of the    *)
(* opposite edge, follows the motion sent, and when it leaves there again  *)
(* is put back at the fraction the receiver names.  Motion is gathered     *)
(* before it is sent and again by the reader of the receiver; buttons go   *)
(* past both.  Who is in control, and what is pressed, is InputControl;    *)
(* how the hooks gather motion is WindowsHooks and MacInput.               *)
(* Displays do not overlap and are wider than the inset.                   *)
(***************************************************************************)
EXTENDS Integers, Sequences, FiniteSets, SequencesExt

CONSTANTS Here, There,     \* the displays of the sender and of the receiver
          Crossing,        \* the edge of the sender that leads to the receiver
          Inset,           \* EDGE_INSET (8)
          Shoves,          \* moves of the mouse
          Openings,        \* where the pointers are in the beginning, which system reports
                           \* what, and how much has happened
          LoopRoom,        \* of the queue to the loop of the receiver (256)
          WireRoom,        \* bound: messages on the way to the reader
          MaxShoves,       \* bound: moves and presses
          MaxCrossings,    \* bound: activations
          MaxSurprises     \* bound: games, secure desktops, hotkeys

Axes == {"x", "y"}
Points == [Axes -> Int]
Edges == [axis : Axes, high : BOOLEAN]
Desks == SUBSET [Axes -> [from : Int, to : Int]]

-----------------------------------------------------------------------------
(* Displays, edges and positions.                                          *)

Within(d, p) == \A a \in Axes : d[a].from <= p[a] /\ p[a] < d[a].to
OnDesk(desk, p) == \E d \in desk : Within(d, p)

NoPoint == [none |-> TRUE]
NoDisplay == NoPoint

ASSUME PointerAssumption ==
    /\ {Here, There} \subseteq Desks /\ Crossing \in Edges /\ Inset \in Nat
    /\ \A d \in Here \cup There : /\ \A a \in Axes : d[a].from < d[a].to
                                  /\ d[Crossing.axis].to - d[Crossing.axis].from > Inset
    /\ Shoves \subseteq Points
    /\ Openings \subseteq [here : {p \in Points : OnDesk(Here, p)},
                          there : {p \in Points : OnDesk(There, p)}, raw : BOOLEAN, game : BOOLEAN,
                          primary : There \cup {NoDisplay}, happened : [shoves : Nat, surprises : Nat]]
    /\ {WireRoom, MaxShoves, MaxCrossings, MaxSurprises} \subseteq Nat /\ LoopRoom \in Nat \ {0}

Opposite(e) == [e EXCEPT !.high = ~@]
Along(e) == IF e.axis = "x" THEN "y" ELSE "x"
Shift(p, m) == [a \in Axes |-> p[a] + m[a]]
Magnitude(n) == IF n < 0 THEN -n ELSE n

\* The line where a display ends, its last pixel before it, the first one after it.
Line(d, e) == IF e.high THEN d[e.axis].to ELSE d[e.axis].from
Border(d, e) == IF e.high THEN d[e.axis].to - 1 ELSE d[e.axis].from
Outside(d, e) == IF e.high THEN d[e.axis].to ELSE d[e.axis].from - 1

\* Another display lies beyond the edge of d at i.
Covered(desk, d, e, i) ==
    \E c \in desk :
        /\ c[e.axis].from <= Outside(d, e) /\ Outside(d, e) < c[e.axis].to
        /\ c[e.axis].from # d[e.axis].from
        /\ c[Along(e)].from <= i /\ i < c[Along(e)].to

\* The pixels of the exposed edge, each of its display (outer_edge_segments).
Places(desk, e) ==
    UNION {{[of |-> d, at |-> i] :
                i \in {j \in d[Along(e)].from .. d[Along(e)].to - 1 : ~Covered(desk, d, e, j)}} :
           d \in desk}

\* The segment of a place: the run of exposed pixels it is in.
SegmentFrom(desk, e, s) ==
    CHOOSE i \in s.of[Along(e)].from .. s.at :
        /\ \A j \in i .. s.at : ~Covered(desk, s.of, e, j)
        /\ i = s.of[Along(e)].from \/ Covered(desk, s.of, e, i - 1)
SegmentTo(desk, e, s) ==
    CHOOSE i \in s.at + 1 .. s.of[Along(e)].to :
        /\ \A j \in s.at .. i - 1 : ~Covered(desk, s.of, e, j)
        /\ i = s.of[Along(e)].to \/ Covered(desk, s.of, e, i)

\* Segments are in order of where they begin, end and lie.  That neighbours are
\* merged changes no position.
InOrder(u, v) ==
    \E n \in 1 .. Len(u) : u[n] < v[n] /\ \A k \in 1 .. n - 1 : u[k] = v[k]
Key(desk, e, s) == <<SegmentFrom(desk, e, s), SegmentTo(desk, e, s), Line(s.of, e), s.at>>
Index(desk, e, s) ==
    Cardinality({r \in Places(desk, e) : InOrder(Key(desk, e, r), Key(desk, e, s))})
Extent(desk, e) == Cardinality(Places(desk, e))

\* The first of some places, and its position, 0 where there is none.
First(desk, e, hits) ==
    CHOOSE s \in hits : \A r \in hits : Index(desk, e, s) <= Index(desk, e, r)
PositionOf(desk, e, hits) ==
    [at |-> IF hits = {} THEN 0 ELSE Index(desk, e, First(desk, e, hits)), of |-> Extent(desk, e)]

\* The point of a place.
OnEdge(e, s) == [a \in Axes |-> IF a # e.axis THEN s.at ELSE Border(s.of, e)]

\* normalized_edge_position, for a point on the edge give or take two pixels.
EdgePosition(desk, e, p) ==
    PositionOf(desk, e, {s \in Places(desk, e) :
                            s.at = p[Along(e)] /\ Magnitude(p[e.axis] - Border(s.of, e)) <= 2})

\* edge_position, for a point anywhere on a display.
InnerPosition(desk, e, p) ==
    PositionOf(desk, e, {s \in Places(desk, e) :
        s.at = p[Along(e)] /\ \E d \in desk : Within(d, p) /\ Line(d, e) = Line(s.of, e)})

\* is_jump_zone_point, for a zone of one pixel.
JumpZone(desk, e, p) ==
    \E s \in Places(desk, e) :
        /\ s.at = p[Along(e)]
        /\ IF e.high THEN p[e.axis] >= Line(s.of, e) - 1 ELSE p[e.axis] < Line(s.of, e) + 1

\* crossing_coordinate: where a move from p meets the line, halves away from zero.
Rounded(n, d) ==
    LET q == (2 * Magnitude(n) + Magnitude(d)) \div (2 * Magnitude(d)) IN IF (n < 0) = (d < 0) THEN q ELSE -q
MeetsAt(e, p, m, line) ==
    Rounded(p[Along(e)] * m[e.axis] + m[Along(e)] * (line - p[e.axis]), m[e.axis])

\* crossed_outer_edge_position: none, or the position where the move leaves the desk.
Leaves(desk, e, p, m) ==
    LET passed == {s \in Places(desk, e) :
            IF e.high
            THEN m[e.axis] > 0 /\ p[e.axis] < Line(s.of, e) /\ Line(s.of, e) <= p[e.axis] + m[e.axis]
            ELSE m[e.axis] < 0 /\ p[e.axis] >= Line(s.of, e) /\ Line(s.of, e) > p[e.axis] + m[e.axis]}
        met == {s \in passed : s.at = MeetsAt(e, p, m, Line(s.of, e))}
    IN IF met = {} THEN {} ELSE {EdgePosition(desk, e, OnEdge(e, First(desk, e, met)))}

\* clamp_point, and move_within_layout: of the displays equally near it takes the
\* first of its list.
Clamp(p, d) ==
    [a \in Axes |-> IF p[a] < d[a].from THEN d[a].from ELSE IF p[a] >= d[a].to THEN d[a].to - 1 ELSE p[a]]
Distance(p, q) == (p["x"] - q["x"]) * (p["x"] - q["x"]) + (p["y"] - q["y"]) * (p["y"] - q["y"])
MoveWithin(desk, p, m) ==
    LET target == Shift(p, m) IN
    {Clamp(target, d) :
        d \in {c \in desk : \A b \in desk :
                  Distance(target, Clamp(target, c)) <= Distance(target, Clamp(target, b))}}

\* A position is a single-precision fraction.  Scaled to another edge and cut off it
\* is the index below, one less where the index is exact, one more where that is
\* nearer than the precision.
SameAs(position, n, i) ==
    /\ i * position.of >= position.at * n - position.of
    /\ i * position.of < position.at * n + position.of

\* point_inside_edge
Inside(e, s) ==
    [a \in Axes |-> IF a # e.axis THEN s.at
                    ELSE IF e.high THEN Line(s.of, e) - Inset - 1 ELSE Line(s.of, e) + Inset]
Entries(desk, e, position) ==
    {Inside(e, s) : s \in {r \in Places(desk, e) :
                              SameAs(position, Extent(desk, e), Index(desk, e, r))}}

-----------------------------------------------------------------------------
VARIABLES
    here, there, \* the pointers as the two systems have them
    sample,      \* motion gathered at the sender, and the point last reported
    raw,         \* the hook reports points before the system keeps them on the desk
    presses,      \* buttons reported, not yet taken
    leader,      \* the loop of the sender
    wire, back,  \* messages to the reader of the receiver, and to the sender
    reader,      \* motion gathered at the receiver, and a message that waits for room
    queue,       \* from the reader to the loop
    follower,    \* the loop of the receiver
    trip,        \* history of this activation
    happened        \* how often what is bounded happened

pointerVars == <<here, there, sample, raw, presses, leader, wire, back, reader, queue, follower,
                 trip, happened>>

Stays == [a \in Axes |-> 0]
\* Motion: how far, and of how many messages.
NoMotion == [by |-> Stays, n |-> 0]
Plus(u, v) == [by |-> Shift(u.by, v.by), n |-> u.n + v.n]

Start0 == [at |-> 0, of |-> 1]
\* The option cursor_mode may begin in a game.  The backend names the primary display
\* from the beginning, or not before the secure desktop.
PointerInit ==
    \E o \in Openings :
        /\ here = o.here /\ there = o.there /\ raw = o.raw /\ happened = o.happened
        /\ sample = [by |-> Stays, at |-> NoPoint] /\ presses = 0
        /\ leader = [gen |-> 0, active |-> FALSE, cooling |-> FALSE, armed |-> Start0, over |-> FALSE]
        /\ wire = <<>> /\ back = <<>> /\ queue = <<>>
        /\ reader = [gen |-> 0, gathered |-> NoMotion, holds |-> <<>>]
        /\ follower = [gen |-> 0, active |-> FALSE, cursor |-> NoPoint, game |-> o.game,
                       secure |-> FALSE, primary |-> o.primary, idle |-> FALSE, over |-> FALSE]
        /\ trip = [sent |-> NoMotion, moved |-> NoMotion, left |-> Start0, straight |-> FALSE,
                   back |-> FALSE, loose |-> {}, early |-> FALSE]

Count(what, bound) == happened[what] < bound /\ happened' = [happened EXCEPT ![what] = @ + 1]
Surprise == Count("surprises", MaxSurprises)
LeaderTurn == ~leader.over /\ UNCHANGED <<raw, reader, queue>>
FollowerTurn == ~follower.over /\ UNCHANGED <<here, sample, raw, presses, leader, wire>>

-----------------------------------------------------------------------------
(* The user and the hooks of the sender.  A captured pointer stays where   *)
(* it is.                                                                  *)

Push(m) ==
    /\ Count("shoves", MaxShoves) /\ ~leader.over
    /\ IF leader.active
       THEN UNCHANGED here /\ sample' = [sample EXCEPT !.by = Shift(@, m)]
       ELSE /\ here' \in MoveWithin(Here, here, m)
            /\ sample' = [by |-> Shift(sample.by, m), at |-> IF raw THEN Shift(here, m) ELSE here']
    /\ trip' = IF leader.active THEN trip ELSE [trip EXCEPT !.back = FALSE]
    /\ UNCHANGED <<there, raw, presses, leader, wire, back, reader, queue, follower>>

Click ==
    /\ Count("shoves", MaxShoves) /\ ~leader.over
    /\ presses' = presses + 1
    /\ UNCHANGED <<here, there, sample, raw, leader, wire, back, reader, queue, follower, trip>>

-----------------------------------------------------------------------------
(* The loop of the sender (run_sender_with_activity).                      *)

\* sender_activation_edge_position
Activation(p, m) ==
    IF JumpZone(Here, Crossing, p) THEN {EdgePosition(Here, Crossing, p)} ELSE Leaves(Here, Crossing, p, m)

\* The pointer is at the edge: capture, and tell the receiver where.
Activate(position) ==
    /\ leader.gen < MaxCrossings
    /\ leader' = [leader EXCEPT !.gen = @ + 1, !.active = TRUE, !.armed = position]
    /\ wire' = Append(wire, [kind |-> "activate", gen |-> leader.gen + 1, position |-> position])
    /\ trip' = [trip EXCEPT !.sent = NoMotion, !.left = position, !.straight = TRUE, !.back = FALSE]

\* motion_tick.  While it cools down after a return, motion is thrown away.
TakeSample ==
    /\ LeaderTurn /\ Len(wire) < WireRoom
    /\ sample' = [by |-> Stays, at |-> NoPoint]
    /\ IF leader.active
       THEN /\ sample.by # Stays
            /\ wire' = Append(wire, [kind |-> "motion", gen |-> leader.gen,
                                     motion |-> [by |-> sample.by, n |-> 1]])
            /\ trip' = [trip EXCEPT !.sent = Plus(@, [by |-> sample.by, n |-> 1])]
            /\ UNCHANGED leader
       ELSE /\ sample.by # Stays \/ sample.at # NoPoint
            /\ LET reached == IF leader.cooling THEN {}
                              ELSE Activation(IF sample.at # NoPoint THEN sample.at ELSE here, sample.by)
               IN IF reached = {} THEN UNCHANGED <<leader, wire, trip>>
                  ELSE \E position \in reached : Activate(position)
    /\ UNCHANGED <<here, there, presses, back, follower, happened>>

\* A button does not wait for the motion before it.
PassClick ==
    /\ LeaderTurn /\ presses > 0 /\ Len(wire) < WireRoom
    /\ presses' = presses - 1
    /\ wire' = IF leader.active
               THEN Append(wire, [kind |-> "button", gen |-> leader.gen, after |-> trip.sent.n])
               ELSE wire
    /\ UNCHANGED <<here, there, sample, leader, back, follower, trip, happened>>

\* SenderControl::deactivate
Home == [leader EXCEPT !.active = FALSE, !.cooling = TRUE]

\* The receiver asks for the return, or has ended control; recover_at puts the
\* pointer where it says.
LeaderHears ==
    /\ LeaderTurn /\ back # <<>>
    /\ back' = Tail(back)
    /\ LET m == Head(back) IN
       IF leader.active /\ m.gen = leader.gen
       THEN /\ m.kind = "ask" => Len(wire) < WireRoom
            /\ wire' = IF m.kind = "ask" THEN Append(wire, [kind |-> "return", gen |-> m.gen]) ELSE wire
            /\ here' \in Entries(Here, Crossing, m.position)
            /\ leader' = Home
            /\ trip' = [trip EXCEPT !.back = (m.kind = "ask" /\ m.straight)]
       ELSE UNCHANGED <<here, wire, leader, trip>>
    /\ UNCHANGED <<there, sample, presses, follower, happened>>

Cooled ==
    /\ LeaderTurn /\ leader.cooling
    /\ leader' = [leader EXCEPT !.cooling = FALSE]
    /\ UNCHANGED <<here, there, sample, presses, wire, back, follower, trip, happened>>

\* The hotkey, or a substream that ends: SenderRecoveryGuard puts the pointer where
\* it left.
LeaderEnds ==
    /\ LeaderTurn /\ Surprise
    /\ IF leader.active THEN here' \in Entries(Here, Crossing, leader.armed) ELSE UNCHANGED here
    /\ wire' = IF leader.active THEN Append(wire, [kind |-> "deactivate", gen |-> leader.gen]) ELSE wire
    /\ leader' = [Home EXCEPT !.over = TRUE]
    /\ UNCHANGED <<there, sample, presses, back, follower, trip>>

-----------------------------------------------------------------------------
(* The reader of the receiver (spawn_input_reader, IncomingMotion).        *)

\* Mutant: only the latest motion is kept.
GatherLatest(r, gen, motion) == [r EXCEPT !.gen = gen, !.gathered = motion]

\* IncomingMotion::push
Gather(r, gen, motion) ==
    IF r.gen = gen THEN [r EXCEPT !.gathered = Plus(@, motion)]
    ELSE [r EXCEPT !.gen = gen, !.gathered = motion]
Emptied == [reader EXCEPT !.gen = 0, !.gathered = NoMotion]

ReaderTurn ==
    UNCHANGED <<here, there, sample, raw, presses, leader, back, follower, happened>>

\* Mutant: the motion before a button is left for the timer.
ReadPast ==
    /\ ReaderTurn /\ wire # <<>> /\ reader.holds = <<>>
    /\ wire' = Tail(wire)
    /\ reader' = IF Head(wire).kind = "motion" THEN Gather(reader, Head(wire).gen, Head(wire).motion)
                 ELSE [reader EXCEPT !.holds = <<Head(wire)>>]
    /\ UNCHANGED <<queue, trip>>

\* Motion is added up.  Anything else sends it ahead, if there is room for it.
ReadOn ==
    /\ ReaderTurn /\ wire # <<>> /\ reader.holds = <<>>
    /\ wire' = Tail(wire)
    /\ LET m == Head(wire) IN
       IF m.kind = "motion"
       THEN reader' = Gather(reader, m.gen, m.motion) /\ UNCHANGED <<queue, trip>>
       ELSE IF reader.gen = 0
       THEN reader' = [reader EXCEPT !.holds = <<m>>] /\ UNCHANGED <<queue, trip>>
       ELSE IF Len(queue) < LoopRoom
       THEN /\ queue' = Append(queue, [kind |-> "motion", gen |-> reader.gen, motion |-> reader.gathered])
            /\ reader' = [Emptied EXCEPT !.holds = <<m>>]
            /\ UNCHANGED trip
       ELSE /\ reader' = [reader EXCEPT !.holds = <<m>>]
            /\ trip' = [trip EXCEPT !.loose = @ \cup {reader.gen}]
            /\ UNCHANGED queue

\* tx.send waits for room.
Deliver ==
    /\ ReaderTurn /\ reader.holds # <<>> /\ Len(queue) < LoopRoom
    /\ queue' = queue \o reader.holds
    /\ reader' = [reader EXCEPT !.holds = <<>>]
    /\ UNCHANGED <<wire, trip>>

-----------------------------------------------------------------------------
(* The loop of the receiver (run_receiver_with_activity).                  *)

Away == Opposite(Crossing)
Clamped(p, display) == IF display = NoDisplay THEN p ELSE Clamp(p, display)

Asks(f, position) ==
    back' = Append(back, [kind |-> "ask", gen |-> f.gen, position |-> position, straight |-> trip.straight])

\* In a game the motion is injected as it is; otherwise the pointer is moved, and asks
\* to go home when it leaves by the edge it came in.  Without a pointer to move the
\* substream ends.
ApplyMotion(motion) ==
    /\ IF follower.game
       THEN /\ there' \in {there} \cup MoveWithin(There, there, motion.by)
            /\ trip' = [trip EXCEPT !.moved = Plus(@, motion), !.straight = FALSE]
            /\ follower' = [follower EXCEPT !.idle = FALSE] /\ UNCHANGED back
       ELSE IF follower.cursor = NoPoint
       THEN /\ follower' = [follower EXCEPT !.active = FALSE, !.over = TRUE]
            /\ UNCHANGED <<there, back, trip>>
       ELSE \E target \in MoveWithin(There, follower.cursor, motion.by) :
            LET out == Leaves(There, Away, follower.cursor, motion.by)
                point == IF out = {} THEN Clamped(target, follower.primary) ELSE target
            IN /\ there' = point
               /\ follower' = [follower EXCEPT !.cursor = point, !.idle = FALSE]
               /\ trip' = [trip EXCEPT !.moved = Plus(@, motion),
                               !.straight = @ /\ point[Along(Away)] = follower.cursor[Along(Away)]]
               /\ IF out = {} THEN UNCHANGED back ELSE \E position \in out : Asks(follower, position)

\* A newer activation: the pointer is placed at the edge, unless a game holds it or
\* the secure desktop is up.  A game in front may keep it from being placed.
TakeOver(m) ==
    LET f == [follower EXCEPT !.gen = m.gen, !.active = TRUE, !.idle = FALSE] IN
    /\ trip' = [trip EXCEPT !.moved = NoMotion, !.straight = @ /\ ~follower.game /\ ~follower.secure]
    /\ \/ follower.game /\ follower' = f /\ UNCHANGED there
       \/ /\ ~follower.game /\ follower.secure /\ UNCHANGED there
          /\ \E p \in {there} \cup Entries(There, Away, m.position) :
                follower' = [f EXCEPT !.cursor = Clamped(p, follower.primary)]
       \/ /\ ~follower.game /\ ~follower.secure
          /\ there' \in Entries(There, Away, m.position)
          /\ follower' = [f EXCEPT !.cursor = there']
       \/ /\ ~follower.game /\ ~follower.secure /\ UNCHANGED there
          /\ follower' = [f EXCEPT !.game = TRUE]

Freed == [follower EXCEPT !.active = FALSE, !.cursor = NoPoint, !.idle = FALSE]
Woken == [follower EXCEPT !.idle = FALSE]

FollowerHears ==
    /\ FollowerTurn /\ queue # <<>>
    /\ queue' = Tail(queue)
    /\ LET m == Head(queue)
           mine == follower.active /\ m.gen = follower.gen
       IN \/ m.kind = "activate" /\ m.gen > follower.gen /\ TakeOver(m) /\ UNCHANGED back
          \/ m.kind = "motion" /\ mine /\ ApplyMotion(m.motion)
          \/ /\ m.kind = "button" /\ mine
             /\ trip' = [trip EXCEPT !.early = @ \/ (m.after > trip.moved.n /\ m.gen \notin trip.loose)]
             /\ follower' = Woken /\ UNCHANGED <<there, back>>
          \/ /\ \/ m.kind = "deactivate" /\ m.gen = follower.gen
                \/ m.kind = "return" /\ mine
             /\ follower' = Freed /\ UNCHANGED <<there, back, trip>>
          \/ /\ IF m.kind = "activate" THEN m.gen <= follower.gen
                ELSE IF m.kind = "deactivate" THEN m.gen # follower.gen ELSE ~mine
             /\ follower' = Woken /\ UNCHANGED <<there, back, trip>>
    /\ UNCHANGED <<reader, happened>>

\* The branches are polled in order: the timer of motion only after an empty queue,
\* which the reader may fill in between.  Motion may then be taken before the activation
\* it belongs to, and is thrown away.
FindsNothing ==
    /\ FollowerTurn /\ queue = <<>> /\ ~follower.idle
    /\ follower' = [follower EXCEPT !.idle = TRUE]
    /\ UNCHANGED <<there, back, reader, queue, trip, happened>>

FollowerTicks ==
    /\ FollowerTurn /\ follower.idle /\ reader.gen # 0
    /\ reader' = Emptied
    /\ IF follower.active /\ reader.gen = follower.gen
       THEN ApplyMotion(reader.gathered)
       ELSE /\ follower' = Woken
            /\ trip' = IF queue = <<>> THEN trip ELSE [trip EXCEPT !.loose = @ \cup {reader.gen}]
            /\ UNCHANGED <<there, back>>
    /\ UNCHANGED <<queue, happened>>

\* The point the system says, or the old one where it does not say.
Anchors(f) ==
    IF f.active THEN {[f EXCEPT !.cursor = there], f} ELSE {f}

\* monitor_tick: a game takes or frees the pointer.
Monitor ==
    /\ FollowerTurn /\ Surprise
    /\ follower' \in IF follower.game THEN Anchors([Woken EXCEPT !.game = FALSE])
                     ELSE {[Woken EXCEPT !.game = TRUE]}
    /\ trip' = [trip EXCEPT !.straight = FALSE]
    /\ UNCHANGED <<there, back, reader, queue>>

\* NativeEvent::SecureDesktop
Secure ==
    /\ FollowerTurn /\ Surprise
    /\ IF follower.secure
       THEN LET f == [Woken EXCEPT !.secure = FALSE, !.primary = NoDisplay]
            IN follower' \in IF f.cursor = NoPoint THEN {f} ELSE Anchors(f)
       ELSE \E primary \in There \cup {NoDisplay} :
               follower' = [Woken EXCEPT !.secure = TRUE, !.primary = primary,
                                        !.cursor = IF @ = NoPoint THEN @ ELSE Clamped(@, primary)]
    /\ trip' = [trip EXCEPT !.straight = FALSE]
    /\ UNCHANGED <<there, back, reader, queue>>

\* The hotkey at the receiver.  Without a pointer it names no position, and the sender
\* takes the one it kept.
FollowerEnds ==
    /\ FollowerTurn /\ Surprise
    /\ back' = IF follower.active
               THEN Append(back, [kind |-> "deactivate", gen |-> follower.gen,
                                  position |-> IF follower.cursor = NoPoint THEN leader.armed
                                               ELSE InnerPosition(There, Away, follower.cursor)])
               ELSE back
    /\ follower' = [Freed EXCEPT !.over = TRUE]
    /\ UNCHANGED <<there, reader, queue, trip>>

PointerNext ==
    \/ \E m \in Shoves : Push(m)
    \/ Click
    \/ TakeSample \/ PassClick \/ LeaderHears \/ Cooled \/ LeaderEnds
    \/ ReadOn \/ Deliver
    \/ FollowerHears \/ FindsNothing \/ FollowerTicks \/ Monitor \/ Secure \/ FollowerEnds

PointerSpec == PointerInit /\ [][PointerNext]_pointerVars

-----------------------------------------------------------------------------
PointerTypeOK ==
    /\ here \in Points /\ there \in Points
    /\ sample \in [by : Points, at : Points \cup {NoPoint}]
    /\ leader.gen \in Nat /\ leader.active \in BOOLEAN
    /\ trip.sent.by \in Points /\ reader.gathered.by \in Points
    /\ follower.gen \in Nat /\ follower.cursor \in Points \cup {NoPoint}
    /\ follower.primary \in There \cup {NoDisplay}

\* Both pointers, and the one the receiver reckons with, are on a display.
PointersOnDesk ==
    /\ OnDesk(Here, here) /\ OnDesk(There, there)
    /\ follower.cursor # NoPoint => OnDesk(There, follower.cursor)

Travelling(messages, gen) ==
    FoldLeft(LAMBDA sum, m : IF m.kind = "motion" /\ m.gen = gen THEN Plus(sum, m.motion) ELSE sum,
             NoMotion, messages)

\* While the receiver is controlled, all the motion sent has been applied or is on its
\* way: none is lost where motion is added up, put back or sent ahead, unless the timer
\* took it before the activation.
MotionKept ==
    leader.active /\ ~follower.over /\ leader.gen \notin trip.loose
    /\ (follower.gen = leader.gen => follower.active) =>
        trip.sent = Plus(Plus(IF follower.gen = leader.gen THEN trip.moved ELSE NoMotion,
                              IF reader.gen = leader.gen THEN reader.gathered ELSE NoMotion),
                         Plus(Travelling(wire, leader.gen), Travelling(queue, leader.gen)))

\* A button acts no sooner than the motion sent before it, unless the queue of the
\* receiver was full or the timer took that motion out of turn.
ButtonsInPlace == ~trip.early

\* A pointer that goes straight back comes back within a pixel of either desk of where
\* it left, and not where it would leave at once.
ComesBack ==
    trip.back =>
        /\ Magnitude(InnerPosition(Here, Crossing, here).at - trip.left.at) * Extent(There, Away)
               <= Extent(Here, Crossing) + Extent(There, Away)
        /\ ~JumpZone(Here, Crossing, here)

\* What the pointer is promised: both lie on their desks, motion and buttons arrive as
\* they were made, and the way there leads back.
PointerIsTrue == PointerTypeOK /\ PointersOnDesk /\ MotionKept /\ ButtonsInPlace /\ ComesBack

-----------------------------------------------------------------------------
(* What the code does not keep.                                            *)

\* Only the outermost pixel of a desk is the jump zone.  Where the display in the
\* middle of three begins lower than its neighbours, the near one's edge is exposed
\* above it, and everything beyond that edge counts.
JumpZoneIsOutermost ==
    \A d \in Here :
        \A i \in d["x"].from .. d["x"].to - 1, j \in d["y"].from .. d["y"].to - 1 :
            LET p == [a \in Axes |-> IF a = "x" THEN i ELSE j] IN
            JumpZone(Here, Crossing, p) =>
                \E s \in Places(Here, Crossing) :
                    s.at = p[Along(Crossing)] /\ p[Crossing.axis] = Border(s.of, Crossing)

\* Where the pointer leaves does not depend on how far beyond the edge it is reported,
\* three pixels for one.
FarIsNear ==
    \A s \in Places(Here, Crossing), far \in 0 .. 3 :
        LET p == [a \in Axes |-> IF a # Crossing.axis THEN s.at
                                 ELSE IF Crossing.high THEN Border(s.of, Crossing) + far
                                 ELSE Border(s.of, Crossing) - far]
        IN EdgePosition(Here, Crossing, p).at = Index(Here, Crossing, s)

\* The pointer is kept to the primary display only while the secure desktop is up.
PrimaryIsForSecure == follower.primary # NoDisplay => follower.secure

\* While the secure desktop is up the receiver does not ask for the return.
SecureStays ==
    [][Len(back') > Len(back) /\ Last(back').kind = "ask" => ~follower.secure]_pointerVars

\* A button does not pass the motion made before it.
ButtonsWait == [][PassClick /\ leader.active => sample.by = Stays]_pointerVars
=============================================================================
