-------------------------------- MODULE Mux --------------------------------
(***************************************************************************)
(* The packet multiplexer of one carrier (transport/mux.rs): three lanes   *)
(* share one ordered byte stream. Each side runs a scheduler, which alone  *)
(* writes packets and owns the sending credits, a receive task, which alone*)
(* reads packets, and one delivery task per lane. They meet in the bounded *)
(* event queue. A fragment is one DATA packet; its bytes are abstracted.   *)
(***************************************************************************)
EXTENDS Naturals, Sequences, FiniteSets

CONSTANTS
    UsedLanes,    \* the lanes in use, of "control", "input" and "clipboard"
    W,            \* WINDOW_PACKETS
    Burst,        \* PRIORITY_BURST
    WireCapacity, \* packets the carrier buffers before a write blocks
    Load,         \* Load[s][l]: fragments the application of s writes to lane l
    Served,       \* Served[s]: the lanes whose application at s keeps reading
    Closing       \* Closing[s]: the lanes whose application at s shuts its half

Sides == {"host", "client"}
Peer(s) == IF s = "host" THEN "client" ELSE "host"

ASSUME MuxAssumption ==
    /\ UsedLanes \subseteq {"control", "input", "clipboard"}
    /\ W \in Nat \ {0}
    /\ Burst \in Nat \ {0}
    /\ WireCapacity \in Nat \ {0}
    /\ Load \in [Sides -> [UsedLanes -> Nat]]
    /\ Served \in [Sides -> SUBSET UsedLanes]
    /\ Closing \in [Sides -> SUBSET UsedLanes]

EventCapacity == W * 3 * 2

Packet(l, k) == [lane |-> l, kind |-> k]
NoPacket == [lane |-> "none", kind |-> "NONE"]

VARIABLES toSend,    \* fragments the application has still to write
          buffered,  \* fragments written and not yet read by the scheduler
          closed,    \* the application has shut its writing half
          open,      \* the scheduler still reads the lane
          credits,   \* the scheduler's credit per lane
          burst,     \* packets sent since the last clipboard packet
          passed,    \* packets sent past a clipboard fragment that could go
          out,       \* the packet the scheduler is writing
          wire,      \* wire[s]: packets on their way to s, in order
          windows,   \* what the receive task may still accept per lane
          delivery,  \* fragments received and not yet written to the application
          ended,     \* FINISH has been received on the lane
          granting,  \* the delivery task has a GrantPeer event to add
          events,    \* the bounded event queue of the scheduler
          inbuf,     \* fragments the application can read
          received,  \* fragments the application has read
          eof,       \* the application sees the end of the lane
          failed     \* a task returned an error: the connection is closed

appVars == <<toSend, buffered, closed, inbuf, received>>
schedulerVars == <<open, credits, burst, passed, out>>
receiverVars == <<windows, delivery, ended, granting, eof>>
vars == <<appVars, schedulerVars, receiverVars, wire, events, failed>>

PerLane(v) == [s \in Sides |-> [l \in UsedLanes |-> v]]
PerSide(v) == [s \in Sides |-> v]

Init ==
    /\ toSend = Load
    /\ buffered = PerLane(0)
    /\ closed = PerLane(FALSE)
    /\ open = PerLane(TRUE)
    /\ credits = PerLane(W)
    /\ burst = PerSide(0)
    /\ passed = PerSide(0)
    /\ out = PerSide(NoPacket)
    /\ wire = PerSide(<<>>)
    /\ windows = PerLane(W)
    /\ delivery = PerLane(0)
    /\ ended = PerLane(FALSE)
    /\ granting = PerLane(FALSE)
    /\ events = PerSide(<<>>)
    /\ inbuf = PerLane(0)
    /\ received = PerLane(0)
    /\ eof = PerLane(FALSE)
    /\ failed = PerSide(FALSE)

Fail(s) == failed' = [failed EXCEPT ![s] = TRUE]

-----------------------------------------------------------------------------
(* The application's side of a lane: an in-memory pipe of W fragments.     *)

AppWrite(s, l) ==
    /\ toSend[s][l] > 0
    /\ buffered[s][l] < W
    /\ toSend' = [toSend EXCEPT ![s][l] = @ - 1]
    /\ buffered' = [buffered EXCEPT ![s][l] = @ + 1]
    /\ UNCHANGED <<closed, inbuf, received, schedulerVars, receiverVars, wire, events, failed>>

AppClose(s, l) ==
    /\ l \in Closing[s]
    /\ toSend[s][l] = 0
    /\ ~closed[s][l]
    /\ closed' = [closed EXCEPT ![s][l] = TRUE]
    /\ UNCHANGED <<toSend, buffered, inbuf, received, schedulerVars, receiverVars, wire, events, failed>>

AppRead(s, l) ==
    /\ inbuf[s][l] > 0
    /\ inbuf' = [inbuf EXCEPT ![s][l] = @ - 1]
    /\ received' = [received EXCEPT ![s][l] = @ + 1]
    /\ UNCHANGED <<toSend, buffered, closed, schedulerVars, receiverVars, wire, events, failed>>

-----------------------------------------------------------------------------
(* The scheduler: one select loop that prefers events, then lanes by rank. *)

\* UsedLanes the select polls and that have something to read: data, or the end.
Readable(s) ==
    {l \in UsedLanes : open[s][l] /\ credits[s][l] > 0 /\ (buffered[s][l] > 0 \/ closed[s][l])}

\* Defect for the runs to find: the burst is one packet longer.
RankLongBurst(s, l) ==
    CASE l = "control" -> 1
      [] l = "input" -> 2
      [] l = "clipboard" -> IF burst[s] > Burst THEN 0 ELSE 3

\* The clipboard lane is polled last, or first once a burst has gone by.
Rank(s, l) ==
    CASE l = "control" -> 1
      [] l = "input" -> 2
      [] l = "clipboard" -> IF burst[s] >= Burst THEN 0 ELSE 3

NextLane(s) == CHOOSE l \in Readable(s) : \A k \in Readable(s) : Rank(s, l) <= Rank(s, k)

Selecting(s) == ~failed[s] /\ out[s] = NoPacket

\* Defect for the runs to find: one credit is counted twice.
TakePeerCreditTwice(s) ==
    /\ Selecting(s)
    /\ events[s] # <<>>
    /\ Head(events[s]).kind = "PeerCredit"
    /\ events' = [events EXCEPT ![s] = Tail(@)]
    /\ credits' = [credits EXCEPT ![s][Head(events[s]).lane] = @ + 2]
    /\ UNCHANGED <<appVars, open, burst, passed, out, receiverVars, wire, failed>>

\* A credit came back from the peer.
TakePeerCredit(s) ==
    /\ Selecting(s)
    /\ events[s] # <<>>
    /\ Head(events[s]).kind = "PeerCredit"
    /\ events' = [events EXCEPT ![s] = Tail(@)]
    /\ LET l == Head(events[s]).lane IN
        IF credits[s][l] >= W
        THEN Fail(s) /\ UNCHANGED credits
        ELSE credits' = [credits EXCEPT ![s][l] = @ + 1] /\ UNCHANGED failed
    /\ UNCHANGED <<appVars, open, burst, passed, out, receiverVars, wire>>

\* A fragment was delivered here: reopen the window and return the credit.
TakeGrant(s) ==
    /\ Selecting(s)
    /\ events[s] # <<>>
    /\ Head(events[s]).kind = "GrantPeer"
    /\ events' = [events EXCEPT ![s] = Tail(@)]
    /\ LET l == Head(events[s]).lane IN
        /\ windows' = [windows EXCEPT ![s][l] = @ + 1]
        /\ IF windows[s][l] >= W
           THEN Fail(s) /\ UNCHANGED out
           ELSE out' = [out EXCEPT ![s] = Packet(l, "CREDIT")] /\ UNCHANGED failed
    /\ UNCHANGED <<appVars, open, credits, burst, passed, delivery, ended, granting, eof, wire>>

\* A fragment of the best lane, when no event is waiting.
ReadLane(s) ==
    /\ Selecting(s)
    /\ events[s] = <<>>
    /\ Readable(s) # {}
    /\ LET l == NextLane(s) IN
        /\ buffered[s][l] > 0
        /\ buffered' = [buffered EXCEPT ![s][l] = @ - 1]
        /\ credits' = [credits EXCEPT ![s][l] = @ - 1]
        /\ out' = [out EXCEPT ![s] = Packet(l, "DATA")]
        /\ burst' = [burst EXCEPT ![s] = IF l = "clipboard" THEN 0 ELSE @ + 1]
        /\ passed' = [passed EXCEPT ![s] =
                        IF l # "clipboard" /\ "clipboard" \in Readable(s) THEN @ + 1 ELSE 0]
    /\ UNCHANGED <<toSend, closed, inbuf, received, open, receiverVars, wire, events, failed>>

\* Defects for the runs to find: the lane stays open after its end; the end is
\* sent while fragments wait.
ReadEndAgain(s) ==
    /\ Selecting(s)
    /\ events[s] = <<>>
    /\ Readable(s) # {}
    /\ buffered[s][NextLane(s)] = 0
    /\ out' = [out EXCEPT ![s] = Packet(NextLane(s), "FINISH")]
    /\ UNCHANGED <<appVars, open, credits, burst, passed, receiverVars, wire, events, failed>>

ReadEndEarly(s) ==
    /\ Selecting(s)
    /\ events[s] = <<>>
    /\ Readable(s) # {}
    /\ closed[s][NextLane(s)]
    /\ open' = [open EXCEPT ![s][NextLane(s)] = FALSE]
    /\ out' = [out EXCEPT ![s] = Packet(NextLane(s), "FINISH")]
    /\ UNCHANGED <<appVars, credits, burst, passed, receiverVars, wire, events, failed>>

\* The end of the best lane, once its fragments have been read.
ReadEnd(s) ==
    /\ Selecting(s)
    /\ events[s] = <<>>
    /\ Readable(s) # {}
    /\ LET l == NextLane(s) IN
        /\ buffered[s][l] = 0
        /\ open' = [open EXCEPT ![s][l] = FALSE]
        /\ out' = [out EXCEPT ![s] = Packet(l, "FINISH")]
    /\ UNCHANGED <<appVars, credits, burst, passed, receiverVars, wire, events, failed>>

\* The carrier takes the packet; until then the scheduler handles nothing.
WritePacket(s) ==
    /\ ~failed[s]
    /\ out[s] # NoPacket
    /\ Len(wire[Peer(s)]) < WireCapacity
    /\ wire' = [wire EXCEPT ![Peer(s)] = Append(@, out[s])]
    /\ out' = [out EXCEPT ![s] = NoPacket]
    /\ UNCHANGED <<appVars, open, credits, burst, passed, receiverVars, events, failed>>

-----------------------------------------------------------------------------
(* The receive task handles one packet at a time, so a packet it cannot    *)
(* finish holds up every lane.                                             *)

Incoming(s, k) ==
    /\ ~failed[s]
    /\ wire[s] # <<>>
    /\ Head(wire[s]).kind = k

ReceiveData(s) ==
    /\ Incoming(s, "DATA")
    /\ wire' = [wire EXCEPT ![s] = Tail(@)]
    /\ LET l == Head(wire[s]).lane IN
        IF ended[s][l] \/ windows[s][l] = 0 \/ delivery[s][l] = W
        THEN Fail(s) /\ UNCHANGED <<windows, delivery>>
        ELSE /\ windows' = [windows EXCEPT ![s][l] = @ - 1]
             /\ delivery' = [delivery EXCEPT ![s][l] = @ + 1]
             /\ UNCHANGED failed
    /\ UNCHANGED <<appVars, schedulerVars, ended, granting, eof, events>>

\* Defect for the runs to find: the event is dropped instead of waited for.
ReceiveCreditDropped(s) ==
    /\ Incoming(s, "CREDIT")
    /\ wire' = [wire EXCEPT ![s] = Tail(@)]
    /\ UNCHANGED <<appVars, schedulerVars, receiverVars, events, failed>>

ReceiveCredit(s) ==
    /\ Incoming(s, "CREDIT")
    /\ Len(events[s]) < EventCapacity
    /\ wire' = [wire EXCEPT ![s] = Tail(@)]
    /\ events' = [events EXCEPT ![s] = Append(@, Packet(Head(wire[s]).lane, "PeerCredit"))]
    /\ UNCHANGED <<appVars, schedulerVars, receiverVars, failed>>

ReceiveFinish(s) ==
    /\ Incoming(s, "FINISH")
    /\ wire' = [wire EXCEPT ![s] = Tail(@)]
    /\ LET l == Head(wire[s]).lane IN
        IF ended[s][l]
        THEN Fail(s) /\ UNCHANGED ended
        ELSE ended' = [ended EXCEPT ![s][l] = TRUE] /\ UNCHANGED failed
    /\ UNCHANGED <<appVars, schedulerVars, windows, delivery, granting, eof, events>>

-----------------------------------------------------------------------------
(* The delivery task of a lane: write a fragment, then announce its credit.*)

DeliverFragment(s, l) ==
    /\ ~failed[s]
    /\ ~granting[s][l]
    /\ delivery[s][l] > 0
    /\ inbuf[s][l] < W
    /\ delivery' = [delivery EXCEPT ![s][l] = @ - 1]
    /\ inbuf' = [inbuf EXCEPT ![s][l] = @ + 1]
    /\ granting' = [granting EXCEPT ![s][l] = TRUE]
    /\ UNCHANGED <<toSend, buffered, closed, received, schedulerVars, windows, ended, eof, wire, events, failed>>

DeliverGrant(s, l) ==
    /\ ~failed[s]
    /\ granting[s][l]
    /\ Len(events[s]) < EventCapacity
    /\ granting' = [granting EXCEPT ![s][l] = FALSE]
    /\ events' = [events EXCEPT ![s] = Append(@, Packet(l, "GrantPeer"))]
    /\ UNCHANGED <<appVars, schedulerVars, windows, delivery, ended, eof, wire, failed>>

DeliverEnd(s, l) ==
    /\ ~failed[s]
    /\ ~granting[s][l]
    /\ ended[s][l] /\ delivery[s][l] = 0 /\ ~eof[s][l]
    /\ eof' = [eof EXCEPT ![s][l] = TRUE]
    /\ UNCHANGED <<appVars, schedulerVars, windows, delivery, ended, granting, wire, events, failed>>

-----------------------------------------------------------------------------
Scheduler(s) == TakePeerCredit(s) \/ TakeGrant(s) \/ ReadLane(s) \/ ReadEnd(s) \/ WritePacket(s)
Receiver(s) == ReceiveData(s) \/ ReceiveCredit(s) \/ ReceiveFinish(s)
Delivery(s, l) == DeliverFragment(s, l) \/ DeliverGrant(s, l) \/ DeliverEnd(s, l)

\* Everything written has been read and every lane has ended.
Done ==
    /\ \A s \in Sides, l \in UsedLanes :
        /\ received[s][l] = Load[Peer(s)][l]
        /\ credits[s][l] = W
        /\ l \in Closing[Peer(s)] => eof[s][l]
    /\ \A s \in Sides : events[s] = <<>> /\ wire[s] = <<>> /\ out[s] = NoPacket
    /\ UNCHANGED vars

Next ==
    \/ \E s \in Sides : Scheduler(s) \/ Receiver(s)
    \/ \E s \in Sides, l \in UsedLanes :
        AppWrite(s, l) \/ AppClose(s, l) \/ AppRead(s, l) \/ Delivery(s, l)
    \/ Done

\* The runtime polls every task that can go on; nothing makes an application
\* read, except on the lanes in Served.
Fairness ==
    /\ \A s \in Sides :
        /\ WF_vars(Scheduler(s))
        /\ WF_vars(Receiver(s))
        /\ \A l \in UsedLanes : WF_vars(Delivery(s, l))
        /\ \A l \in Served[s] : WF_vars(AppRead(s, l)) /\ WF_vars(AppWrite(Peer(s), l))

Spec == Init /\ [][Next]_vars /\ Fairness

-----------------------------------------------------------------------------
Kinds == {"DATA", "CREDIT", "FINISH"}

TypeOK ==
    /\ toSend \in [Sides -> [UsedLanes -> Nat]]
    /\ buffered \in [Sides -> [UsedLanes -> 0..W]]
    /\ credits \in [Sides -> [UsedLanes -> 0..W]]
    /\ windows \in [Sides -> [UsedLanes -> 0..W]]
    /\ delivery \in [Sides -> [UsedLanes -> 0..W]]
    /\ inbuf \in [Sides -> [UsedLanes -> 0..W]]
    /\ received \in [Sides -> [UsedLanes -> Nat]]
    /\ out \in [Sides -> [lane : UsedLanes, kind : Kinds] \union {NoPacket}]
    /\ wire \in [Sides -> Seq([lane : UsedLanes, kind : Kinds])]
    /\ events \in [Sides -> Seq([lane : UsedLanes, kind : {"PeerCredit", "GrantPeer"}])]
    /\ failed \in [Sides -> BOOLEAN]

\* No order of the ten tasks makes one of them return a protocol error, which
\* would close the carrier with every lane on it (the five bail! of receive
\* and schedule).
NeverFails == \A s \in Sides : ~failed[s]

\* The end of a lane is reported only after everything its peer wrote.
EndAfterData ==
    \A s \in Sides, l \in UsedLanes :
        eof[s][l] => received[s][l] + inbuf[s][l] = Load[Peer(s)][l]

\* A burst of control and input packets passes a ready clipboard fragment at
\* most PRIORITY_BURST times ("高优先级也有限额, 避免大载荷永久饥饿").
ClipboardNotStarved == \A s \in Sides : passed[s] <= Burst

\* A stalled reader of one lane holds up no other lane: what is written to a
\* lane whose application reads is received.
ServedLanesProgress ==
    \A s \in Sides : \A l \in Served[s] : <>(received[s][l] = Load[Peer(s)][l])

-----------------------------------------------------------------------------
(* Where the credits of flow <<s, l>> are.                                 *)

Places(l, k, q) == {i \in DOMAIN q : q[i] = Packet(l, k)}
Count(l, k, q) == Cardinality(Places(l, k, q))
Writing(s, l, k) == IF out[s] = Packet(l, k) THEN 1 ELSE 0

Travelling(s, l) == Count(l, "DATA", wire[Peer(s)]) + Writing(s, l, "DATA")
Delivering(s, l) == delivery[Peer(s)][l] + (IF granting[Peer(s)][l] THEN 1 ELSE 0)
Granted(s, l) == Count(l, "GrantPeer", events[Peer(s)])
Returning(s, l) == Count(l, "CREDIT", wire[s]) + Writing(Peer(s), l, "CREDIT")
Restored(s, l) == Count(l, "PeerCredit", events[s])

Flows == Sides \X {"control", "input", "clipboard"}
InUse(f) == f[2] \in UsedLanes

Credit == INSTANCE MuxCredit WITH
    credits <- [f \in Flows |-> IF InUse(f) THEN credits[f[1]][f[2]] ELSE W],
    data <- [f \in Flows |-> IF InUse(f) THEN Travelling(f[1], f[2]) ELSE 0],
    queue <- [f \in Flows |-> IF InUse(f) THEN Delivering(f[1], f[2]) ELSE 0],
    grants <- [f \in Flows |-> IF InUse(f) THEN Granted(f[1], f[2]) ELSE 0],
    window <- [f \in Flows |-> IF InUse(f) THEN windows[Peer(f[1])][f[2]] ELSE W],
    returning <- [f \in Flows |-> IF InUse(f) THEN Returning(f[1], f[2]) ELSE 0],
    restored <- [f \in Flows |-> IF InUse(f) THEN Restored(f[1], f[2]) ELSE 0]

\* The tasks and their queues keep the promise of MuxCredit.
ImplementsCredit == Credit!Spec

-----------------------------------------------------------------------------
(* The instance for TLC: a control lane and a clipboard lane with one      *)
(* credit each.  The host sends on both, enough to use up the credits and  *)
(* a burst, then ends the control lane; the client answers on control, and *)
(* its clipboard reader may stall for ever with the lane full behind it.   *)

MCLanes == {"control", "clipboard"}
BothWays ==
    [host |-> [control |-> 2, clipboard |-> 2], client |-> [control |-> 1, clipboard |-> 0]]
ClipboardStalled == [host |-> MCLanes, client |-> {"control"}]
ControlEnds == [host |-> {"control"}, client |-> {}]
=============================================================================
