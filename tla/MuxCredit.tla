------------------------------ MODULE MuxCredit ------------------------------
(***************************************************************************)
(* What the packet multiplexer (transport/mux.rs) promises about credits.  *)
(* Each lane and direction owns W credits. A credit is always in exactly   *)
(* one place: with the sender's scheduler, on the wire as a DATA packet, in*)
(* the receiver's delivery queue, in the receiver's event queue as a       *)
(* GrantPeer event, on the wire as a CREDIT packet, or in the sender's     *)
(* event queue as a PeerCredit event.                                      *)
(*                                                                         *)
(* A flow <<s, l>> is what side s sends on lane l. The order of packets is *)
(* abstracted here; module Mux has the queues and implements this one.     *)
(***************************************************************************)
EXTENDS Naturals

CONSTANT W     \* WINDOW_PACKETS: credits of one flow

ASSUME WAssumption == W \in Nat \ {0}

Sides == {"host", "client"}
Lanes == {"control", "input", "clipboard"}
Flows == Sides \X Lanes

Peer(s) == IF s = "host" THEN "client" ELSE "host"

VARIABLES credits,    \* credits[f]: packets the sender may still put on the wire
          data,       \* DATA packets of f between the two schedulers and receivers
          queue,      \* fragments the receiver has not yet passed to its application
          grants,     \* GrantPeer events waiting in the receiver's event queue
          window,     \* the receiver's own count of what it may still receive
          returning,  \* CREDIT packets on their way back to the sender
          restored    \* PeerCredit events waiting in the sender's event queue

vars == <<credits, data, queue, grants, window, returning, restored>>

Zero == [f \in Flows |-> 0]
Full == [f \in Flows |-> W]

Init ==
    /\ credits = Full
    /\ window = Full
    /\ data = Zero
    /\ queue = Zero
    /\ grants = Zero
    /\ returning = Zero
    /\ restored = Zero

\* Deliberate defects, used only to show that the properties can fail.
SendUncharged(f) ==
    /\ credits[f] > 0
    /\ data' = [data EXCEPT ![f] = @ + 1]
    /\ UNCHANGED <<credits, queue, grants, window, returning, restored>>

DeliverTwice(f) ==
    /\ queue[f] > 0
    /\ grants' = [grants EXCEPT ![f] = @ + 1]
    /\ UNCHANGED <<credits, data, queue, window, returning, restored>>

GrantWithoutWindow(f) ==
    /\ grants[f] > 0
    /\ grants' = [grants EXCEPT ![f] = @ - 1]
    /\ returning' = [returning EXCEPT ![f] = @ + 1]
    /\ UNCHANGED <<credits, data, queue, window, restored>>

RestoreTwice(f) ==
    /\ restored[f] > 0
    /\ restored' = [restored EXCEPT ![f] = @ - 1]
    /\ credits' = [credits EXCEPT ![f] = @ + 2]
    /\ UNCHANGED <<data, queue, grants, window, returning>>

-----------------------------------------------------------------------------
\* The scheduler reads a fragment of an open lane that has credit left.
Send(f) ==
    /\ credits[f] > 0
    /\ credits' = [credits EXCEPT ![f] = @ - 1]
    /\ data' = [data EXCEPT ![f] = @ + 1]
    /\ UNCHANGED <<queue, grants, window, returning, restored>>

\* The receiver takes a DATA packet: it charges the window and queues it.
Arrive(f) ==
    /\ data[f] > 0
    /\ data' = [data EXCEPT ![f] = @ - 1]
    /\ window' = [window EXCEPT ![f] = @ - 1]
    /\ queue' = [queue EXCEPT ![f] = @ + 1]
    /\ UNCHANGED <<credits, grants, returning, restored>>

\* The delivery task has written a fragment to the application.
Deliver(f) ==
    /\ queue[f] > 0
    /\ queue' = [queue EXCEPT ![f] = @ - 1]
    /\ grants' = [grants EXCEPT ![f] = @ + 1]
    /\ UNCHANGED <<credits, data, window, returning, restored>>

\* The receiver's scheduler gives the credit back.
Grant(f) ==
    /\ grants[f] > 0
    /\ grants' = [grants EXCEPT ![f] = @ - 1]
    /\ window' = [window EXCEPT ![f] = @ + 1]
    /\ returning' = [returning EXCEPT ![f] = @ + 1]
    /\ UNCHANGED <<credits, data, queue, restored>>

\* The sender's receive task takes a CREDIT packet.
Return(f) ==
    /\ returning[f] > 0
    /\ returning' = [returning EXCEPT ![f] = @ - 1]
    /\ restored' = [restored EXCEPT ![f] = @ + 1]
    /\ UNCHANGED <<credits, data, queue, grants, window>>

\* The sender's scheduler counts the returned credit.
Restore(f) ==
    /\ restored[f] > 0
    /\ restored' = [restored EXCEPT ![f] = @ - 1]
    /\ credits' = [credits EXCEPT ![f] = @ + 1]
    /\ UNCHANGED <<data, queue, grants, window, returning>>

Next == \E f \in Flows :
            Send(f) \/ Arrive(f) \/ Deliver(f) \/ Grant(f) \/ Return(f) \/ Restore(f)

Spec == Init /\ [][Next]_vars

-----------------------------------------------------------------------------
\* Every counter stays between zero and the window.
TypeOK ==
    /\ credits \in [Flows -> 0..W]
    /\ data \in [Flows -> 0..W]
    /\ queue \in [Flows -> 0..W]
    /\ grants \in [Flows -> 0..W]
    /\ window \in [Flows -> 0..W]
    /\ returning \in [Flows -> 0..W]
    /\ restored \in [Flows -> 0..W]

\* No credit is lost and none is minted, wherever it is on its way round, and
\* the receiver's window counts exactly the fragments it has not yet granted.
Balanced(f) ==
    /\ credits[f] + data[f] + queue[f] + grants[f] + returning[f] + restored[f] = W
    /\ window[f] + queue[f] + grants[f] = W
CreditConserved == \A f \in Flows : Balanced(f)

\* The length of side s's event queue: grants for what it receives, credits
\* for what it sends, on each of the three lanes.
LaneEvents(s, l) == grants[<<Peer(s), l>>] + restored[<<s, l>>]
EventsAt(s) == LaneEvents(s, "control") + LaneEvents(s, "input") + LaneEvents(s, "clipboard")

\* The queue of WINDOW_PACKETS * LANES * 2 events has room whenever a task is
\* about to add one, so neither the receive task nor a delivery task can be
\* blocked on a scheduler that is itself blocked on the wire.
EventsNeverBlock ==
    \A f \in Flows :
        /\ queue[f] > 0 => EventsAt(Peer(f[1])) < 6 * W
        /\ returning[f] > 0 => EventsAt(f[1]) < 6 * W

\* None of the four conditions that close the connection can hold: data beyond
\* the window, a full delivery queue, a window released twice, a credit beyond
\* the window.
NoOverrun ==
    \A f \in Flows :
        /\ data[f] > 0 => window[f] > 0 /\ queue[f] < W
        /\ grants[f] > 0 => window[f] < W
        /\ restored[f] > 0 => credits[f] < W
=============================================================================
