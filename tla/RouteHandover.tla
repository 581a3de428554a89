--------------------------- MODULE RouteHandover ---------------------------
(***************************************************************************)
(* What the four-phase switch of a functional channel promises            *)
(* (transport/routing.rs), whatever becomes of its messages: they may be   *)
(* lost, kept and handled again, or overtaken by data on the other         *)
(* carrier. A side is on at most one switch, numbered by the host; it      *)
(* accepts data of the switch (listen) before the other side may send any  *)
(* (speak). Any side may abandon a switch at any moment.                   *)
(*                                                                         *)
(* Module ClipboardPath has the real handlers and implements this one.     *)
(***************************************************************************)
EXTENDS Naturals

CONSTANT MaxEpoch     \* bound on the number of switches of one session

ASSUME MaxEpochAssumption == MaxEpoch \in Nat \ {0}

Ends == {"host", "client"}
Partner(s) == IF s = "host" THEN "client" ELSE "host"
Epochs == 1..MaxEpoch
None == 0

VARIABLES highest,   \* highest[s]: the latest switch s has begun or joined
          current,   \* the switch s is on, or None
          listen,    \* the switch whose data s accepts, or None
          speak,     \* the switch s sends data on, or None
          messages,  \* handshake messages that may still be handled
          frames     \* data on its way: [to, epoch]

handoverVars == <<highest, current, listen, speak, messages, frames>>

MessageSet == [kind : {"Offer", "Ready", "Commit", "Committed"}, epoch : Epochs]
FrameSet == [to : Ends, epoch : Epochs]
Message(kind, g) == [kind |-> kind, epoch |-> g]
Frame(s, g) == [to |-> s, epoch |-> g]

Nowhere == [s \in Ends |-> None]

HandoverInit ==
    /\ highest = Nowhere
    /\ current = Nowhere
    /\ listen = Nowhere
    /\ speak = Nowhere
    /\ messages = {}
    /\ frames = {}

\* The carriers keep or lose what they hold, and add what is sent.
Carry(sent, spoken) ==
    /\ messages' \in SUBSET (messages \union sent)
    /\ frames' \in SUBSET (frames \union spoken)

\* Deliberate defects, used only to show that the properties can fail.
FinishOnOffer(g) ==
    /\ Message("Offer", g) \in messages
    /\ current["client"] = g
    /\ listen' = [listen EXCEPT !["client"] = g]
    /\ speak' = [speak EXCEPT !["client"] = g]
    /\ Carry({Message("Committed", g)}, {})
    /\ UNCHANGED <<highest, current>>

-----------------------------------------------------------------------------
\* The host starts a new switch and offers it, unless it cannot prepare it.
Begin(g, stay) ==
    /\ g = highest["host"] + 1
    /\ highest' = [highest EXCEPT !["host"] = g]
    /\ current' = [current EXCEPT !["host"] = IF stay THEN g ELSE None]
    /\ listen' = [listen EXCEPT !["host"] = None]
    /\ speak' = [speak EXCEPT !["host"] = None]
    /\ Carry({Message("Offer", g)}, {})

\* The client takes a newer offer and is ready; it may be unable to prepare it,
\* or drop it at once.
Join(g, stay) ==
    /\ Message("Offer", g) \in messages
    /\ g > highest["client"]
    /\ highest' = [highest EXCEPT !["client"] = g]
    /\ current' = [current EXCEPT !["client"] = IF stay THEN g ELSE None]
    /\ listen' = [listen EXCEPT !["client"] = None]
    /\ speak' = [speak EXCEPT !["client"] = None]
    /\ Carry({Message("Ready", g)}, {})

\* The host accepts data, then says Commit.
Confirm(g) ==
    /\ Message("Ready", g) \in messages
    /\ current["host"] = g
    /\ listen' = [listen EXCEPT !["host"] = g]
    /\ Carry({Message("Commit", g)}, {})
    /\ UNCHANGED <<highest, current, speak>>

\* The client accepts data, says Committed, and may send.
Finish(g) ==
    /\ Message("Commit", g) \in messages
    /\ current["client"] = g
    /\ listen' = [listen EXCEPT !["client"] = g]
    /\ speak' = [speak EXCEPT !["client"] = g]
    /\ Carry({Message("Committed", g)}, {})
    /\ UNCHANGED <<highest, current>>

\* The host may send.
Open(g) ==
    /\ Message("Committed", g) \in messages
    /\ current["host"] = g
    /\ speak' = [speak EXCEPT !["host"] = g]
    /\ Carry({}, {})
    /\ UNCHANGED <<highest, current, listen>>

\* A side abandons its switch.
Leave(s) ==
    /\ current' = [current EXCEPT ![s] = None]
    /\ listen' = [listen EXCEPT ![s] = None]
    /\ speak' = [speak EXCEPT ![s] = None]
    /\ Carry({}, {})
    /\ UNCHANGED highest

Talk(s) ==
    /\ speak[s] # None
    /\ Carry({}, {Frame(Partner(s), speak[s])})
    /\ UNCHANGED <<highest, current, listen, speak>>

Lose ==
    /\ Carry({}, {})
    /\ UNCHANGED <<highest, current, listen, speak>>

HandoverNext ==
    \/ \E g \in Epochs :
        \/ \E stay \in BOOLEAN : Begin(g, stay) \/ Join(g, stay)
        \/ Confirm(g) \/ Finish(g) \/ Open(g)
    \/ \E s \in Ends : Talk(s) \/ Leave(s)
    \/ Lose

HandoverSpec == HandoverInit /\ [][HandoverNext]_handoverVars

-----------------------------------------------------------------------------
Places == [Ends -> 0..MaxEpoch]

\* The state is made of switch numbers within the bound.
HandoverTypeOK ==
    /\ highest \in Places
    /\ current \in Places
    /\ listen \in Places
    /\ speak \in Places
    /\ messages \subseteq MessageSet
    /\ frames \subseteq FrameSet

\* Data never overtakes the handshake: a frame of the switch its receiver is on
\* finds the receiver accepting it, so it is not thrown away as uncommitted.
NoCommitRace ==
    \A s \in Ends, g \in Epochs :
        Frame(s, g) \in frames /\ current[s] = g => listen[s] = g

\* A side sends only while the other, if it is on the same switch, accepts.
SpeakersAreHeard ==
    \A s \in Ends :
        speak[s] # None =>
            /\ listen[s] = speak[s]
            /\ current[s] = speak[s]
            /\ current[Partner(s)] = speak[s] => listen[Partner(s)] = speak[s]

\* A switch that was left is never taken up again, whatever late or repeated
\* message of it is still about.
NeverResumed ==
    [][\A s \in Ends :
        current'[s] \notin {None, current[s]} => current'[s] > highest[s]]_handoverVars
=============================================================================
