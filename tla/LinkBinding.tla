----------------------------- MODULE LinkBinding -----------------------------
(***************************************************************************)
(* A second physical connection joins a session that already has one       *)
(* (transport/logical.rs, binding.rs; the candidate loops lan_candidate.rs *)
(* and bluetooth/candidate.rs; the host's admission in host/mod.rs).  The  *)
(* client looks for the host on the other transport and connects; both     *)
(* prove that the connection belongs to this session: challenge, proof,    *)
(* ready, commit.  Each side has one slot for it, taken by the ticket of   *)
(* the connection, and whoever holds the connection frees the slot when it *)
(* lets go.  Connections break, proofs come late, and neither side knows   *)
(* when the other gave up.  An attempt stands for its connection, its      *)
(* challenge and the tickets made from it.                                 *)
(***************************************************************************)
EXTENDS Naturals

CONSTANTS Attempts,    \* attempts of which anything is left at the same time
          MaxMishaps   \* bound: connections that break, challenges and sides that are slow

NoAttempt == 0

ASSUME LinkAssumption == NoAttempt \notin Attempts /\ MaxMishaps \in Nat

VARIABLES
    link,   \* per side: open, the slot, the pending challenge and whether it expired
    task,   \* per side: the attempt being bound and what it waits for
    inbox,  \* per side: a bound connection on its way to the session
    tunnel, \* per side: the connection the session uses
    wire,   \* per attempt: alive, and the message under way to each side
    mishaps

linkVars == <<link, task, inbox, tunnel, wire, mishaps>>

Ends == {"client", "host"}
Other(e) == IF e = "client" THEN "host" ELSE "client"
Idle == [att |-> NoAttempt, waits |-> "nothing"]
Broken == [alive |-> FALSE, client |-> "", host |-> ""]

LinkInit ==
    /\ link = [e \in Ends |-> [open |-> TRUE, slot |-> NoAttempt, pending |-> NoAttempt, expired |-> FALSE]]
    /\ task = [e \in Ends |-> Idle]
    /\ inbox = [e \in Ends |-> NoAttempt] /\ tunnel = [e \in Ends |-> NoAttempt]
    /\ wire = [a \in Attempts |-> Broken]
    /\ mishaps = 0

Fresh(a) ==
    /\ wire[a] = Broken
    /\ \A e \in Ends : a \notin {link[e].slot, link[e].pending, task[e].att, inbox[e], tunnel[e]}

-----------------------------------------------------------------------------
(* What the tables do (SessionLinks).                                      *)

\* challenge and adopt: the slot is free and no other binding is pending; an
\* expired one is replaced.
MayPend(e) ==
    /\ link[e].open /\ link[e].slot = NoAttempt
    /\ link[e].pending = NoAttempt \/ link[e].expired

Pended(e, a) == [link EXCEPT ![e].pending = a, ![e].expired = FALSE]

\* attach: the proof answers the pending challenge in time.
MayAttach(e, a) == link[e].open /\ link[e].pending = a /\ ~link[e].expired

Attached(e, a) == [link EXCEPT ![e].slot = a, ![e].pending = NoAttempt]

\* Mutants: the slot is not freed; the challenge is not cancelled.
FreedLater(e, a) == [link EXCEPT ![e].pending = IF @ = a THEN NoAttempt ELSE @]
FreedHalf(e, a) == [link EXCEPT ![e].slot = IF @ = a THEN NoAttempt ELSE @]

\* cancel_challenge and detach: only what belongs to the attempt is taken away.
Freed(e, a) ==
    [link EXCEPT ![e].pending = IF @ = a THEN NoAttempt ELSE @,
                 ![e].slot = IF @ = a THEN NoAttempt ELSE @]

-----------------------------------------------------------------------------
(* The wire.  What is written to a dead connection seems to be sent.       *)

Arrives(e, m) == task[e].att # NoAttempt /\ wire[task[e].att][e] = m

Answered(a, e, m) ==
    [wire EXCEPT ![a][e] = "", ![a][Other(e)] = IF wire[a].alive THEN m ELSE @]

Reply(e, m) == wire' = Answered(task[e].att, e, m)

ClosedBy(a, e) == [wire EXCEPT ![a].alive = FALSE, ![a][e] = ""]

Wait(e, a, m) == task' = [task EXCEPT ![e] = [att |-> a, waits |-> m]]
Done(e) == task' = [task EXCEPT ![e] = Idle]

\* A binding is dropped: its guard cancels the challenge, frees the slot, and the
\* connection closes.
Drop(e) ==
    /\ link' = Freed(e, task[e].att)
    /\ wire' = ClosedBy(task[e].att, e)
    /\ Done(e)
    /\ UNCHANGED <<inbox, tunnel>>

-----------------------------------------------------------------------------
(* The steps of a binding.                                                 *)

\* The candidate loop finds the host where this transport has no link yet, and
\* proves its identity with mutual TLS.
Seek ==
    /\ link["client"].open /\ link["client"].slot = NoAttempt /\ task["client"] = Idle
    /\ \E a \in Attempts :
          /\ Fresh(a)
          /\ \A b \in Attempts : Fresh(b) => a <= b
          /\ Wait("client", a, "challenge")
          /\ wire' = [wire EXCEPT ![a] = [alive |-> TRUE, client |-> "", host |-> "ask"]]
    /\ UNCHANGED <<link, inbox, tunnel, mishaps>>

\* The host turns a candidate away when it has the transport or its mailbox is taken.
Admit(a) ==
    /\ wire[a].host = "ask"
    /\ IF task["host"] = Idle /\ inbox["host"] = NoAttempt /\ MayPend("host")
       THEN /\ link' = Pended("host", a)
            /\ Wait("host", a, "proof")
            /\ wire' = [wire EXCEPT ![a].host = "", ![a].client = IF wire[a].alive THEN "challenge" ELSE @]
       ELSE wire' = ClosedBy(a, "host") /\ UNCHANGED <<link, task>>
    /\ UNCHANGED <<inbox, tunnel, mishaps>>

Adopt ==
    /\ task["client"].waits = "challenge" /\ Arrives("client", "challenge")
    /\ IF MayPend("client")
       THEN /\ link' = Pended("client", task["client"].att)
            /\ Wait("client", task["client"].att, "ready")
            /\ Reply("client", "proof")
            /\ UNCHANGED <<inbox, tunnel>>
       ELSE Drop("client")
    /\ UNCHANGED mishaps

HostAttaches ==
    /\ task["host"].waits = "proof" /\ Arrives("host", "proof")
    /\ IF MayAttach("host", task["host"].att)
       THEN /\ link' = Attached("host", task["host"].att)
            /\ Wait("host", task["host"].att, "commit")
            /\ Reply("host", "ready")
            /\ UNCHANGED <<inbox, tunnel>>
       ELSE Drop("host")
    /\ UNCHANGED mishaps

ClientAttaches ==
    /\ task["client"].waits = "ready" /\ Arrives("client", "ready")
    /\ IF MayAttach("client", task["client"].att)
       THEN /\ link' = Attached("client", task["client"].att)
            /\ inbox' = [inbox EXCEPT !["client"] = task["client"].att]
            /\ Reply("client", "commit")
            /\ Done("client") /\ UNCHANGED tunnel
       ELSE Drop("client")
    /\ UNCHANGED mishaps

Commit ==
    /\ task["host"].waits = "commit" /\ Arrives("host", "commit")
    /\ inbox' = [inbox EXCEPT !["host"] = task["host"].att]
    /\ wire' = [wire EXCEPT ![task["host"].att].host = ""]
    /\ Done("host")
    /\ UNCHANGED <<link, tunnel, mishaps>>

-----------------------------------------------------------------------------
(* The session.                                                            *)

Gone(e) == {task[e].att, inbox[e], tunnel[e]} \ {NoAttempt}

\* The owner goes: the table closes and every connection of this side with it.
CloseSession(e) ==
    /\ link' = [link EXCEPT ![e] = [open |-> FALSE, slot |-> NoAttempt,
                                    pending |-> NoAttempt, expired |-> FALSE]]
    /\ wire' = [a \in Attempts |-> IF a \in Gone(e) THEN [wire[a] EXCEPT !.alive = FALSE, ![e] = ""]
                                   ELSE wire[a]]
    /\ task' = [task EXCEPT ![e] = Idle]
    /\ inbox' = [inbox EXCEPT ![e] = NoAttempt]
    /\ tunnel' = [tunnel EXCEPT ![e] = NoAttempt]

\* A candidate that is not attached, or a second one, fails the whole session.
TakeCandidate(e) ==
    /\ inbox[e] # NoAttempt
    /\ IF link[e].slot # NoAttempt /\ tunnel[e] = NoAttempt
       THEN /\ tunnel' = [tunnel EXCEPT ![e] = inbox[e]]
            /\ inbox' = [inbox EXCEPT ![e] = NoAttempt]
            /\ UNCHANGED <<link, task, wire>>
       ELSE CloseSession(e)
    /\ UNCHANGED mishaps

TunnelFails(e) ==
    /\ tunnel[e] # NoAttempt /\ ~wire[tunnel[e]].alive
    /\ link' = Freed(e, tunnel[e])
    /\ tunnel' = [tunnel EXCEPT ![e] = NoAttempt]
    /\ wire' = ClosedBy(tunnel[e], e)
    /\ UNCHANGED <<task, inbox, mishaps>>

\* The session of one side ends, then, as its primary connection does, the other.
BoundSessionEnds(e) ==
    /\ link[e].open
    /\ \/ ~link[Other(e)].open /\ UNCHANGED mishaps
       \/ mishaps < MaxMishaps /\ mishaps' = mishaps + 1
    /\ CloseSession(e)

-----------------------------------------------------------------------------
Mishap == mishaps < MaxMishaps /\ mishaps' = mishaps + 1

Break(a) ==
    /\ Mishap /\ wire[a].alive
    /\ wire' = [wire EXCEPT ![a] = Broken]
    /\ UNCHANGED <<link, task, inbox, tunnel>>

\* Ten seconds pass at one side.
Expire(e) ==
    /\ Mishap /\ link[e].pending # NoAttempt /\ ~link[e].expired
    /\ link' = [link EXCEPT ![e].expired = TRUE]
    /\ UNCHANGED <<task, inbox, tunnel, wire>>

\* The binding waits for what will not come, or its time is over too early.
GiveUp(e) ==
    /\ task[e] # Idle /\ wire[task[e].att] = Broken
    /\ Drop(e) /\ UNCHANGED mishaps

TooSlow(e) == task[e] # Idle /\ Mishap /\ Drop(e)

-----------------------------------------------------------------------------
ClientBinds == Seek \/ Adopt \/ ClientAttaches

LinkNext ==
    \/ ClientBinds \/ HostAttaches \/ Commit
    \/ \E a \in Attempts : Admit(a) \/ Break(a)
    \/ \E e \in Ends : TakeCandidate(e) \/ TunnelFails(e) \/ GiveUp(e)
    \/ \E e \in Ends : BoundSessionEnds(e) \/ Expire(e) \/ TooSlow(e)

\* The tasks of both programs go on, each by itself; the client tries again every 30
\* seconds and no binding outlives its ten.
LinkFairness ==
    /\ WF_linkVars(ClientBinds)
    /\ WF_linkVars(HostAttaches \/ Commit)
    /\ \A a \in Attempts : WF_linkVars(Admit(a))
    /\ \A e \in Ends :
          /\ WF_linkVars(TakeCandidate(e) \/ TunnelFails(e))
          /\ WF_linkVars(GiveUp(e))

LinkSpec == LinkInit /\ [][LinkNext]_linkVars /\ LinkFairness

-----------------------------------------------------------------------------
LinkTypeOK ==
    /\ \A e \in Ends : {link[e].slot, link[e].pending, task[e].att, inbox[e], tunnel[e]}
                          \subseteq Attempts \cup {NoAttempt}
    /\ \A a \in Attempts : wire[a].alive \in BOOLEAN
    /\ mishaps \in 0..MaxMishaps

\* A taken slot has an owner that will free it, exactly one: the binding that waits
\* for its commit, the mailbox of the session, or the session.  A slot nobody owns
\* would keep the transport out for the rest of the session.
SlotHasOwner ==
    \A e \in Ends : link[e].slot # NoAttempt =>
        /\ link[e].slot \in Gone(e)
        /\ inbox[e] = NoAttempt \/ tunnel[e] = NoAttempt
        /\ link[e].slot = task[e].att => inbox[e] = NoAttempt /\ tunnel[e] = NoAttempt

\* Two sides that use a second connection use the same one.
SameConnection ==
    (tunnel["client"] # NoAttempt /\ tunnel["host"] # NoAttempt) => tunnel["client"] = tunnel["host"]

\* While the session stays, it gets its second connection back, whatever half-made
\* binding was left on either side.
Rejoins ==
    <>[](link["client"].open /\ link["host"].open) =>
        <>[](tunnel["client"] # NoAttempt /\ tunnel["client"] = tunnel["host"])
=============================================================================
