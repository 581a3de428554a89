--------------------------- MODULE BluetoothAuth ---------------------------
(***************************************************************************)
(* Two devices that the system has paired authorize each other over RFCOMM *)
(* (synly-core/src/bluetooth/session.rs, candidate.rs, crypto.rs;          *)
(* src/app/bluetooth.rs): a first time with a temporary TLS and a question *)
(* to both users, later with the trust they saved, or, beside a session on *)
(* the LAN, with the identity of that session.  Keys, certificates and     *)
(* signatures are symbols: a certificate is the key it belongs to, and a   *)
(* signed message says what was signed, by whom and on which TLS.          *)
(***************************************************************************)
EXTENDS Naturals, Sequences

CONSTANTS Connections, \* bound: the RFCOMM connections of a behaviour, 1..n
          Encounters   \* the situations two devices meet in, and how much goes wrong there

ASSUME BluetoothAuthAssumption ==
    /\ Connections \subseteq Nat \ {0}
    /\ \A e \in Encounters : e.lan \in BOOLEAN /\ e.named \in BOOLEAN /\ e.knew \in [{"joiner", "host"} -> STRING]

VARIABLES
    policy,   \* the users: who wants trusted devices only, who is absent, whether the joiner
              \* trusts another device, and what each end knew before
    known,    \* the key each end has saved for the other's device
    lan,      \* which end still has the session on the LAN
    joiner,   \* the end that connects: its driver or its CandidateTask
    acceptor, \* the host's pairing task, which holds the configuration
    table,    \* the host's loop: its session over Bluetooth, what completed, whether it revokes
    rfcomm,   \* the connections, with what each end has answered on it
    faults    \* how much may still go wrong

authVars == <<policy, known, lan, joiner, acceptor, table, rfcomm, faults>>

Joiner == "joiner"
Host == "host"
Parties == {Joiner, Host}
NoKey == "none"

-----------------------------------------------------------------------------
(* Symbols.  A TLS of its own runs on each connection; its exporter and    *)
(* its request share the number of the connection.                         *)

Signed(kind, key, n, body) == [kind |-> kind, by |-> key, on |-> n, body |-> body]

\* A signature verifies for one purpose, one key and one exporter.
Verified(m, kind, key, n) == m.kind = kind /\ m.by = key /\ m.on = n

\* The roots of the devices that are saved completely.
RootsOf(keys) == keys \ {NoKey}

\* The root both ends derive from the shares they exchanged, for one request.
Temporary == "temporary"

\* What an end shows in TLS: a leaf signed by its identity, or by the temporary root.
Certificate(end, mode) == IF mode = "trusted" THEN end ELSE Temporary

\* What TLS admits with these roots, and whether the identity behind a signature is one of these.
Admits(roots, end, mode) == Certificate(end, mode) \in roots
Identified(end, keys) == end \in keys

Greeting(kind, mode) == Signed(kind, NoKey, 0, [mode |-> mode])
Silence == Greeting("none", "none")
Request(n) == Signed("request", Joiner, n, [id |-> n])
Decision(request, says) == Signed("decision", Host, request.on, [request |-> request, says |-> says])
Confirmation(decision, says) ==
    Signed("confirmation", Joiner, decision.on, [decision |-> decision, says |-> says])
Ready0(confirmation) == Signed("ready", Host, confirmation.on, confirmation.body)

-----------------------------------------------------------------------------
Unused == [open |-> FALSE, mode |-> "none", up |-> Silence, down |-> Silence,
           said |-> [p \in Parties |-> "nothing"]]
Resting == [at |-> "rest", id |-> 0, roots |-> {}, candidate |-> FALSE, named |-> FALSE,
            sent |-> Silence, bound |-> 0, input |-> FALSE]
Vacant == [at |-> "vacant", id |-> 0, active |-> FALSE, roots |-> {}, sent |-> Silence]

AuthInit == \E e \in Encounters :
    /\ policy = [only |-> e.only, absent |-> e.absent, another |-> e.another, knew |-> e.knew]
    /\ known = e.knew /\ faults = e.faults
    /\ lan = [p \in Parties |-> e.lan]
    /\ joiner = [Resting EXCEPT !.candidate = e.lan, !.named = e.named]
    /\ acceptor = Vacant
    /\ table = [primary |-> 0, attached |-> 0, complete |-> <<>>, revoking |-> FALSE]
    /\ rfcomm = [n \in Connections |-> Unused]

Fault == faults > 0 /\ faults' = faults - 1

Mine == rfcomm[joiner.id]
Theirs == rfcomm[acceptor.id]

\* Both ends of a connection, and what each has said; what was written before is still read.
Closed0(conns, n) == [conns EXCEPT ![n].open = FALSE]
Answers(conns, n, end, says) == [conns EXCEPT ![n].said[end] = says]
Writes(conns, n, slot, m) == [conns EXCEPT ![n][slot] = IF conns[n].open THEN m ELSE @]

-----------------------------------------------------------------------------
(* The joiner: connect, connect_inner and the CandidateTask.               *)

Waits(kind) == joiner.id # 0 /\ Mine.down.kind = kind
Reads(conns) == [conns EXCEPT ![joiner.id].down = Silence]
InHandshake == joiner.at \in {"challenge", "tls", "decision", "prompt", "ready", "binding"}

Opens(roots) == \E n \in Connections :
    /\ rfcomm[n] = Unused /\ \A m \in Connections : m < n => rfcomm[m] # Unused
    /\ LET mode == IF roots = {Temporary} THEN "authorize" ELSE "trusted" IN
       /\ rfcomm' = [rfcomm EXCEPT ![n] = [Unused EXCEPT !.open = TRUE, !.mode = mode,
                                                         !.up = Greeting("hello", mode)]]
       /\ joiner' = [joiner EXCEPT !.id = n, !.roots = roots,
                                   !.at = IF mode = "trusted" THEN "tls" ELSE "challenge"]

\* The trust that may be used for an address: with an identity its own, else any.
Candidates == RootsOf({known[Joiner]} \cup (IF policy.another /\ ~joiner.named THEN {"another"} ELSE {}))

Dials ==
    /\ joiner.at = "rest" /\ ~joiner.candidate
    /\ IF Candidates = {} THEN Joiner \notin policy.only /\ Opens({Temporary}) ELSE Opens(Candidates)
    /\ UNCHANGED <<policy, known, lan, acceptor, table, faults>>

\* The task that adds Bluetooth to a session on the LAN pins the identity of that session.
Seek ==
    /\ joiner.at = "rest" /\ joiner.candidate /\ lan[Joiner]
    /\ joiner.bound = 0 /\ ~joiner.input
    /\ Opens({Host})
    /\ UNCHANGED <<policy, known, lan, acceptor, table, faults>>

\* Every failure of a primary connection is final; a candidate is tried again.
Gone(j) == [j EXCEPT !.at = IF j.candidate THEN "rest" ELSE "over", !.id = 0, !.roots = {}, !.sent = Silence]
Abandons == joiner' = Gone(joiner) /\ rfcomm' = Closed0(rfcomm, joiner.id)

GoesOn(stage, m, conns) ==
    /\ joiner' = [joiner EXCEPT !.at = stage, !.sent = m]
    /\ rfcomm' = Reads(Writes(conns, joiner.id, "up", m))

JoinerShares ==
    /\ joiner.at = "challenge" /\ Waits("challenge")
    /\ GoesOn("tls", Greeting("share", "authorize"), rfcomm)
    /\ UNCHANGED <<policy, known, lan, acceptor, table, faults>>

JoinerRequests ==
    /\ joiner.at = "tls" /\ Waits("flight")
    /\ IF Admits(joiner.roots, Host, Mine.mode)
       THEN GoesOn("decision", Request(joiner.id), rfcomm)
       ELSE Abandons
    /\ UNCHANGED <<policy, known, lan, acceptor, table, faults>>

\* The decision is the host's, on this request, and it agrees.
AgreeableEither(d) == d.body.request = joiner.sent /\ Verified(d, "decision", Host, joiner.id)
Agreeable(d) == AgreeableEither(d) /\ d.body.says # "no"

\* Confirms, or asks the user first; a host that declines is not asked about.
JoinerDecided ==
    /\ joiner.at = "decision" /\ Waits("decision")
    /\ LET d == Mine.down IN
       IF ~Agreeable(d) THEN Abandons
       ELSE IF Mine.mode = "trusted"
       THEN IF Identified(Host, joiner.roots)
            THEN GoesOn("ready", Confirmation(d, "yes"), Answers(rfcomm, joiner.id, Joiner, "yes"))
            ELSE Abandons
       ELSE IF Joiner \in policy.absent THEN Abandons
       ELSE joiner' = [joiner EXCEPT !.at = "prompt", !.sent = d] /\ rfcomm' = Reads(rfcomm)
    /\ UNCHANGED <<policy, known, lan, acceptor, table, faults>>

JoinerAnswers(says) ==
    /\ joiner.at = "prompt"
    /\ LET c == Confirmation(joiner.sent, says)
           conns == Answers(rfcomm, joiner.id, Joiner, says) IN
       IF says = "no"
       THEN joiner' = Gone(joiner) /\ rfcomm' = Closed0(Writes(conns, joiner.id, "up", c), joiner.id)
       ELSE GoesOn("ready", c, conns)
    /\ UNCHANGED <<policy, known, lan, acceptor, table, faults>>

\* The last message: the trust is saved, the session begins; a candidate goes on to be bound.
JoinerReady(saved) ==
    /\ joiner.at = "ready" /\ Waits("ready")
    /\ LET remember == Mine.said[Joiner] = "remember"
           saves == ~joiner.candidate /\ (remember \/ known[Joiner] = Host) IN
       IF Mine.down.body # joiner.sent.body \/ ~Verified(Mine.down, "ready", Host, joiner.id)
       THEN saved /\ Abandons /\ UNCHANGED <<known, faults>>
       ELSE /\ known' = IF remember THEN [known EXCEPT ![Joiner] = Host] ELSE known
            /\ \/ saved /\ UNCHANGED faults
                  /\ joiner' = [joiner EXCEPT !.at = IF joiner.candidate THEN "binding" ELSE "session",
                                              !.named = TRUE, !.sent = Silence]
                  /\ rfcomm' = Reads(rfcomm)
               \/ ~saved /\ saves /\ Fault
                  /\ joiner' = [Gone(joiner) EXCEPT !.at = "rest"]
                  /\ rfcomm' = Closed0(rfcomm, joiner.id)
    /\ UNCHANGED <<policy, lan, acceptor, table>>

Binds ==
    /\ joiner.at = "binding" /\ Waits("bound")
    /\ joiner' = [Gone(joiner) EXCEPT !.bound = joiner.id]
    /\ rfcomm' = Reads(rfcomm)
    /\ UNCHANGED <<policy, known, lan, acceptor, table, faults>>

\* The connection ends, which a question to the user does not notice, or time is up.
JoinerFails ==
    /\ InHandshake
    /\ \/ joiner.at # "prompt" /\ ~Mine.open /\ Mine.down = Silence /\ UNCHANGED faults
       \/ Fault
    /\ Abandons
    /\ UNCHANGED <<policy, known, lan, acceptor, table>>

\* run_auto_reconnect after a session, and the user after a failure.
JoinerReturns ==
    /\ \/ joiner.at = "session" /\ ~Mine.open
       \/ joiner.at = "over"
    /\ joiner' = [Gone(joiner) EXCEPT !.at = "rest"]
    /\ UNCHANGED <<policy, known, lan, acceptor, table, rfcomm, faults>>

Unbinds ==
    /\ joiner.bound # 0 /\ ~rfcomm[joiner.bound].open
    /\ joiner' = [joiner EXCEPT !.bound = 0]
    /\ UNCHANGED <<policy, known, lan, acceptor, table, rfcomm, faults>>

Input ==
    /\ joiner.candidate
    /\ joiner' = [joiner EXCEPT !.input = ~@]
    /\ UNCHANGED <<policy, known, lan, acceptor, table, rfcomm, faults>>

-----------------------------------------------------------------------------
(* The host's pairing task: accept and accept_inner.                       *)

Online == lan[Host] \/ table.primary # 0

Hears0(kind) == acceptor.id # 0 /\ Theirs.up.kind = kind
Leaves0 == acceptor' = Vacant /\ rfcomm' = [Closed0(rfcomm, acceptor.id) EXCEPT ![acceptor.id].up = Silence]
Replies(stage, m, conns) ==
    /\ acceptor' = [acceptor EXCEPT !.at = stage, !.sent = m]
    /\ rfcomm' = [Writes(conns, acceptor.id, "down", m) EXCEPT ![acceptor.id].up = Silence]

\* One pairing at a time, and none waits.  The devices in session are listed first.
Accept(n) ==
    /\ rfcomm[n].up.kind = "hello" /\ acceptor.id # n /\ ~table.revoking
    /\ IF acceptor.at = "vacant"
       THEN acceptor' = [Vacant EXCEPT !.at = "greeted", !.id = n, !.active = Online] /\ UNCHANGED rfcomm
       ELSE rfcomm' = [rfcomm EXCEPT ![n].open = FALSE, ![n].up = Silence] /\ UNCHANGED acceptor
    /\ UNCHANGED <<policy, known, lan, joiner, table, faults>>

\* The configuration is read now; the identity of a session replaces what is saved.
Greets ==
    /\ acceptor.at = "greeted" /\ Hears0("hello")
    /\ LET roots == IF Theirs.mode = "authorize" THEN {Temporary}
                    ELSE IF acceptor.active THEN {Joiner} ELSE RootsOf({known[Host]}) IN
       IF roots = {} \/ (Theirs.mode = "authorize" /\ Host \in policy.only)
       THEN Leaves0
       ELSE \E m \in {Greeting(IF Theirs.mode = "trusted" THEN "flight" ELSE "challenge", Theirs.mode)} :
               /\ acceptor' = [acceptor EXCEPT !.at = IF Theirs.mode = "trusted" THEN "tls" ELSE "share",
                                               !.roots = roots]
               /\ rfcomm' = [Writes(rfcomm, acceptor.id, "down", m) EXCEPT ![acceptor.id].up = Silence]
    /\ UNCHANGED <<policy, known, lan, joiner, table, faults>>

HostShares ==
    /\ acceptor.at = "share" /\ Hears0("share")
    /\ Replies("tls", Greeting("flight", "authorize"), rfcomm)
    /\ UNCHANGED <<policy, known, lan, joiner, table, faults>>

\* A saved identity is accepted, another is shown to the user, if there is one.
Requested ==
    /\ acceptor.at = "tls" /\ Hears0("request")
    /\ LET r == Theirs.up IN
       IF ~Admits(acceptor.roots, Joiner, Theirs.mode) \/ ~Verified(r, "request", Joiner, acceptor.id)
       THEN Leaves0
       ELSE IF Theirs.mode = "trusted"
       THEN IF Identified(Joiner, acceptor.roots)
            THEN Replies("confirm", Decision(r, "yes"), Answers(rfcomm, acceptor.id, Host, "yes"))
            ELSE Leaves0
       ELSE IF Host \in policy.absent THEN Leaves0
       ELSE /\ acceptor' = [acceptor EXCEPT !.at = "prompt", !.sent = r]
            /\ rfcomm' = [rfcomm EXCEPT ![acceptor.id].up = Silence]
    /\ UNCHANGED <<policy, known, lan, joiner, table, faults>>

HostSays(says) ==
    /\ acceptor.at = "prompt"
    /\ LET d == Decision(acceptor.sent, says)
           conns == Answers(rfcomm, acceptor.id, Host, says) IN
       IF says = "no"
       THEN acceptor' = Vacant /\ rfcomm' = Closed0(Writes(conns, acceptor.id, "down", d), acceptor.id)
       ELSE Replies("confirm", d, conns)

\* Mutant: the answer is saved before the other end has confirmed.
HostAnswersSaving(says) ==
    /\ HostSays(says)
    /\ known' = IF says = "remember" THEN [known EXCEPT ![Host] = Joiner] ELSE known
    /\ UNCHANGED <<policy, lan, joiner, table, faults>>

HostAnswers(says) == HostSays(says) /\ UNCHANGED <<policy, known, lan, joiner, table, faults>>

\* established: what is saved, and whether the TLS rested on a session only.
Established(saved, remember, saves) ==
    /\ known' = IF remember THEN [known EXCEPT ![Host] = Joiner] ELSE known
    /\ \/ saved /\ UNCHANGED faults
          /\ table' = [table EXCEPT !.complete = Append(@,
                [id |-> acceptor.id, trusted |-> Theirs.mode = "trusted",
                 existing |-> Theirs.mode = "trusted" /\ known[Host] # Joiner])]
          /\ rfcomm' = [Writes(rfcomm, acceptor.id, "down", Ready0(Theirs.up)) EXCEPT ![acceptor.id].up = Silence]
       \/ ~saved /\ saves /\ Fault /\ UNCHANGED table
          /\ rfcomm' = Closed0(Writes(rfcomm, acceptor.id, "down", Ready0(Theirs.up)), acceptor.id)
    /\ acceptor' = Vacant

\* The joiner has confirmed: ready is the last message, which may not be delivered.
Confirmed(saved) ==
    /\ acceptor.at = "confirm" /\ Hears0("confirmation")
    /\ LET remember == Theirs.said[Host] = "remember"
           sound == /\ Theirs.up.body.decision = acceptor.sent
                    /\ Verified(Theirs.up, "confirmation", Joiner, acceptor.id)
                    /\ Theirs.up.body.says # "no" IN
       \/ sound /\ Established(saved, remember, remember \/ known[Host] = Joiner)
       \/ saved /\ (sound => ~Theirs.open) /\ Leaves0 /\ UNCHANGED <<known, table, faults>>
    /\ UNCHANGED <<policy, lan, joiner>>

HostFails ==
    /\ acceptor.at \in {"greeted", "share", "tls", "prompt", "confirm"}
    /\ \/ acceptor.at # "prompt" /\ ~Theirs.open /\ Theirs.up = Silence /\ UNCHANGED faults
       \/ Fault
    /\ acceptor' = Vacant
    /\ rfcomm' = [Closed0(rfcomm, acceptor.id) EXCEPT ![acceptor.id].up = Silence]
    /\ UNCHANGED <<policy, known, lan, joiner, table>>

OtherPairs ==
    /\ \/ acceptor.at = "vacant" /\ Fault /\ acceptor' = [Vacant EXCEPT !.at = "other"]
       \/ acceptor.at = "other" /\ acceptor' = Vacant /\ UNCHANGED faults
    /\ UNCHANGED <<policy, known, lan, joiner, table, rfcomm>>

-----------------------------------------------------------------------------
(* The host's loop.                                                        *)

Taken == [table EXCEPT !.complete = Tail(@)]

\* Trust revoked while the pairing completed; a session that was its ground and has ended.
LostTrustNever(c) == FALSE /\ c.trusted
LostTrust(c) == c.trusted /\ ~c.existing /\ known[Host] # Joiner

LostSession(c) == c.existing /\ ~Online
Double == table.primary # 0 \/ table.attached # 0

\* What is refused is dropped, which closes its connection.
DropsOpen(c) == table' = Taken /\ rfcomm' = [rfcomm EXCEPT ![c.id].up = Silence]
Drops(c) == table' = Taken /\ rfcomm' = Closed0(rfcomm, c.id)

\* PairingComplete: what has lost its ground is refused, a session is joined or begun.
Admit ==
    /\ table.complete # <<>> /\ ~table.revoking
    /\ \E c \in {Head(table.complete)} :
       CASE LostTrust(c) \/ LostSession(c) \/ Double -> Drops(c)
         [] ~(LostTrust(c) \/ Double) /\ lan[Host] ->
              /\ table' = [Taken EXCEPT !.attached = c.id]
              /\ rfcomm' = Writes(rfcomm, c.id, "down", Greeting("bound", "trusted"))
         [] OTHER -> table' = [Taken EXCEPT !.primary = c.id] /\ UNCHANGED rfcomm
    /\ UNCHANGED <<policy, known, lan, joiner, acceptor, faults>>

HostNotices0 ==
    /\ \/ table.primary # 0 /\ ~rfcomm[table.primary].open /\ table' = [table EXCEPT !.primary = 0]
       \/ table.attached # 0 /\ ~rfcomm[table.attached].open /\ table' = [table EXCEPT !.attached = 0]
    /\ UNCHANGED <<policy, known, lan, joiner, acceptor, rfcomm, faults>>

\* The connections of the host's session are closed with it.
SessionsClosed(conns) ==
    [n \in Connections |-> [conns[n] EXCEPT !.open = @ /\ n \notin {table.primary, table.attached}]]

\* The session is closed at once, the trust forgotten when no pairing holds it.
Revokes ==
    /\ \/ ~table.revoking /\ known[Host] = Joiner /\ Fault
          /\ table' = [table EXCEPT !.primary = 0, !.attached = 0, !.revoking = TRUE]
          /\ lan' = [lan EXCEPT ![Host] = FALSE]
          /\ rfcomm' = SessionsClosed(rfcomm)
          /\ UNCHANGED known
       \/ table.revoking /\ acceptor.at \in {"vacant", "greeted"}
          /\ table' = [table EXCEPT !.revoking = FALSE]
          /\ known' = [known EXCEPT ![Host] = NoKey]
          /\ UNCHANGED <<lan, rfcomm, faults>>
    /\ UNCHANGED <<policy, joiner, acceptor>>

-----------------------------------------------------------------------------
(* What goes wrong elsewhere.                                              *)

Breaks(n) ==
    /\ rfcomm[n].open /\ Fault
    /\ \E c \in {[rfcomm[n] EXCEPT !.open = FALSE],
                 [rfcomm[n] EXCEPT !.open = FALSE, !.up = Silence, !.down = Silence]} :
          rfcomm' = [rfcomm EXCEPT ![n] = c]
    /\ UNCHANGED <<policy, known, lan, joiner, acceptor, table>>

\* The session on the LAN ends at one end, then at the other; its owner takes what it had
\* attached and its candidate with it.
LanEnds(end) ==
    /\ lan[end]
    /\ IF \A p \in Parties : lan[p] THEN Fault ELSE UNCHANGED faults
    /\ lan' = [lan EXCEPT ![end] = FALSE]
    /\ IF end = Joiner
       THEN /\ joiner' = [Gone(joiner) EXCEPT !.bound = 0]
            /\ rfcomm' = [n \in Connections |-> [rfcomm[n] EXCEPT !.open = @ /\ n \notin {joiner.id, joiner.bound}]]
            /\ UNCHANGED table
       ELSE table' = [table EXCEPT !.attached = 0] /\ rfcomm' = SessionsClosed(rfcomm) /\ UNCHANGED joiner
    /\ UNCHANGED <<policy, known, acceptor>>

LanReturns ==
    /\ joiner.candidate /\ \A p \in Parties : ~lan[p]
    /\ table.primary = 0 /\ acceptor.at = "vacant" /\ Fault
    /\ lan' = [p \in Parties |-> TRUE]
    /\ UNCHANGED <<policy, known, joiner, acceptor, table, rfcomm>>

-----------------------------------------------------------------------------
JoinerSteps ==
    \/ Dials \/ Seek \/ JoinerShares \/ JoinerRequests \/ JoinerDecided
    \/ Binds \/ JoinerFails \/ JoinerReturns \/ Unbinds \/ Input

HostSteps0 == Greets \/ HostShares \/ Requested \/ HostFails \/ Admit \/ HostNotices0 \/ Revokes

AuthNext ==
    \/ JoinerSteps \/ HostSteps0
    \/ \E n \in Connections : Accept(n) \/ Breaks(n)
    \/ \E says \in {"no", "yes", "remember"} : JoinerAnswers(says) \/ HostAnswers(says)
    \/ \E saved \in BOOLEAN : JoinerReady(saved) \/ Confirmed(saved)
    \/ \E end \in Parties : LanEnds(end)
    \/ OtherPairs \/ LanReturns

AuthSpec == AuthInit /\ [][AuthNext]_authVars

-----------------------------------------------------------------------------
Agreed(n, p, q) == rfcomm[n].said[p] = "remember" /\ rfcomm[n].said[q] \in {"yes", "remember"}

\* Nobody is remembered unless, on one connection, the own user wanted it and the other
\* end agreed to the session as well: not by a decision that was never confirmed, not for
\* a name or an address, and never by a candidate.
BothConsented ==
    /\ (known[Host] # policy.knew[Host] /\ known[Host] # NoKey) =>
          known[Host] = Joiner /\ \E n \in Connections : Agreed(n, Host, Joiner)
    /\ (known[Joiner] # policy.knew[Joiner]) =>
          known[Joiner] = Host /\ \E n \in Connections : Agreed(n, Joiner, Host)

\* A user is asked only about a device that asked for it, and the joiner's after the
\* host's has agreed.
AskedInTurn ==
    /\ acceptor.at = "prompt" => Theirs.mode = "authorize" /\ Host \notin policy.only
    /\ joiner.at = "prompt" => ~joiner.candidate /\ Mine.said[Host] \in {"yes", "remember"}

\* An identity that was good for a connection beside a session never begins one: a primary
\* session without a question belongs to a device that is trusted while it lasts.
TemporaryStaysSecond ==
    \A n \in {table.primary} \ {0} : rfcomm[n].mode = "trusted" => known[Host] = Joiner

\* What the joiner takes for its session, or for a second link of it, is what the host has.
SameSession ==
    /\ (joiner.at = "session" /\ Mine.open) =>
          table.primary = joiner.id \/ \E i \in DOMAIN table.complete : table.complete[i].id = joiner.id
    /\ (joiner.bound # 0 /\ rfcomm[joiner.bound].open) => lan[Joiner] /\ table.attached = joiner.bound

AuthorizationIsTrue == BothConsented /\ AskedInTurn /\ TemporaryStaysSecond /\ SameSession

\* docs/bluetooth.md:33 says that a lost session is built again; only a refusal would be final.
OnlyRefusalIsFinal ==
    joiner.at = "over" => \E n \in Connections, p \in Parties : rfcomm[n].said[p] = "no"
=============================================================================
