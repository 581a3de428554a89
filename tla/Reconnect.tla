----------------------------- MODULE Reconnect -----------------------------
(***************************************************************************)
(* A desktop client finds its host, authenticates and comes back after a   *)
(* loss (src/app.rs, reconnect.rs, app/lan_admission.rs).  The client      *)
(* first tries the address of its last session, then the peer it knows or  *)
(* discovers; a saved trust is tried with mutual TLS, everything else with *)
(* a PIN.  The host serves one authentication at a time and still may hold *)
(* the previous session, which excludes the same device from its TLS roots.*)
(* Keys, PINs and TLS records are reduced to whether they match.           *)
(***************************************************************************)
EXTENDS Naturals

CONSTANTS FastRetries,  \* FAST_DIRECT_RETRIES
          MaxFailures,  \* PAIRING_MAX_FAILURES
          MaxTroubles   \* bound: losses, restarts, moves, busy hosts, revocations

ASSUME ReconnectAssumption == {FastRetries, MaxFailures, MaxTroubles} \subseteq Nat

VARIABLES
    setup,    \* trusted_only of the client, kind of its query, whether the host asks its user
    client,   \* the client: at which stage, by which target, what it remembers
    conn,     \* the connection being authenticated, then the session's
    host,     \* the host: its authentication task and its session of this client
    trust,    \* who trusts whom, and whether the host's trust is on disk
    failures, \* wrong PINs counted by the host's throttle
    troubles, \* how much went wrong so far
    excuse    \* the host's trust was revoked, or could not be saved

reconnectVars == <<setup, client, conn, host, trust, failures, troubles, excuse>>

Vias == {"fast", "known", "found", "address"}
Closed == [open |-> FALSE, tls |-> FALSE, toHost |-> "", toClient |-> ""]

ReconnectInit ==
    /\ setup \in [trustedOnly : BOOLEAN, query : {"found", "address"}, asks : BOOLEAN]
    /\ client \in [at : {"retry"}, via : {"found"}, direct : {FALSE}, stale : {FALSE},
                   known : BOOLEAN, fast : {FastRetries}]
    /\ client.known => setup.query = "found"
    /\ conn = Closed
    /\ host = [task |-> "none", live |-> "none"]
    /\ trust \in [client : BOOLEAN, host : BOOLEAN, stored : BOOLEAN]
    /\ trust.host = trust.stored /\ (trust.client => trust.host)
    /\ failures = 0 /\ troubles = 0 /\ excuse = FALSE

-----------------------------------------------------------------------------
(* The client's driver: run_auto_reconnect and attempt_peer_connection.    *)

Target == IF client.direct THEN "fast" ELSE IF client.known THEN "known" ELSE setup.query

\* Mutant: the address of the last session is tried for ever.
FailedStaysDirect(c, terminal) ==
    CASE terminal -> [c EXCEPT !.at = "over"]
      [] c.via = "fast" -> [c EXCEPT !.at = "retry"]
      [] c.via = "known" -> [c EXCEPT !.at = "retry", !.known = FALSE]
      [] OTHER -> [c EXCEPT !.at = "wait"]

\* What a failed attempt leaves: pairing failures are final, a fast target is
\* given up after its retries, and only the last target waits before the next.
Failed(c, terminal) ==
    CASE terminal -> [c EXCEPT !.at = "over"]
      [] c.via = "fast" /\ c.fast > 0 -> [c EXCEPT !.at = "retry", !.fast = @ - 1]
      [] c.via = "fast" -> [c EXCEPT !.at = "retry", !.direct = FALSE]
      [] c.via = "known" -> [c EXCEPT !.at = "retry", !.known = FALSE]
      [] OTHER -> [c EXCEPT !.at = "wait"]

ByAddress(via) == via \in {"fast", "address"}

\* Keepalive will find that the connection of the host's session is gone.
Dead == IF host.live = "up" THEN "dead" ELSE host.live

\* A new connection.  The host's task of the one before keeps the host busy until
\* it sees the end, and a question to its user does not see it.
Opens(first) ==
    /\ conn' = [Closed EXCEPT !.open = TRUE, !.toHost = first]
    /\ host' = [task |-> CASE host.task = "decide" -> "orphan"
                           [] host.task \in {"request", "pake", "upgrade"} -> "other"
                           [] OTHER -> host.task,
                live |-> Dead]
    /\ failures' = IF host.task = "pake" THEN failures + 1 ELSE failures

\* An attempt: choose the target, find it, connect, begin with TLS or the PIN.
Dial ==
    /\ client.at = "retry"
    /\ LET via == Target
           c == [client EXCEPT !.via = via, !.known = @ /\ via # "known"]
           tls == trust.client \/ (ByAddress(via) /\ setup.trustedOnly) IN
       \/ /\ ~(via = "fast" /\ client.stale)
          /\ tls => trust.client
          /\ tls \/ ~setup.trustedOnly
          /\ client' = [c EXCEPT !.at = IF tls THEN "mtls" ELSE "hello",
                                 !.stale = @ /\ via \notin {"known", "found"}]
          /\ Opens(IF tls THEN "tls" ELSE "hello")
          /\ UNCHANGED troubles
       \/ /\ \/ (via = "fast" /\ client.stale) /\ UNCHANGED troubles
             \/ setup.trustedOnly /\ ~trust.client /\ UNCHANGED troubles
             \/ troubles < MaxTroubles /\ troubles' = troubles + 1
          /\ client' = Failed(c, FALSE)
          /\ UNCHANGED <<conn, host, failures>>
    /\ UNCHANGED <<setup, trust, excuse>>

\* The delay of the driver ends.
Backoff ==
    /\ client.at = "wait"
    /\ client' = [client EXCEPT !.at = "retry"]
    /\ UNCHANGED <<setup, conn, host, trust, failures, troubles, excuse>>

Told ==
    /\ client.at \notin {"over", "told"}
    /\ client' = [client EXCEPT !.at = "told"]
    /\ conn' = [conn EXCEPT !.open = FALSE] /\ host' = [host EXCEPT !.live = Dead]
    /\ UNCHANGED <<setup, trust, failures, troubles, excuse>>

-----------------------------------------------------------------------------
(* The client in an authentication.                                        *)

Hears(m) == conn.toClient = m
Sends(m) == conn' = [conn EXCEPT !.toClient = "", !.toHost = m]
Stage(s) == client' = [client EXCEPT !.at = s]

\* mTLS failed: by address without trusted_only the client falls back to the PIN
\* on a new connection, otherwise the attempt has failed.
FallsBack ==
    IF ByAddress(client.via) /\ ~setup.trustedOnly
    THEN Stage("hello") /\ Opens("hello")
    ELSE /\ client' = Failed(client, FALSE) /\ conn' = Closed
         /\ host' = [host EXCEPT !.live = Dead] /\ UNCHANGED failures

TrustedFails ==
    /\ client.at \in {"mtls", "answer"} /\ (~conn.open \/ Hears("error"))
    /\ conn.toClient \in {"", "error"}
    /\ FallsBack
    /\ UNCHANGED <<setup, trust, troubles, excuse>>

\* A failed bootstrap ends the runtime.
BootstrapFails ==
    /\ client.at \in {"hello", "pin", "ack", "decision", "remember"}
    /\ \/ client.at \notin {"pin", "remember"} /\ ~conn.open /\ conn.toClient = ""
       \/ client.at \notin {"pin", "remember"} /\ Hears("error")
       \/ client.at = "pin" \* the user cancels
    /\ client' = Failed(client, TRUE) /\ conn' = Closed
    /\ UNCHANGED <<setup, host, trust, failures, troubles, excuse>>

Proceeds(from, hears, to, says) ==
    /\ client.at = from /\ Hears(hears) /\ Stage(to) /\ Sends(says)
    /\ UNCHANGED <<setup, host, trust, failures, troubles, excuse>>

TrustedRequests == Proceeds("mtls", "tls", "answer", "request")
ChallengeArrives == Proceeds("hello", "challenge", "pin", "")
BootstrapRequests == Proceeds("ack", "ack", "decision", "request")

EnterPin(pin) ==
    /\ client.at = "pin"
    /\ Stage("ack") /\ Sends(pin)
    /\ UNCHANGED <<setup, host, trust, failures, troubles, excuse>>

InSession(c) == [c EXCEPT !.at = "session", !.direct = TRUE, !.stale = FALSE]

\* The decision of the host, verified.  That the device was seen is saved; when it cannot be,
\* the attempt has failed although the host has begun the session.
TrustedDecided ==
    /\ client.at = "answer" /\ conn.toClient \in {"accepted", "trusting"}
    /\ \/ /\ client' = InSession(client) /\ conn' = [conn EXCEPT !.toClient = ""]
          /\ UNCHANGED <<host, failures, troubles>>
       \/ troubles < MaxTroubles /\ troubles' = troubles + 1 /\ FallsBack
    /\ UNCHANGED <<setup, trust, excuse>>

\* With a PIN, a host that trusts is offered to be trusted.
BootstrapDecided ==
    /\ client.at = "decision" /\ conn.toClient \in {"accepted", "trusting"}
    /\ IF Hears("trusting") /\ ~trust.client THEN Stage("remember") ELSE client' = InSession(client)
    /\ conn' = [conn EXCEPT !.toClient = ""]
    /\ UNCHANGED <<setup, host, trust, failures, troubles, excuse>>

\* ConfirmTrust, or trust_device; when saving fails the pairing fails, although the
\* trust is already in memory.
ClientRemembers(yes, saved) ==
    /\ client.at = "remember"
    /\ trust' = [trust EXCEPT !.client = yes]
    /\ yes \/ saved
    /\ IF saved THEN client' = InSession(client) /\ UNCHANGED <<conn, host>>
       ELSE /\ client' = Failed(client, TRUE) /\ conn' = Closed
            /\ host' = [host EXCEPT !.live = Dead]
    /\ UNCHANGED <<setup, failures, troubles, excuse>>

\* connect_and_run_session returns Ok whatever ended the session.
SessionEnds ==
    /\ client.at = "session" /\ ~conn.open
    /\ client' = [client EXCEPT !.at = "retry", !.fast = FastRetries]
    /\ UNCHANGED <<setup, conn, host, trust, failures, troubles, excuse>>

-----------------------------------------------------------------------------
(* The host.  "other" is the authentication of another device.             *)

Says(m) == conn' = [conn EXCEPT !.toHost = "", !.toClient = m]
Leaves(m) == conn' = [conn EXCEPT !.open = FALSE, !.toHost = "", !.toClient = m]
HostTask(s) == host' = [host EXCEPT !.task = s]

Takes(m) == conn.open /\ conn.toHost = m

\* Admission of a TLS client: saved trust, and no session of it on this transport.
Admitted == trust.host /\ host.live = "none"

AcceptTls ==
    /\ Takes("tls")
    /\ IF host.task = "none" /\ Admitted
       THEN HostTask("request") /\ Says("tls")
       ELSE Leaves("") /\ UNCHANGED host
    /\ UNCHANGED <<setup, client, trust, failures, troubles, excuse>>

AcceptHello ==
    /\ Takes("hello")
    /\ IF host.task = "none" /\ failures < MaxFailures
       THEN HostTask("pake") /\ Says("challenge")
       ELSE Leaves("error") /\ UNCHANGED host
    /\ UNCHANGED <<setup, client, trust, failures, troubles, excuse>>

\* Mutant: the duplicate of a session that is still on the table stays open.
CompleteTwice(c, m) ==
    /\ host' = [host EXCEPT !.task = "none"]
    /\ conn' = [c EXCEPT !.toHost = "", !.toClient = m]

\* PairingComplete: a duplicate of an open session is turned away.
Complete(c, m) ==
    IF host.live # "none"
    THEN /\ host' = [host EXCEPT !.task = "none"]
         /\ conn' = [c EXCEPT !.open = FALSE, !.toHost = "", !.toClient = m]
    ELSE /\ host' = [task |-> "none", live |-> IF c.open THEN "up" ELSE "dead"]
         /\ conn' = [c EXCEPT !.toHost = "", !.toClient = m, !.tls = TRUE]

\* The request over mTLS is decided at once.  A failing save ends the connection
\* after the decision was sent.
HostDecidesTrusted ==
    /\ host.task = "request" /\ Takes("request")
    /\ \/ Admitted /\ Complete(conn, "accepted")
       \/ Admitted /\ troubles < MaxTroubles /\ HostTask("none") /\ Leaves("accepted")
       \/ ~Admitted /\ HostTask("none") /\ Leaves("error")
    /\ troubles' = IF Admitted /\ ~conn'.open THEN troubles + 1 ELSE troubles
    /\ UNCHANGED <<setup, client, trust, failures, excuse>>

\* The key exchange confirms the PIN of the other end, or it does not.
Pins == {"right", "wrong"}
Confirmed(pin) == pin = "right"

HostChecksPin ==
    /\ host.task = "pake" /\ conn.open /\ conn.toHost \in Pins
    /\ IF Confirmed(conn.toHost)
       THEN failures' = 0 /\ HostTask("upgrade") /\ Says("ack")
       ELSE failures' = failures + 1 /\ HostTask("none") /\ Leaves("error")
    /\ UNCHANGED <<setup, client, trust, troubles, excuse>>

HostTakesRequest ==
    /\ host.task = "upgrade" /\ Takes("request")
    /\ HostTask("decide") /\ Says("")
    /\ UNCHANGED <<setup, client, trust, failures, troubles, excuse>>

Decision(remember) ==
    IF ~conn.open THEN "" ELSE IF remember THEN "trusting" ELSE "accepted"

\* The user, or the options, accept and perhaps trust; the trust is remembered
\* after the decision was sent.
HostDecides(accepted, remember, saved) ==
    /\ host.task = "decide"
    /\ remember => accepted
    /\ setup.asks \/ accepted
    /\ saved \/ (remember /\ troubles < MaxTroubles)
    /\ trust' = [trust EXCEPT !.host = @ \/ remember, !.stored = @ \/ (remember /\ saved)]
    /\ excuse' = (excuse \/ ~saved) /\ troubles' = IF saved THEN troubles ELSE troubles + 1
    /\ LET m == Decision(remember) IN
       CASE accepted /\ saved -> Complete(conn, m)
         [] accepted /\ ~saved -> HostTask("none") /\ Leaves(m)
         [] OTHER -> HostTask("none") /\ Leaves("error")
    /\ UNCHANGED <<setup, client, failures>>

\* The user answers although the remote has gone.  The decision may still seem to
\* be sent.
OrphanDecides(remember) ==
    /\ host.task = "orphan"
    /\ trust' = [trust EXCEPT !.host = @ \/ remember, !.stored = @ \/ remember]
    /\ \E live \in {host.live} \cup (IF host.live = "none" THEN {"dead"} ELSE {}) :
          host' = [task |-> "none", live |-> live]
    /\ UNCHANGED <<setup, client, conn, failures, troubles, excuse>>

\* The user cancels while the PIN is shown, the remote is gone, or 90 seconds are
\* over.  A question to the user does not notice that the remote is gone.
HostGivesUp ==
    /\ host.task \in {"request", "pake", "upgrade", "decide"}
    /\ \/ ~conn.open
       \/ host.task \in {"pake", "upgrade"} /\ setup.asks
       \/ client.at = "pin" /\ host.task = "pake"
       \/ host.task = "decide" /\ setup.asks
    /\ failures' = IF host.task = "pake" /\ ~conn.open /\ failures < MaxFailures
                   THEN failures + 1 ELSE failures
    /\ HostTask("none") /\ Leaves("")
    /\ UNCHANGED <<setup, client, trust, troubles, excuse>>

\* The host's session task sees that the link is gone (keepalive), and the host
\* takes the session off its table.
HostNotices ==
    /\ host.live = "dead"
    /\ host' = [host EXCEPT !.live = "none"]
    /\ UNCHANGED <<setup, client, conn, trust, failures, troubles, excuse>>

OtherDone ==
    /\ host.task \in {"other", "orphan"}
    /\ HostTask("none")
    /\ UNCHANGED <<setup, client, conn, trust, failures, troubles, excuse>>

\* The failures are forgotten five minutes after the first.
Forgive ==
    /\ failures > 0 /\ host.task = "none"
    /\ failures' = 0
    /\ UNCHANGED <<setup, client, conn, host, trust, troubles, excuse>>

-----------------------------------------------------------------------------
(* What goes wrong.                                                        *)

Trouble == troubles < MaxTroubles /\ troubles' = troubles + 1

Loss ==
    /\ Trouble /\ conn.open
    /\ conn' = [conn EXCEPT !.open = FALSE, !.toHost = "", !.toClient = ""]
    /\ host' = [host EXCEPT !.live = Dead]
    /\ UNCHANGED <<setup, client, trust, failures, excuse>>

Move ==
    /\ Trouble /\ client.direct /\ ~conn.open
    /\ client' = [client EXCEPT !.stale = TRUE]
    /\ UNCHANGED <<setup, conn, host, trust, failures, excuse>>

OtherPairs ==
    /\ Trouble /\ host.task = "none"
    /\ HostTask("other")
    /\ UNCHANGED <<setup, client, conn, trust, failures, excuse>>

\* The host program ends and starts again with what it saved.
RestartHost ==
    /\ Trouble
    /\ host' = [task |-> "none", live |-> "none"]
    /\ conn' = [conn EXCEPT !.open = FALSE, !.toHost = ""]
    /\ trust' = [trust EXCEPT !.host = trust.stored] /\ failures' = 0
    /\ UNCHANGED <<setup, client, excuse>>

Revoke ==
    /\ Trouble /\ trust.host
    /\ trust' = [trust EXCEPT !.host = FALSE, !.stored = FALSE] /\ excuse' = TRUE
    /\ host' = [host EXCEPT !.live = "none"]
    /\ conn' = IF host.live = "up" THEN [conn EXCEPT !.open = FALSE] ELSE conn
    /\ UNCHANGED <<setup, client, failures>>

-----------------------------------------------------------------------------
Users ==
    \/ \E pin \in Pins : EnterPin(pin)
    \/ \E yes, saved \in BOOLEAN : ClientRemembers(yes, saved)

ClientSteps ==
    \/ Dial \/ Backoff \/ TrustedFails \/ BootstrapFails \/ SessionEnds
    \/ TrustedRequests \/ ChallengeArrives \/ BootstrapRequests
    \/ TrustedDecided \/ BootstrapDecided

HostSteps == AcceptTls \/ AcceptHello \/ HostDecidesTrusted \/ HostChecksPin \/ HostTakesRequest \/ HostGivesUp

Troubles == Loss \/ Move \/ OtherPairs \/ RestartHost \/ Revoke

ReconnectNext ==
    \/ ClientSteps \/ Told \/ Users
    \/ HostSteps \/ HostNotices \/ OtherDone \/ Forgive
    \/ \E accepted, remember, saved \in BOOLEAN : HostDecides(accepted, remember, saved)
    \/ \E remember \in BOOLEAN : OrphanDecides(remember)
    \/ Troubles

\* Tasks that can go on do; keepalive finds a dead link, and the authentication of
\* another device ends within 90 seconds.  No user has to answer.
ReconnectFairness ==
    /\ WF_reconnectVars(ClientSteps)
    /\ WF_reconnectVars(HostSteps)
    /\ WF_reconnectVars(HostNotices)
    /\ WF_reconnectVars(OtherDone)

ReconnectSpec == ReconnectInit /\ [][ReconnectNext]_reconnectVars /\ ReconnectFairness

-----------------------------------------------------------------------------
ReconnectTypeOK ==
    /\ client.via \in Vias /\ client.fast \in 0..FastRetries
    /\ host.task \in {"none", "request", "pake", "upgrade", "decide", "orphan", "other"}
    /\ host.live \in {"none", "up", "dead"}
    /\ failures \in 0..MaxFailures /\ troubles \in 0..MaxTroubles

\* A session the client believes in is the one the host holds, or one of them is
\* about to notice.
SessionAgreed ==
    (client.at = "session" /\ conn.open /\ conn.toClient = "") => host.live = "up"

\* A trusted_only client whose trust stands comes back to a session after every
\* loss, wherever the host moved and whatever it still held.
ComesBack ==
    (setup.trustedOnly /\ <>[](trust.client /\ trust.host)) =>
        <>[](client.at = "session" \/ client.at = "told")

\* A device that is trusted on both sides is never asked for a PIN again.
TrustedNeedsNoPin ==
    (trust.client /\ trust.host) => ~(client.at = "pin")
=============================================================================
