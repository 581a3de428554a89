----------------------------- MODULE Discovery ------------------------------
(***************************************************************************)
(* How a host is announced and found (crates/synly-core/src/discovery.rs,  *)
(* run_advertisement_updates and choose_peer in src/app.rs, the discovery  *)
(* events of src/core/supervisor.rs).  A host announces itself by mDNS and *)
(* at an LND server, and again whenever its modes or its settings change;  *)
(* each time it starts it listens on another port, so the life of a host   *)
(* stands for its port and for the addresses announced with it.  Another   *)
(* device keeps a list of what it hears, filled from both sources by one   *)
(* task, and a client looks its host up in that list or by a search of its *)
(* own.  Announcements are lost, goodbyes do not come, leases outlive      *)
(* hosts, and the list may be started afresh at any moment.                *)
(***************************************************************************)
EXTENDS Naturals, Sequences

CONSTANTS Modes,        \* what a host may offer
          Labels,       \* instance names, NoLabel among them
          MdnsStale, LndStale, \* ticks after which a source is no longer believed
          MaxNews,      \* bound: events of mDNS and of the list not yet handled
          Budgets       \* bounds: how often what may happen

NoLabel == "none"

\* Starts of the host, changes of its modes and settings, what mDNS tells, questions to the
\* server, its renewals, failures, restarts of the list, ticks, and searches of a client.
Kinds == {"lives", "settings", "tellings", "asks", "renewals", "failures", "respawns", "ticks", "searches"}

ASSUME DiscoveryAssumption ==
    /\ {MdnsStale, LndStale} \subseteq Nat \ {0} /\ LndStale <= MdnsStale
    /\ MaxNews \in Nat /\ Budgets \subseteq [Kinds -> Nat]
    /\ NoLabel \in Labels

VARIABLES
    station, \* the host: its life, what it should announce, what it does
    beacons, \* what is announced of it, by mDNS and by leases of the server, oldest first
    daemon,  \* the instances the listener's mDNS daemon holds, and its events under way
    list,    \* the task that keeps the list: its two caches, and what it waits for
    screen,  \* the list as the supervisor has it, and the epoch of that list
    seeker,  \* the client: what it looks for
    left     \* what remains of the budget

discoveryVars == <<station, beacons, daemon, list, screen, seeker, left>>

\* What is announced: modes, instance name, and by which backends.
Backends == {"mdns", "lnd"}
Faces == [modes : Modes, label : Labels, via : SUBSET Backends]

-----------------------------------------------------------------------------
(* The host.  "want" is what the program's watch channels hold, "fresh"    *)
(* says which of the two has a value the task has not seen.                *)

Up == station.at \in {"rest", "stopping", "announcing"}

NoBeacon == [life |-> 0, face |-> [modes |-> "none", label |-> NoLabel, via |-> {}]]

\* advertise: each backend that is switched on starts or not; it is an error if none does.
Succeeds(via, started) == via = {} \/ started # {}

Spend(kind) == left[kind] > 0 /\ left' = [left EXCEPT ![kind] = @ - 1]

StartHost ==
    /\ station.at = "down" /\ Spend("lives")
    /\ station' = [station EXCEPT !.at = "announcing", !.life = @ + 1, !.ad = station.want,
                                  !.fresh = {}, !.served = FALSE]
    /\ UNCHANGED <<beacons, daemon, list, screen, seeker>>

\* The user changes the modes, or the settings; the running host is told.
ChangeModes(m) ==
    /\ Spend("settings") /\ m # station.want.modes
    /\ station' = [station EXCEPT !.want.modes = m,
                                  !.fresh = IF Up THEN @ \cup {"modes"} ELSE @]
    /\ UNCHANGED <<beacons, daemon, list, screen, seeker>>

ChangeSettings(label, via) ==
    /\ Spend("settings")
    /\ station' = [station EXCEPT !.want.label = label, !.want.via = via,
                                  !.fresh = IF Up THEN @ \cup {"settings"} ELSE @]
    /\ UNCHANGED <<beacons, daemon, list, screen, seeker>>

\* What an update takes over from the channel that changed.
Updated(kind) ==
    IF kind = "modes" THEN [station.ad EXCEPT !.modes = station.want.modes]
    ELSE [station.want EXCEPT !.modes = station.ad.modes]

\* run_advertisement_updates sees a change, and stops the announcement before the next one.
\* mDNS goes at once; for the lease it waits.
NoticeChange(kind) ==
    /\ station.at = "rest" /\ kind \in station.fresh
    /\ LET next == Updated(kind)
       IN /\ station' = [station EXCEPT !.fresh = @ \ {kind}, !.ad = next,
                                        !.at = IF next = station.ad THEN "rest" ELSE "stopping"]
          /\ beacons' = IF next = station.ad THEN beacons ELSE [beacons EXCEPT !.mdns = FALSE]
    /\ UNCHANGED <<daemon, list, screen, seeker, left>>

\* The renewal of the lease has stopped, or the wait for that has ended: then the old lease may
\* be renewed once more, later.
StopRenewal ==
    \E late \in {NoBeacon} \cup (IF beacons.renews THEN {beacons.now} ELSE {}) :
       beacons' = [beacons EXCEPT !.mdns = FALSE, !.renews = FALSE, !.late = late]

\* Mutant: what changed during the wait counts as seen.
StoppedForgets ==
    /\ station.at = "stopping"
    /\ station' = [station EXCEPT !.at = "announcing", !.fresh = {}]
    /\ StopRenewal
    /\ UNCHANGED <<daemon, list, screen, seeker, left>>

Stopped ==
    /\ station.at = "stopping"
    /\ station' = [station EXCEPT !.at = "announcing"]
    /\ StopRenewal
    /\ UNCHANGED <<daemon, list, screen, seeker, left>>

Announce(started) ==
    /\ station.at = "announcing" /\ started \subseteq station.ad.via
    /\ \/ started = station.ad.via /\ UNCHANGED left
       \/ started # station.ad.via /\ Spend("failures")
    /\ station' = IF Succeeds(station.ad.via, started)
                  THEN [station EXCEPT !.at = "rest", !.served = TRUE]
                  ELSE [station EXCEPT !.at = "failed"]
    /\ beacons' = [beacons EXCEPT !.mdns = "mdns" \in started, !.renews = "lnd" \in started,
                                  !.now = [life |-> station.life, face |-> station.ad]]
    /\ UNCHANGED <<daemon, list, screen, seeker>>

\* The lease is made and renewed, by the renewal that was thought to have stopped too, and ends.
\* The server tells the leases of a device by their domain, so that it may hold several.
Place(i, beacon) ==
    IF i \in DOMAIN beacons.leases THEN beacons.leases[i].life = beacon.life
    ELSE \A l \in DOMAIN beacons.leases : beacons.leases[l].life # beacon.life

Without(i) ==
    SubSeq(beacons.leases, 1, i - 1) \o SubSeq(beacons.leases, i + 1, Len(beacons.leases))

Leased(beacon) ==
    /\ Spend("renewals")
    /\ \E i \in 1 .. Len(beacons.leases) + 1 :
          /\ Place(i, beacon)
          /\ beacons' = [beacons EXCEPT !.leases = Append(Without(i), beacon),
                                        !.late = IF beacon = @ THEN NoBeacon ELSE @]

Renew ==
    /\ beacons.renews /\ Leased(beacons.now)
    /\ UNCHANGED <<station, daemon, list, screen, seeker>>

RenewLate ==
    /\ beacons.late # NoBeacon /\ Leased(beacons.late)
    /\ UNCHANGED <<station, daemon, list, screen, seeker>>

Lapse ==
    /\ beacons.leases # <<>>
    /\ ~(beacons.renews /\ Head(beacons.leases) = beacons.now)
    /\ beacons' = [beacons EXCEPT !.leases = Tail(@)]
    /\ UNCHANGED <<station, daemon, list, screen, seeker, left>>

\* The host ends: it is told to, it crashes, or an update of its announcement failed, which
\* ends run_host_runtime and every session with it.
EndHost ==
    /\ Up \/ station.at = "failed"
    /\ station' = [station EXCEPT !.at = "down", !.fresh = {}]
    /\ StopRenewal
    /\ UNCHANGED <<daemon, list, screen, seeker, left>>

-----------------------------------------------------------------------------
(* The listener's mDNS daemon, outside the program: it tells what it hears *)
(* in order, and may miss anything.  An instance is named for its label,   *)
(* device and port.                                                        *)

Name(beacon) == <<beacon.life, beacon.face.label>>

Tell(event) ==
    /\ Spend("tellings") /\ Len(daemon.news) < MaxNews
    /\ daemon' = [daemon EXCEPT !.news = Append(@, event),
                                !.held = IF event.kind = "resolved" THEN @ \cup {Name(event.beacon)}
                                         ELSE @ \ {event.name}]

Hear ==
    /\ beacons.mdns /\ Tell([kind |-> "resolved", beacon |-> beacons.now])
    /\ UNCHANGED <<station, beacons, list, screen, seeker>>

Miss ==
    /\ \E name \in daemon.held :
          /\ ~(beacons.mdns /\ name = Name(beacons.now))
          /\ Tell([kind |-> "removed", name |-> name])
    /\ UNCHANGED <<station, beacons, list, screen, seeker>>

-----------------------------------------------------------------------------
(* The list.  A cached peer has the port it is listed with, the lives      *)
(* whose addresses it has, what it says of the host, and its age.          *)

Listed(beacon) == [port |-> beacon.life, from |-> {beacon.life}, face |-> beacon.face]
Seen(beacon) == [peer |-> Listed(beacon), age |-> 0]
Nobody == [peer |-> [port |-> 0, from |-> {}, face |-> NoBeacon.face], age |-> 0]

EmptyList == [mdns |-> {}, lnd |-> Nobody, at |-> "idle", swept |-> TRUE, dirty |-> TRUE, last |-> 0]

\* Mutant: an older instance stays beside the new one.
UpsertBeside(cache, beacon) ==
    {e \in cache : e.name # Name(beacon)} \cup {[name |-> Name(beacon), seen |-> Seen(beacon)]}

\* DiscoveryCache::upsert_mdns: one instance of a device, the one heard last.
Upsert(cache, beacon) == {[name |-> Name(beacon), seen |-> Seen(beacon)]}

RemoveMdns(cache, name) == {e \in cache : e.name # name}

\* Mutant: the addresses are added whatever the port.
MergeAny(peer, other) == [peer EXCEPT !.from = @ \cup other.from]

\* merge_peers: what mDNS says comes first, and the addresses of the lease are added when its
\* port is the same.
Merge(peer, other) ==
    IF other.port = 0 THEN peer
    ELSE IF peer.port = other.port THEN [peer EXCEPT !.from = @ \cup other.from] ELSE peer

Snapshot(mdns, lnd) ==
    IF mdns = {} THEN lnd.peer ELSE Merge((CHOOSE e \in mdns : TRUE).seen.peer, lnd.peer)

TakeNews ==
    /\ list.at = "idle" /\ daemon.news # <<>>
    /\ LET event == Head(daemon.news)
       IN list' = [list EXCEPT !.dirty = TRUE,
                     !.mdns = IF event.kind = "resolved" THEN Upsert(@, event.beacon)
                              ELSE RemoveMdns(@, event.name),
                     !.last = IF event.kind = "resolved" THEN event.beacon.life ELSE @]
    /\ daemon' = [daemon EXCEPT !.news = Tail(@)]
    /\ UNCHANGED <<station, beacons, screen, seeker, left>>

AskServer ==
    /\ list.at = "idle" /\ Spend("asks") /\ list' = [list EXCEPT !.at = "asking"]
    /\ UNCHANGED <<station, beacons, daemon, screen, seeker>>

\* discovered_peers_from_lnd: of several leases of a device the latest.
Latest(leases) == IF leases = <<>> THEN Nobody ELSE Seen(leases[Len(leases)])

ServerAnswers ==
    /\ list.at = "asking"
    /\ list' = [list EXCEPT !.at = "idle", !.lnd = Latest(beacons.leases), !.dirty = TRUE]
    /\ UNCHANGED <<station, beacons, daemon, screen, seeker, left>>

ServerFails ==
    /\ list.at = "asking" /\ Spend("failures")
    /\ list' = [list EXCEPT !.at = "idle"]
    /\ UNCHANGED <<station, beacons, daemon, screen, seeker>>

\* Mutant: only a lease expires.
BelievedForever(mdns) == mdns

Believed(mdns) == {e \in mdns : e.seen.age <= MdnsStale}

Expire ==
    /\ list.at = "idle" /\ ~list.swept
    /\ LET mdns == Believed(list.mdns)
           lnd == IF list.lnd.age <= LndStale THEN list.lnd ELSE Nobody
       IN list' = [list EXCEPT !.mdns = mdns, !.lnd = lnd, !.swept = TRUE,
                               !.dirty = @ \/ mdns # list.mdns \/ lnd # list.lnd]
    /\ UNCHANGED <<station, beacons, daemon, screen, seeker, left>>

Older(seen) == IF seen.peer.port = 0 THEN seen ELSE [seen EXCEPT !.age = @ + 1]

\* The sweep comes every second and a question to the server ends within three: a tick, which is
\* longer than that, does not pass without a sweep.
Tick ==
    /\ list.swept /\ list.at = "idle" /\ Spend("ticks")
    /\ list' = [list EXCEPT !.swept = FALSE, !.lnd = Older(@),
                            !.mdns = {[e EXCEPT !.seen = Older(@)] : e \in @}]
    /\ UNCHANGED <<station, beacons, daemon, screen, seeker>>

\* The list reaches the supervisor through a watch, a task, and a queue of events that carry the
\* epoch they were made in.
Publish ==
    /\ list.dirty /\ Len(screen.mail) < MaxNews
    /\ list' = [list EXCEPT !.dirty = FALSE]
    /\ screen' = [screen EXCEPT !.mail =
                    Append(@, [epoch |-> screen.epoch, peer |-> Snapshot(list.mdns, list.lnd)])]
    /\ UNCHANGED <<station, beacons, daemon, seeker, left>>

Shows(event) == IF event.epoch = screen.epoch THEN event.peer ELSE screen.peer

TakeList ==
    /\ screen.mail # <<>>
    /\ screen' = [screen EXCEPT !.peer = Shows(Head(screen.mail)), !.mail = Tail(@)]
    /\ UNCHANGED <<station, beacons, daemon, list, seeker, left>>

\* RefreshDiscovery, or other settings: the list starts from nothing.
Respawn ==
    /\ Spend("respawns")
    /\ screen' = [screen EXCEPT !.epoch = @ + 1]
    /\ list' = EmptyList
    /\ daemon' = [held |-> {}, news |-> <<>>]
    /\ UNCHANGED <<station, beacons, seeker>>

-----------------------------------------------------------------------------
(* The client.  Its query is a device, which every life of it matches, or  *)
(* an instance name.                                                       *)

\* peer_matches_query, and select_peer_from_query for what one list holds of the host.
Matches(peer, query) == peer.port # 0 /\ query \in {"device", peer.face.label}

\* preferred_peer_query: the instance name if there is one.
PreferredQuery(peer) == IF peer.face.label = NoLabel THEN "device" ELSE peer.face.label

Reachable(peer) == Up /\ peer.port = station.life

\* discovered_peer_target refuses a host that offers nothing.
Fits(peer, query) == Matches(peer, query) /\ peer.face.modes # "off"

Aimed(peer) ==
    IF Fits(peer, seeker.query)
    THEN [at |-> "connecting", target |-> peer, query |-> PreferredQuery(peer)]
    ELSE [seeker EXCEPT !.at = "searching"]

\* start_session takes what the list shows as its first target, and falls back to a search.
StartClient ==
    /\ seeker.at = "idle" /\ Spend("searches") /\ seeker' = Aimed(screen.peer)
    /\ UNCHANGED <<station, beacons, daemon, list, screen>>

Connect ==
    /\ seeker.at = "connecting"
    /\ seeker' = [seeker EXCEPT !.at = IF Reachable(seeker.target) THEN "connected" ELSE "searching"]
    /\ UNCHANGED <<station, beacons, daemon, list, screen, left>>

\* browse: a daemon of its own hears the host or not, the server answers or not.
Heard(mdns) == IF mdns /\ beacons.mdns THEN Upsert({}, beacons.now) ELSE {}
Asked(lnd) == IF lnd THEN Latest(beacons.leases) ELSE Nobody

Found(mdns, lnd) == Snapshot(Heard(mdns), Asked(lnd))

Search(mdns, lnd) ==
    /\ seeker.at = "searching" /\ Spend("searches") /\ seeker' = Aimed(Found(mdns, lnd))
    /\ UNCHANGED <<station, beacons, daemon, list, screen>>

\* The session ends.  The direct retries that come first are modelled in Reconnect.
LoseSession ==
    /\ seeker.at = "connected" /\ seeker' = [seeker EXCEPT !.at = "searching"]
    /\ UNCHANGED <<station, beacons, daemon, list, screen, left>>

-----------------------------------------------------------------------------
DiscoveryInit ==
    /\ \E face \in Faces :
          /\ face.via = Backends /\ face.modes # "off"
          /\ station = [at |-> "down", life |-> 0, want |-> face, ad |-> face, fresh |-> {},
                        served |-> FALSE]
          /\ beacons = [mdns |-> FALSE, renews |-> FALSE, late |-> NoBeacon, leases |-> <<>>,
                        now |-> NoBeacon]
    /\ daemon = [held |-> {}, news |-> <<>>]
    /\ list = EmptyList
    /\ screen = [epoch |-> 1, peer |-> Nobody.peer, mail |-> <<>>]
    /\ seeker = [at |-> "idle", query |-> "device", target |-> Nobody.peer]
    /\ left \in Budgets

HostNext ==
    \/ StartHost \/ Stopped \/ Renew \/ RenewLate \/ Lapse \/ EndHost
    \/ \E m \in Modes : ChangeModes(m)
    \/ \E label \in Labels, via \in SUBSET Backends : ChangeSettings(label, via)
    \/ \E kind \in {"modes", "settings"} : NoticeChange(kind)
    \/ \E started \in SUBSET Backends : Announce(started)

ListNext ==
    \/ Hear \/ Miss \/ TakeNews \/ AskServer \/ ServerAnswers \/ ServerFails
    \/ Expire \/ Tick \/ Publish \/ TakeList \/ Respawn

SeekerNext ==
    \/ StartClient \/ Connect \/ LoseSession
    \/ \E mdns, lnd \in BOOLEAN : Search(mdns, lnd)

DiscoveryNext == HostNext \/ ListNext \/ SeekerNext

DiscoverySpec == DiscoveryInit /\ [][DiscoveryNext]_discoveryVars

-----------------------------------------------------------------------------
\* What is announced in the end is what the user set last, whichever of the two channels
\* changed while the announcement before was being taken down.
AnnouncedIsCurrent == station.at = "rest" /\ station.fresh = {} => station.ad = station.want

\* A listed peer is one instance: every address listed with a port was announced with it, though
\* one source may still have the host before its restart and the other the one after.
OneInstance == screen.peer.from \subseteq {screen.peer.port} /\ seeker.target.from \subseteq {seeker.target.port}

\* Once the restart of a host has been heard, the list does not go back to the instance before
\* by mDNS, whose goodbye may come late or never.
NewestIsListed ==
    \A e \in list.mdns : e.seen.peer.port = list.last

\* A host that is gone without a word is forgotten: no source is believed longer than its time.
GoneIsForgotten ==
    /\ \A e \in list.mdns : e.seen.age <= MdnsStale + 1
    /\ list.lnd.age <= LndStale + 1
    /\ list.swept => /\ \A e \in list.mdns : e.seen.age <= MdnsStale
                     /\ list.lnd.age <= LndStale

DiscoveryIsTrue == AnnouncedIsCurrent /\ OneInstance /\ NewestIsListed /\ GoneIsForgotten

\* README.md promises that new modes are announced while the sessions go on; an announcement
\* that cannot be renewed ends the host.  Stated of the code, and refuted by it.
UpdatesKeepSessions == station.at = "failed" => ~station.served

\* A client in search of the host it was connected to finds it when the host is announced and
\* heard.  Refuted: the client looks for the instance name of before.
FindsItsHost ==
    seeker.at = "searching" /\ station.at = "rest" /\ station.fresh = {} /\ beacons.mdns /\ beacons.late = NoBeacon
       => Matches(Found(TRUE, FALSE), seeker.query)
=============================================================================
