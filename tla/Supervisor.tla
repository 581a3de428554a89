----------------------------- MODULE Supervisor -----------------------------
(***************************************************************************)
(* The application supervisor of the desktop program                       *)
(* (src/core/supervisor.rs): one loop that owns the configuration, at most *)
(* one running session and the snapshot the user interface shows.  The     *)
(* session, host or client, is a task of its own that talks to the loop    *)
(* through a shutdown token, watched capabilities and a stream of events   *)
(* (runtime_control.rs).  Commands of the user and events of any session,  *)
(* also of one that was stopped long ago, reach the loop in any order.     *)
(***************************************************************************)
EXTENDS Naturals, Sequences, FiniteSets

CONSTANTS MaxRuns,     \* bound: sessions started
          MaxUiCommands, \* bound: commands of the user
          MaxPrompts,  \* bound: questions to the user
          MaxReports   \* bound: events of one session not yet handled

ASSUME SupervisorAssumption ==
    /\ {MaxRuns, MaxUiCommands, MaxPrompts} \subseteq Nat
    /\ MaxReports \in Nat \ {0, 1, 2}

VARIABLES
    turn,       \* what the supervisor waits for inside a turn
    session,    \* the session whose handle it holds, 0 if none
    snap,       \* the published snapshot
    desired,    \* the mode the user asked for
    responders, \* questions whose answer channel it holds
    scan,       \* Bluetooth discovery: epoch, whether shown as running, reports under way
    runs,       \* the session tasks
    reports,    \* their events, not yet handled
    commands, prompts \* how many were given so far

supervisorVars ==
    <<turn, session, snap, desired, responders, scan, runs, reports, commands, prompts>>

Runs == 1..MaxRuns
Modes == {"off", "on"}
None == "none"
Lives == {"Idle", "Trying", "Pairing", "Connected", "Stopping", "Error"}

Unstarted == [state |-> "unstarted", told |-> FALSE, watched |-> "off", local |-> "off",
              acked |-> TRUE, linked |-> FALSE, asks |-> 0, guard |-> FALSE]

IdleSnapshot == [life |-> "Idle", applied |-> None, pending |-> None, peer |-> 0, prompt |-> 0]

SupervisorInit ==
    /\ turn = "free" /\ session = 0 /\ snap = IdleSnapshot /\ desired \in Modes
    /\ responders = {} /\ scan = [epoch |-> 0, on |-> FALSE, late |-> {}]
    /\ runs = [r \in Runs |-> Unstarted]
    /\ reports = [r \in Runs |-> <<>>]
    /\ commands = 0 /\ prompts = 0

IsRunning(r) == runs[r].state = "running"

-----------------------------------------------------------------------------
(* Helpers of the loop.                                                    *)

CancelScan == scan' = IF scan.on THEN [scan EXCEPT !.epoch = @ + 1, !.on = FALSE] ELSE scan

\* start_session, from snapshot s and the tasks rs: the options or the platform
\* may refuse, otherwise a task starts with the mode of this moment.
Start(s, rs, mode) ==
    /\ CancelScan
    /\ \/ /\ snap' = [s EXCEPT !.life = "Error"]
          /\ runs' = rs /\ session' = 0
       \/ \E r \in Runs :
             /\ \A q \in Runs : rs[q].state = "unstarted" <=> q >= r
             /\ runs' = [rs EXCEPT ![r] = [Unstarted EXCEPT !.state = "running",
                                               !.watched = mode, !.local = mode]]
             /\ session' = r
             /\ snap' = [s EXCEPT !.life = "Trying", !.applied = mode, !.pending = None]

\* stop_session takes the handle, cancels the token and waits for the task; the
\* rest of the turn comes when the task has ended.
BeginStop(next) ==
    /\ session # 0
    /\ turn' = next
    /\ snap' = [snap EXCEPT !.life = "Stopping"]
    /\ runs' = [runs EXCEPT ![session].told = TRUE]

\* Dropping the channel of a question wakes the session that asked.
Hangup(rs, gone) ==
    [r \in Runs |-> IF rs[r].asks \in gone THEN [rs[r] EXCEPT !.asks = 0] ELSE rs[r]]

RestoreLife(s) ==
    IF s.life # "Pairing" THEN s
    ELSE [s EXCEPT !.life = IF s.peer = 0 THEN "Trying" ELSE "Connected"]

-----------------------------------------------------------------------------
(* Commands of the user; each is one turn of the loop, or its first half.  *)

Command == turn = "free" /\ commands < MaxUiCommands /\ commands' = commands + 1

PressStart ==
    /\ Command /\ session = 0
    /\ Start(snap, runs, desired)
    /\ UNCHANGED <<turn, desired, responders, reports, prompts>>

\* Mutant: the running session is not told.
SetModeQuietly(m) ==
    /\ Command
    /\ desired' = m
    /\ snap' = IF session = 0 THEN snap ELSE [snap EXCEPT !.pending = m]
    /\ UNCHANGED <<turn, session, responders, scan, runs, reports, prompts>>

SetMode(m) ==
    /\ Command
    /\ desired' = m
    /\ IF session = 0 THEN UNCHANGED <<snap, runs>>
       ELSE /\ snap' = [snap EXCEPT !.pending = m]
            /\ runs' = [runs EXCEPT ![session].watched = m]
    /\ UNCHANGED <<turn, session, responders, scan, reports, prompts>>

\* ConnectPeer, StartHosting and settings that need a new connection.
Restart(m) ==
    /\ Command
    /\ desired' = m
    /\ \/ BeginStop("restart") /\ UNCHANGED <<session, scan>>
       \/ /\ session = 0
          /\ Start([snap EXCEPT !.life = "Idle", !.applied = None], runs, m)
          /\ UNCHANGED turn
    /\ UNCHANGED <<responders, reports, prompts>>

EndSession ==
    /\ Command
    /\ \/ BeginStop("stop")
       \/ /\ session = 0
          /\ snap' = [snap EXCEPT !.life = "Idle", !.applied = None]
          /\ UNCHANGED <<turn, runs>>
    /\ UNCHANGED <<session, desired, responders, scan, reports, prompts>>

Shutdown ==
    /\ Command
    /\ \/ BeginStop("leave")
       \/ /\ session = 0 /\ turn' = "gone"
          /\ snap' = [snap EXCEPT !.life = "Stopping", !.applied = None]
          /\ UNCHANGED runs
    /\ CancelScan
    /\ UNCHANGED <<session, desired, responders, reports, prompts>>

\* An answer goes to the session that asked, whatever is shown meanwhile.
Respond(n) ==
    /\ turn = "free"
    /\ n \in responders \/ snap.prompt = n
    /\ responders' = responders \ {n}
    /\ runs' = IF n \in responders THEN Hangup(runs, {n}) ELSE runs
    /\ snap' = IF snap.prompt = n THEN RestoreLife([snap EXCEPT !.prompt = 0]) ELSE snap
    /\ UNCHANGED <<turn, session, desired, scan, reports, commands, prompts>>

RefreshBluetooth ==
    /\ Command
    /\ ~scan.on /\ snap.peer = 0 /\ snap.life \notin {"Trying", "Pairing", "Stopping"}
    /\ scan' = [epoch |-> scan.epoch + 1, on |-> TRUE, late |-> scan.late \cup {scan.epoch + 1}]
    /\ UNCHANGED <<turn, session, snap, desired, responders, runs, reports, prompts>>

CancelBluetooth ==
    /\ Command
    /\ CancelScan
    /\ UNCHANGED <<turn, session, snap, desired, responders, runs, reports, prompts>>

-----------------------------------------------------------------------------
(* The second half of a turn that stops the session: its task ended, or    *)
(* five seconds passed and it was aborted.                                 *)

Cleared == [snap EXCEPT !.life = "Idle", !.applied = None, !.peer = 0, !.prompt = 0]

\* Mutant: the session that did not end in time is not aborted.
JoinedLater == Hangup(runs, responders)

Joined == [Hangup(runs, responders) EXCEPT ![session].state = "over"]

StopEnds ==
    /\ turn \in {"stop", "restart", "leave"}
    /\ responders' = {}
    /\ turn' = IF turn = "leave" THEN "gone" ELSE "free"
    /\ IF turn = "restart" THEN Start(Cleared, Joined, desired)
       ELSE /\ snap' = [Cleared EXCEPT !.life = IF turn = "leave" THEN "Stopping" ELSE "Idle"]
            /\ runs' = Joined /\ session' = 0
            /\ UNCHANGED scan
    /\ UNCHANGED <<desired, reports, commands, prompts>>

-----------------------------------------------------------------------------
(* Events that reach the loop.                                             *)

\* The task of a session ended by itself.
HearFinished(r) ==
    /\ turn = "free" /\ runs[r].state = "ended"
    /\ IF r # session
       THEN /\ runs' = [runs EXCEPT ![r].state = "over"]
            /\ UNCHANGED <<session, snap, responders>>
       ELSE /\ runs' = [Hangup(runs, responders) EXCEPT ![r].state = "over"]
            /\ session' = 0 /\ responders' = {}
            /\ \E life \in {"Idle", "Error"} :
                  snap' = [Cleared EXCEPT !.pending = None, !.life = life]
    /\ UNCHANGED <<turn, desired, scan, reports, commands, prompts>>

\* handle_runtime_event: what the snapshot becomes, and which channels are kept.
Shown(s, e, r) ==
    CASE e.kind = "connected" -> [s EXCEPT !.peer = r, !.life = "Connected"]
      [] e.kind = "disconnected" -> [s EXCEPT !.peer = 0, !.life = "Trying"]
      [] e.kind = "prompt" -> [s EXCEPT !.prompt = e.what, !.life = "Pairing"]
      [] e.kind = "clear" -> RestoreLife([s EXCEPT !.prompt = 0])
      [] e.kind = "mode" /\ s.peer = 0 -> s
      [] OTHER -> [s EXCEPT !.applied = e.what,
                            !.pending = IF e.acked /\ e.what = desired THEN None ELSE @]

Kept(e) ==
    CASE e.kind = "prompt" -> (responders \ {snap.prompt}) \cup {e.what}
      [] e.kind = "clear" -> responders \ {snap.prompt}
      [] OTHER -> responders

\* Mutant: the number of the session is not compared.
HearReportOfAny(r) ==
    /\ turn = "free" /\ reports[r] # <<>>
    /\ reports' = [reports EXCEPT ![r] = Tail(@)]
    /\ snap' = Shown(snap, Head(reports[r]), r)
    /\ responders' = Kept(Head(reports[r]))
    /\ runs' = Hangup(runs, responders \ responders')
    /\ UNCHANGED <<turn, session, desired, scan, commands, prompts>>

HearReport(r) ==
    /\ turn = "free" /\ reports[r] # <<>>
    /\ reports' = [reports EXCEPT ![r] = Tail(@)]
    /\ LET e == Head(reports[r]) IN
       IF r # session
       THEN /\ runs' = IF e.kind = "prompt" THEN Hangup(runs, {e.what}) ELSE runs
            /\ UNCHANGED <<snap, responders, scan>>
       ELSE /\ snap' = Shown(snap, e, r)
            /\ responders' = Kept(e)
            /\ runs' = Hangup(runs, responders \ Kept(e))
            /\ IF e.kind = "connected" THEN CancelScan ELSE UNCHANGED scan
    /\ UNCHANGED <<turn, session, desired, commands, prompts>>

\* Rows and the end of a Bluetooth scan, of the current epoch or late.
HearScan(e) ==
    /\ turn = "free" /\ e \in scan.late
    /\ scan' = [scan EXCEPT !.late = @ \ {e}, !.on = @ /\ e # scan.epoch]
    /\ UNCHANGED <<turn, session, snap, desired, responders, runs, reports, commands, prompts>>

-----------------------------------------------------------------------------
(* The session task, as far as the supervisor sees it.                     *)

Say(r, es) ==
    /\ Len(reports[r]) + Len(es) <= MaxReports
    /\ reports' = [reports EXCEPT ![r] = @ \o es]

Mode(m, acked) == [kind |-> "mode", what |-> m, acked |-> acked]

TaskStep(r) == IsRunning(r) /\ UNCHANGED <<turn, session, snap, desired, responders, scan, commands>>

\* A pairing asks: a host shows its PIN under a guard that clears the question
\* when it is dropped; other questions have no guard, and the one that follows
\* the PIN takes the guard away.
Ask(r, guard) ==
    /\ TaskStep(r) /\ ~runs[r].linked /\ prompts < MaxPrompts
    /\ runs[r].asks = 0 \/ (runs[r].guard /\ ~guard)
    /\ prompts' = prompts + 1
    /\ Say(r, <<[kind |-> "prompt", what |-> prompts + 1]>>)
    /\ runs' = [runs EXCEPT ![r].asks = prompts + 1, ![r].guard = guard]

\* The pairing goes on or is given up: the remote left, its time is over, or the
\* question was answered.
PairingReturns(r) ==
    /\ TaskStep(r) /\ (runs[r].asks # 0 \/ runs[r].guard)
    /\ IF runs[r].guard THEN Say(r, <<[kind |-> "clear"]>>) ELSE UNCHANGED reports
    /\ runs' = [runs EXCEPT ![r].asks = 0, ![r].guard = FALSE]
    /\ UNCHANGED prompts

\* The attempt that succeeds read the watched mode when it began, and looks again.
Link(r) ==
    /\ TaskStep(r) /\ ~runs[r].linked /\ runs[r].asks = 0 /\ ~runs[r].guard
    /\ \E m \in {runs[r].local, runs[r].watched} :
          /\ runs' = [runs EXCEPT ![r].linked = TRUE, ![r].local = runs[r].watched,
                                  ![r].acked = m = runs[r].watched]
          /\ Say(r, <<[kind |-> "connected"], Mode(m, TRUE)>>
                    \o (IF m = runs[r].watched THEN <<>> ELSE <<Mode(runs[r].watched, FALSE)>>))
    /\ UNCHANGED prompts

SeeMode(r) ==
    /\ TaskStep(r) /\ runs[r].linked /\ runs[r].local # runs[r].watched
    /\ runs' = [runs EXCEPT ![r].local = runs[r].watched, ![r].acked = FALSE]
    /\ Say(r, <<Mode(runs[r].watched, FALSE)>>)
    /\ UNCHANGED prompts

PeerConfirms(r) ==
    /\ TaskStep(r) /\ runs[r].linked /\ ~runs[r].acked
    /\ runs' = [runs EXCEPT ![r].acked = TRUE]
    /\ Say(r, <<Mode(runs[r].local, TRUE)>>)
    /\ UNCHANGED prompts

Unlink(r) ==
    /\ TaskStep(r) /\ runs[r].linked
    /\ runs' = [runs EXCEPT ![r].linked = FALSE, ![r].local = runs[r].watched]
    /\ Say(r, <<[kind |-> "disconnected"]>>)
    /\ UNCHANGED prompts

\* The task ends because it was told to, or for a reason of its own.
TaskEnds(r) ==
    /\ TaskStep(r)
    /\ runs' = [runs EXCEPT ![r].state = "ended", ![r].linked = FALSE,
                            ![r].asks = 0, ![r].guard = FALSE]
    /\ IF runs[r].guard THEN Say(r, <<[kind |-> "clear"]>>) ELSE UNCHANGED reports
    /\ UNCHANGED prompts

-----------------------------------------------------------------------------
Commands ==
    \/ PressStart \/ EndSession \/ Shutdown \/ RefreshBluetooth \/ CancelBluetooth
    \/ \E m \in Modes : SetMode(m) \/ Restart(m)

Answers == \E n \in 1..MaxPrompts : Respond(n)

Hears == \E r \in Runs : HearFinished(r) \/ HearReport(r)

Task(r) ==
    \/ \E g \in BOOLEAN : Ask(r, g)
    \/ PairingReturns(r) \/ Link(r) \/ SeeMode(r) \/ PeerConfirms(r) \/ Unlink(r) \/ TaskEnds(r)

SupervisorNext ==
    \/ Commands \/ Answers \/ StopEnds \/ Hears
    \/ \E e \in scan.late : HearScan(e)
    \/ \E r \in Runs : Task(r)

\* The loop takes every event and its wait for a stopped session ends after five
\* seconds; a connected session is polled and its peer confirms.  The user, other
\* pairings and the network promise nothing.
SupervisorFairness ==
    /\ WF_supervisorVars(StopEnds)
    /\ \A r \in Runs :
          /\ WF_supervisorVars(HearFinished(r) \/ HearReport(r))
          /\ WF_supervisorVars(SeeMode(r))
          /\ WF_supervisorVars(PeerConfirms(r))
    /\ \A n \in 1..MaxPrompts : WF_supervisorVars(Respond(n))

SupervisorSpec == SupervisorInit /\ [][SupervisorNext]_supervisorVars /\ SupervisorFairness

-----------------------------------------------------------------------------
SupervisorTypeOK ==
    /\ turn \in {"free", "stop", "restart", "leave", "gone"}
    /\ session \in 0..MaxRuns
    /\ snap \in [life : Lives, applied : Modes \cup {None}, pending : Modes \cup {None},
                 peer : 0..MaxRuns, prompt : 0..MaxPrompts]
    /\ desired \in Modes /\ responders \subseteq 1..MaxPrompts
    /\ \A r \in Runs : Len(reports[r]) <= MaxReports

\* At most one session runs at any time, also while an older one is ending, so that
\* ports, clipboard and input devices are never shared; and what the user sees is of
\* that session: a peer, a question and applied settings of an older one are never
\* shown, whatever arrives late.
OneSession ==
    /\ \A r \in Runs : IsRunning(r) => r = session
    /\ session = 0 => snap.peer = 0 /\ snap.prompt = 0 /\ snap.applied = None /\ responders = {}
    /\ snap.peer \in {0, session}

\* The settings the user last chose come into effect with the peer, if it stays.
ModeReachesPeer ==
    \A r \in Runs :
        <>[](runs[r].linked /\ session = r) => <>[](snap.applied = desired)

\* "Settings wait to be applied" goes away once they are.
PendingClears ==
    \A r \in Runs :
        <>[](runs[r].linked /\ session = r) => <>[](snap.pending = None)
=============================================================================
