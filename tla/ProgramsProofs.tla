----------------------------- MODULE ProgramsProofs -----------------------------
(***************************************************************************)
(* The programs around a session show and run what they should, however    *)
(* many sessions, clients, questions and events there are: the supervisor  *)
(* of the desktop program runs one session and shows nothing of an older   *)
(* one; the screen of the Android application shows the client whose       *)
(* handle the engine holds; the host leaks no reservation, leaves no       *)
(* device holding the slot without a session, and never takes a live       *)
(* session out of its table, for any set of clients and any limit; and     *)
(* the client of the phone and its desktop believe each other and come to  *)
(* have what was set, with the device that was wanted.                     *)
(***************************************************************************)
EXTENDS Supervisor, MobileClient, HostSessions, ClientSession, FiniteSetTheorems,
        SequenceTheorems, WellFoundedInduction, TLAPS

--------------------------------------------------------------------------------
(* The supervisor.                                                         *)

Snapshots == [life : Lives, applied : Modes \cup {None}, pending : Modes \cup {None},
              peer : 0..MaxRuns, prompt : 0..MaxPrompts]

RunTasks == [state : {"unstarted", "running", "ended", "over"}, told : BOOLEAN, watched : Modes,
             local : Modes, acked : BOOLEAN, linked : BOOLEAN, asks : 0..MaxPrompts,
             guard : BOOLEAN]

Reports ==
    [kind : {"connected", "disconnected", "clear"}]
    \cup [kind : {"prompt"}, what : 1..MaxPrompts]
    \cup [kind : {"mode"}, what : Modes, acked : BOOLEAN]

SupervisorTypes ==
    /\ SupervisorTypeOK
    /\ runs \in [Runs -> RunTasks] /\ reports \in [Runs -> Seq(Reports)]
    /\ prompts \in 0..MaxPrompts

(* OneSession is inductive once the records have their types: whatever     *)
(* would show something of a session compares its number first.            *)
SupervisorInv == SupervisorTypes /\ OneSession

(* What an answer and a report do to the snapshot.                         *)
LEMMA RestoredFacts ==
    ASSUME NEW s \in Snapshots
    PROVE  /\ RestoreLife(s) \in Snapshots
           /\ RestoreLife(s).peer = s.peer /\ RestoreLife(s).prompt = s.prompt
           /\ RestoreLife(s).applied = s.applied
<1>1. CASE s.life # "Pairing"
  BY <1>1 DEF RestoreLife
<1>2. CASE s.life = "Pairing"
  <2>1. PICK life \in Lives : RestoreLife(s) = [s EXCEPT !.life = life]
    BY <1>2 DEF RestoreLife, Lives
  <2>2. QED  BY <2>1 DEF Snapshots
<1>3. QED  BY <1>1, <1>2

LEMMA ShownFacts ==
    ASSUME NEW s \in Snapshots, NEW e \in Reports, NEW r \in Runs
    PROVE  /\ Shown(s, e, r) \in Snapshots
           /\ Shown(s, e, r).peer \in {0, s.peer, r}
<1>1. /\ RestoreLife([s EXCEPT !.prompt = 0]) \in Snapshots
      /\ RestoreLife([s EXCEPT !.prompt = 0]).peer = s.peer
  <2>1. [s EXCEPT !.prompt = 0] \in Snapshots /\ [s EXCEPT !.prompt = 0].peer = s.peer
    BY SupervisorAssumption DEF Snapshots
  <2>2. QED  BY <2>1, RestoredFacts
<1>2. CASE e.kind = "connected"
  <2>1. Shown(s, e, r) = [s EXCEPT !.peer = r, !.life = "Connected"]
    BY <1>2 DEF Shown
  <2>2. r \in 0..MaxRuns
    BY SupervisorAssumption DEF Runs
  <2>3. QED  BY <2>1, <2>2 DEF Snapshots, Lives
<1>3. CASE e.kind = "disconnected"
  <2>1. Shown(s, e, r) = [s EXCEPT !.peer = 0, !.life = "Trying"]
    BY <1>3 DEF Shown
  <2>2. 0 \in 0..MaxRuns
    BY SupervisorAssumption
  <2>3. QED  BY <2>1, <2>2 DEF Snapshots, Lives
<1>4. CASE e.kind = "prompt"
  <2>1. e.what \in 0..MaxPrompts
    BY <1>4, SupervisorAssumption DEF Reports
  <2>2. Shown(s, e, r) = [s EXCEPT !.prompt = e.what, !.life = "Pairing"]
    BY <1>4 DEF Shown
  <2>3. QED  BY <2>1, <2>2 DEF Snapshots, Lives
<1>5. CASE e.kind = "clear"
  BY <1>1, <1>5 DEF Shown
<1>6. CASE e.kind = "mode"
  <2>1. e.what \in Modes
    BY <1>6 DEF Reports
  <2>2. CASE s.peer = 0
    BY <1>6, <2>2 DEF Shown
  <2>3. CASE s.peer # 0
    BY <1>6, <2>1, <2>3 DEF Shown, Snapshots
  <2>4. QED  BY <2>2, <2>3
<1>7. e.kind \in {"connected", "disconnected", "prompt", "clear", "mode"}
  BY DEF Reports
<1>8. QED  BY <1>2, <1>3, <1>4, <1>5, <1>6, <1>7

(* Waking the sessions that wait for an answer changes no session's state. *)
LEMMA HangupFacts ==
    ASSUME NEW rs \in [Runs -> RunTasks], NEW gone
    PROVE  /\ Hangup(rs, gone) \in [Runs -> RunTasks]
           /\ \A r \in Runs : Hangup(rs, gone)[r].state = rs[r].state
<1>1. ASSUME NEW r \in Runs
      PROVE  [rs[r] EXCEPT !.asks = 0] \in RunTasks /\ [rs[r] EXCEPT !.asks = 0].state = rs[r].state
  BY SupervisorAssumption DEF RunTasks
<1>2. QED  BY <1>1 DEF Hangup

(* A session is started only from a snapshot and from tasks that know of   *)
(* none.                                                                   *)
LEMMA StartFacts ==
    ASSUME NEW s \in Snapshots, NEW rs \in [Runs -> RunTasks], NEW mode \in Modes,
           \A r \in Runs : rs[r].state # "running",
           s.peer = 0, s.prompt = 0, s.applied = None, responders' = {}, Start(s, rs, mode)
    PROVE  /\ snap' \in Snapshots /\ runs' \in [Runs -> RunTasks] /\ session' \in 0..MaxRuns
           /\ OneSession'
<1>1. CASE snap' = [s EXCEPT !.life = "Error"] /\ runs' = rs /\ session' = 0
  <2>1. snap' \in Snapshots /\ snap'.peer = 0 /\ snap'.prompt = 0 /\ snap'.applied = None
    BY <1>1 DEF Snapshots, Lives
  <2>2. QED  BY <1>1, <2>1, SupervisorAssumption DEF OneSession, IsRunning
<1>2. ASSUME NEW r \in Runs, session' = r,
             runs' = [rs EXCEPT ![r] = [Unstarted EXCEPT !.state = "running",
                                            !.watched = mode, !.local = mode]],
             snap' = [s EXCEPT !.life = "Trying", !.applied = mode, !.pending = None]
      PROVE  /\ snap' \in Snapshots /\ runs' \in [Runs -> RunTasks] /\ session' \in 0..MaxRuns
             /\ OneSession'
  <2>1. snap' \in Snapshots /\ snap'.peer = 0
    BY <1>2 DEF Snapshots, Lives
  <2>2. r \in 1..MaxRuns /\ MaxRuns \in Nat
    BY SupervisorAssumption DEF Runs
  <2>3. [Unstarted EXCEPT !.state = "running", !.watched = mode, !.local = mode] \in RunTasks
    <3>1. Unstarted \in RunTasks
      BY SupervisorAssumption DEF Unstarted, RunTasks, Modes
    <3>2. \A t \in RunTasks :
             [t EXCEPT !.state = "running", !.watched = mode, !.local = mode] \in RunTasks
      BY DEF RunTasks
    <3>3. QED  BY <3>1, <3>2
  <2>4. runs' \in [Runs -> RunTasks] /\ \A q \in Runs : q # r => runs'[q] = rs[q]
    BY <1>2, <2>3
  <2>5. QED  BY <1>2, <2>1, <2>2, <2>4 DEF OneSession, IsRunning
<1>3. QED  BY <1>1, <1>2 DEF Start

(* Init.                                                                   *)
LEMMA SupervisorBegins == SupervisorInit => SupervisorInv
<1> SUFFICES ASSUME SupervisorInit
             PROVE  SupervisorInv
    OBVIOUS
<1>1. Unstarted \in RunTasks
  BY SupervisorAssumption DEF Unstarted, RunTasks, Modes
<1>2. snap \in Snapshots
  BY SupervisorAssumption DEF SupervisorInit, IdleSnapshot, Snapshots, Lives
<1>3. reports \in [Runs -> Seq(Reports)] /\ \A r \in Runs : Len(reports[r]) = 0
  BY DEF SupervisorInit
<1>4. SupervisorTypeOK
  BY <1>2, <1>3, SupervisorAssumption DEF SupervisorInit, SupervisorTypeOK, Snapshots
<1>5. OneSession
  BY DEF SupervisorInit, OneSession, IsRunning, Unstarted, IdleSnapshot
<1>6. QED
  BY <1>1, <1>3, <1>4, <1>5, SupervisorAssumption DEF SupervisorInit, SupervisorInv, SupervisorTypes

(* A session task after one of its steps.                                  *)
LEMMA EditedTask ==
    ASSUME NEW t \in RunTasks, NEW m \in Modes, NEW b \in BOOLEAN, NEW n \in 0..MaxPrompts
    PROVE  /\ [t EXCEPT !.asks = n, !.guard = b] \in RunTasks
           /\ [t EXCEPT !.linked = TRUE, !.local = m, !.acked = b] \in RunTasks
<1>1. [t EXCEPT !.asks = n, !.guard = b] \in RunTasks
  BY DEF RunTasks
<1>2. [t EXCEPT !.linked = TRUE, !.local = m, !.acked = b] \in RunTasks
  BY DEF RunTasks
<1>3. QED  BY <1>1, <1>2

LEMMA QuietTask ==
    ASSUME NEW t \in RunTasks
    PROVE  /\ [t EXCEPT !.asks = 0, !.guard = FALSE] \in RunTasks
           /\ [t EXCEPT !.state = "ended", !.linked = FALSE, !.asks = 0, !.guard = FALSE] \in RunTasks
<1>1. 0 \in 0..MaxPrompts
  BY SupervisorAssumption
<1>2. [t EXCEPT !.asks = 0, !.guard = FALSE] \in RunTasks
  BY <1>1 DEF RunTasks
<1>3. [t EXCEPT !.state = "ended", !.linked = FALSE, !.asks = 0, !.guard = FALSE] \in RunTasks
  BY <1>1 DEF RunTasks
<1>4. QED  BY <1>2, <1>3

(* Every step of the loop and of the tasks.                                *)
LEMMA SupervisorKeeps == SupervisorInv /\ [SupervisorNext]_supervisorVars => SupervisorInv'
<1> SUFFICES ASSUME SupervisorInv, [SupervisorNext]_supervisorVars
             PROVE  SupervisorInv'
    OBVIOUS
<1> DEFINE Turns == {"free", "stop", "restart", "leave", "gone"}
<1>0. /\ turn \in Turns /\ session \in 0..MaxRuns /\ snap \in Snapshots /\ desired \in Modes
      /\ responders \subseteq 1..MaxPrompts /\ runs \in [Runs -> RunTasks]
      /\ reports \in [Runs -> Seq(Reports)] /\ \A r \in Runs : Len(reports[r]) <= MaxReports
      /\ prompts \in 0..MaxPrompts /\ OneSession
      /\ MaxRuns \in Nat /\ MaxPrompts \in Nat /\ MaxReports \in Nat
  BY SupervisorAssumption DEF SupervisorInv, SupervisorTypes, SupervisorTypeOK, Snapshots
<1>T. ASSUME turn' \in Turns, session' \in 0..MaxRuns, snap' \in Snapshots, desired' \in Modes,
             responders' \subseteq 1..MaxPrompts, runs' \in [Runs -> RunTasks],
             reports' \in [Runs -> Seq(Reports)], \A r \in Runs : Len(reports'[r]) <= MaxReports,
             prompts' \in 0..MaxPrompts, OneSession'
      PROVE  SupervisorInv'
  BY <1>T DEF SupervisorInv, SupervisorTypes, SupervisorTypeOK, Snapshots
<1> HIDE DEF Turns
(* Of a session nothing begins to run or to be shown: the invariant stays. *)
<1>K. ASSUME turn' \in Turns, session' = session, snap' \in Snapshots, desired' \in Modes,
             responders' \subseteq responders, runs' \in [Runs -> RunTasks],
             reports' \in [Runs -> Seq(Reports)], \A r \in Runs : Len(reports'[r]) <= MaxReports,
             prompts' \in 0..MaxPrompts,
             \A r \in Runs : runs'[r].state = "running" => runs[r].state = "running",
             snap'.peer = snap.peer, snap'.prompt \in {0, snap.prompt},
             session = 0 => snap'.applied = None
      PROVE  SupervisorInv'
  <2>1. OneSession'
    BY <1>0, <1>K DEF OneSession, IsRunning
  <2>2. QED  BY <1>0, <1>K, <1>T, <2>1
(* The supervisor lets its session go: nothing runs and nothing is shown.  *)
<1>N. ASSUME NEW rs \in [Runs -> RunTasks], session # 0 => rs[session].state # "running",
             \A r \in Runs : rs[r].state = "running" => runs[r].state = "running"
      PROVE  \A r \in Runs : rs[r].state # "running"
  <2>1. \A r \in Runs : r # 0 /\ (runs[r].state = "running" => r = session)
    BY <1>0 DEF OneSession, IsRunning, Runs
  <2>2. QED  BY <1>N, <2>1
<1>1. CASE PressStart
  <2>1. /\ session = 0 /\ snap.peer = 0 /\ snap.prompt = 0 /\ snap.applied = None
        /\ responders = {} /\ \A r \in Runs : runs[r].state # "running"
    BY <1>0, <1>1, <1>N DEF PressStart, OneSession
  <2>2. /\ Start(snap, runs, desired) /\ responders' = {} /\ turn' = turn /\ desired' = desired
        /\ reports' = reports /\ prompts' = prompts
    BY <1>1, <2>1 DEF PressStart
  <2>3. /\ snap' \in Snapshots /\ runs' \in [Runs -> RunTasks] /\ session' \in 0..MaxRuns
        /\ OneSession'
    BY <1>0, <2>1, <2>2, StartFacts
  <2>4. QED  BY <1>0, <1>T, <2>2, <2>3
<1>2. ASSUME NEW m \in Modes, SetMode(m)
      PROVE  SupervisorInv'
  <2>1. /\ turn' = turn /\ session' = session /\ desired' = m /\ responders' = responders
        /\ reports' = reports /\ prompts' = prompts
    BY <1>2 DEF SetMode
  <2>2. CASE session = 0
    <3>1. snap' = snap /\ runs' = runs
      BY <1>2, <2>2 DEF SetMode
    <3>2. QED  BY <1>0, <1>K, <1>2, <2>1, <3>1 DEF OneSession
  <2>3. CASE session # 0
    <3>1. snap' = [snap EXCEPT !.pending = m] /\ runs' = [runs EXCEPT ![session].watched = m]
      BY <1>2, <2>3 DEF SetMode
    <3>2. snap' \in Snapshots /\ snap'.peer = snap.peer /\ snap'.prompt = snap.prompt
      BY <1>0, <1>2, <3>1 DEF Snapshots
    <3>3. runs' \in [Runs -> RunTasks] /\ \A r \in Runs : runs'[r].state = runs[r].state
      BY <1>0, <1>2, <3>1, ZenonT(60) DEF RunTasks
    <3>4. QED  BY <1>0, <1>K, <1>2, <2>1, <2>3, <3>2, <3>3
  <2>4. QED  BY <2>2, <2>3
(* The turn that stops the session begins.                                 *)
<1>B. ASSUME NEW next \in Turns, BeginStop(next), session' = session, desired' \in Modes,
             responders' = responders, reports' = reports, prompts' = prompts
      PROVE  SupervisorInv'
  <2>1. /\ session # 0 /\ turn' = next /\ snap' = [snap EXCEPT !.life = "Stopping"]
        /\ runs' = [runs EXCEPT ![session].told = TRUE]
    BY <1>B DEF BeginStop
  <2>2. snap' \in Snapshots /\ snap'.peer = snap.peer /\ snap'.prompt = snap.prompt
    BY <1>0, <2>1 DEF Snapshots, Lives
  <2>3. runs' \in [Runs -> RunTasks] /\ \A r \in Runs : runs'[r].state = runs[r].state
    BY <1>0, <2>1, ZenonT(60) DEF RunTasks
  <2>4. QED  BY <1>0, <1>K, <1>B, <2>1, <2>2, <2>3
(* Commands for a supervisor without a session.                            *)
<1>E. ASSUME NEW life \in Lives
      PROVE  /\ [snap EXCEPT !.life = life, !.applied = None] \in Snapshots
             /\ [snap EXCEPT !.life = life, !.applied = None].peer = snap.peer
             /\ [snap EXCEPT !.life = life, !.applied = None].prompt = snap.prompt
             /\ [snap EXCEPT !.life = life, !.applied = None].applied = None
  BY <1>0 DEF Snapshots
<1>L. {"Idle", "Stopping", "Error"} \subseteq Lives /\ {"free", "stop", "restart", "leave", "gone"} \subseteq Turns
  BY DEF Lives, Turns
<1>3. ASSUME NEW m \in Modes, Restart(m)
      PROVE  SupervisorInv'
  <2>1. desired' = m /\ responders' = responders /\ reports' = reports /\ prompts' = prompts
    BY <1>3 DEF Restart
  <2>2. CASE BeginStop("restart") /\ session' = session
    BY <1>3, <1>B, <1>L, <2>1, <2>2
  <2> DEFINE s == [snap EXCEPT !.life = "Idle", !.applied = None]
  <2>3. CASE session = 0 /\ Start(s, runs, m) /\ turn' = turn
    <3>1. s \in Snapshots /\ s.peer = snap.peer /\ s.prompt = snap.prompt /\ s.applied = None
      BY <1>E, <1>L
    <3> HIDE DEF s
    <3>2. /\ s.peer = 0 /\ s.prompt = 0 /\ responders' = {}
          /\ \A r \in Runs : runs[r].state # "running"
      BY <1>0, <1>N, <2>1, <2>3, <3>1 DEF OneSession
    <3>3. /\ snap' \in Snapshots /\ runs' \in [Runs -> RunTasks] /\ session' \in 0..MaxRuns
          /\ OneSession'
      BY <1>0, <1>3, <2>3, <3>1, <3>2, StartFacts
    <3>4. QED  BY <1>0, <1>3, <1>T, <2>1, <2>3, <3>2, <3>3
  <2>4. QED  BY <1>3, <2>2, <2>3 DEF Restart
<1>4. CASE EndSession
  <2>1. /\ session' = session /\ desired' = desired /\ responders' = responders
        /\ reports' = reports /\ prompts' = prompts
    BY <1>4 DEF EndSession
  <2>2. CASE BeginStop("stop")
    BY <1>0, <1>B, <1>L, <2>1, <2>2
  <2>3. CASE /\ snap' = [snap EXCEPT !.life = "Idle", !.applied = None]
             /\ turn' = turn /\ runs' = runs
    BY <1>0, <1>E, <1>K, <1>L, <2>1, <2>3
  <2>4. QED  BY <1>4, <2>2, <2>3 DEF EndSession
<1>5. CASE Shutdown
  <2>1. /\ session' = session /\ desired' = desired /\ responders' = responders
        /\ reports' = reports /\ prompts' = prompts
    BY <1>5 DEF Shutdown
  <2>2. CASE BeginStop("leave")
    BY <1>0, <1>B, <1>L, <2>1, <2>2
  <2>3. CASE /\ snap' = [snap EXCEPT !.life = "Stopping", !.applied = None]
             /\ turn' = "gone" /\ runs' = runs
    BY <1>0, <1>E, <1>K, <1>L, <2>1, <2>3
  <2>4. QED  BY <1>5, <2>2, <2>3 DEF Shutdown
<1>6. ASSUME NEW n \in 1..MaxPrompts, Respond(n)
      PROVE  SupervisorInv'
  <2>1. /\ turn' = turn /\ session' = session /\ desired' = desired /\ reports' = reports
        /\ prompts' = prompts /\ responders' \subseteq responders
        /\ runs' \in {runs, Hangup(runs, {n})}
        /\ snap' \in {snap, RestoreLife([snap EXCEPT !.prompt = 0])}
    BY <1>6 DEF Respond
  <2>2. /\ [snap EXCEPT !.prompt = 0] \in Snapshots
        /\ [snap EXCEPT !.prompt = 0].peer = snap.peer /\ [snap EXCEPT !.prompt = 0].prompt = 0
        /\ [snap EXCEPT !.prompt = 0].applied = snap.applied
    <3>1. 0 \in 0..MaxPrompts
      BY <1>0
    <3>2. QED  BY <1>0, <3>1 DEF Snapshots
  <2>3. /\ snap' \in Snapshots /\ snap'.peer = snap.peer /\ snap'.prompt \in {0, snap.prompt}
        /\ snap'.applied = snap.applied
    BY <1>0, <2>1, <2>2, RestoredFacts
  <2>4. runs' \in [Runs -> RunTasks] /\ \A r \in Runs : runs'[r].state = runs[r].state
    BY <1>0, <2>1, HangupFacts
  <2>5. session = 0 => snap.applied = None
    BY <1>0 DEF OneSession
  <2>6. QED  BY <1>0, <1>K, <2>1, <2>3, <2>4, <2>5
(* Steps of the Bluetooth scan.                                            *)
<1>7. CASE RefreshBluetooth \/ CancelBluetooth \/ \E e \in scan.late : HearScan(e)
  <2>1. UNCHANGED <<turn, session, snap, desired, responders, runs, reports, prompts>>
    BY <1>7 DEF RefreshBluetooth, CancelBluetooth, HearScan
  <2>2. QED  BY <1>0, <1>K, <2>1 DEF OneSession
(* The session that is let go, and what is left to show.                   *)
<1>C. /\ Cleared \in Snapshots /\ Cleared.peer = 0 /\ Cleared.prompt = 0 /\ Cleared.applied = None
      /\ \A life \in Lives : /\ [Cleared EXCEPT !.life = life] \in Snapshots
                             /\ [Cleared EXCEPT !.life = life].peer = 0
                             /\ [Cleared EXCEPT !.life = life].prompt = 0
                             /\ [Cleared EXCEPT !.life = life].applied = None
  <2>1. /\ Cleared \in Snapshots /\ Cleared.peer = 0 /\ Cleared.prompt = 0 /\ Cleared.applied = None
    <3>1. 0 \in 0..MaxPrompts /\ 0 \in 0..MaxRuns
      BY <1>0
    <3>2. ASSUME NEW s \in Snapshots
          PROVE  [s EXCEPT !.life = "Idle", !.applied = None, !.peer = 0, !.prompt = 0] \in Snapshots
      BY <1>L, <3>1 DEF Snapshots
    <3>3. ASSUME NEW s \in Snapshots,
                 NEW t, t = [s EXCEPT !.life = "Idle", !.applied = None, !.peer = 0, !.prompt = 0]
          PROVE  t.peer = 0 /\ t.prompt = 0 /\ t.applied = None
      BY <3>3 DEF Snapshots
    <3>4. QED  BY <1>0, <3>2, <3>3 DEF Cleared
  <2>2. ASSUME NEW s \in Snapshots, s.peer = 0, s.prompt = 0, s.applied = None, NEW life \in Lives
        PROVE  /\ [s EXCEPT !.life = life] \in Snapshots
               /\ [s EXCEPT !.life = life].peer = 0 /\ [s EXCEPT !.life = life].prompt = 0
               /\ [s EXCEPT !.life = life].applied = None
    BY <2>2 DEF Snapshots
  <2>3. QED  BY <2>1, <2>2
<1>H. ASSUME NEW rs \in [Runs -> RunTasks], NEW r
      PROVE  /\ [rs EXCEPT ![r].state = "over"] \in [Runs -> RunTasks]
             /\ \A q \in Runs : [rs EXCEPT ![r].state = "over"][q].state \in {rs[q].state, "over"}
             /\ r \in Runs => [rs EXCEPT ![r].state = "over"][r].state = "over"
  BY DEF RunTasks
<1>8. CASE StopEnds
  <2>1. /\ turn' \in Turns /\ desired' = desired /\ responders' = {} /\ reports' = reports
        /\ prompts' = prompts
    BY <1>8 DEF StopEnds, Turns
  <2>2. /\ Joined \in [Runs -> RunTasks]
        /\ \A r \in Runs : Joined[r].state \in {runs[r].state, "over"}
        /\ session \in Runs => Joined[session].state = "over"
    <3>1. PICK rs \in [Runs -> RunTasks] :
             rs = Hangup(runs, responders) /\ \A r \in Runs : rs[r].state = runs[r].state
      BY <1>0, HangupFacts
    <3>2. Joined = [rs EXCEPT ![session].state = "over"]
      BY <3>1 DEF Joined
    <3>3. QED  BY <1>H, <3>1, <3>2
  <2>3. \A r \in Runs : Joined[r].state # "running"
    <3>1. session # 0 => session \in Runs
      BY <1>0 DEF Runs
    <3> HIDE DEF Joined
    <3>2. QED  BY <1>N, <2>2, <3>1
  <2>4. CASE turn = "restart"
    <3>1. Start(Cleared, Joined, desired)
      BY <1>8, <2>4 DEF StopEnds
    <3>2. /\ snap' \in Snapshots /\ runs' \in [Runs -> RunTasks] /\ session' \in 0..MaxRuns
          /\ OneSession'
      BY <1>0, <1>C, <2>1, <2>2, <2>3, <3>1, StartFacts
    <3>3. QED  BY <1>0, <1>T, <2>1, <3>2
  <2>5. CASE turn # "restart"
    <3>1. /\ \E life \in Lives : snap' = [Cleared EXCEPT !.life = life]
          /\ runs' = Joined /\ session' = 0
      BY <1>8, <1>L, <2>5 DEF StopEnds
    <3>2. /\ snap' \in Snapshots /\ snap'.peer = 0 /\ snap'.prompt = 0 /\ snap'.applied = None
      BY <1>C, <3>1
    <3>3. OneSession'
      BY <2>1, <2>3, <3>1, <3>2 DEF OneSession, IsRunning
    <3>4. QED  BY <1>0, <1>T, <2>1, <2>2, <3>1, <3>2, <3>3
  <2>6. QED  BY <2>4, <2>5
<1>9. ASSUME NEW r \in Runs, HearFinished(r)
      PROVE  SupervisorInv'
  <2>1. turn' = turn /\ desired' = desired /\ reports' = reports /\ prompts' = prompts
    BY <1>9 DEF HearFinished
  <2>2. CASE r # session
    <3>1. /\ runs' = [runs EXCEPT ![r].state = "over"]
          /\ session' = session /\ snap' = snap /\ responders' = responders
      BY <1>9, <2>2 DEF HearFinished
    <3>2. /\ runs' \in [Runs -> RunTasks]
          /\ \A q \in Runs : runs'[q].state = "running" => runs[q].state = "running"
      BY <1>0, <1>H, <3>1
    <3>3. session = 0 => snap.applied = None
      BY <1>0 DEF OneSession
    <3>4. QED  BY <1>0, <1>K, <2>1, <3>1, <3>2, <3>3
  <2>3. CASE r = session
    <3>1. /\ runs' = [Hangup(runs, responders) EXCEPT ![r].state = "over"]
          /\ session' = 0 /\ responders' = {}
      BY <1>9, <2>3 DEF HearFinished
    <3>2. /\ runs' \in [Runs -> RunTasks] /\ runs'[r].state = "over"
          /\ \A q \in Runs : runs'[q].state \in {runs[q].state, "over"}
      BY <1>0, <1>H, <3>1, HangupFacts, SMTT(30)
    <3>3. \A q \in Runs : runs'[q].state # "running"
      BY <1>N, <2>3, <3>2
    <3>4. PICK life \in {"Idle", "Error"} : snap' = [Cleared EXCEPT !.pending = None, !.life = life]
      BY <1>9, <2>3 DEF HearFinished
    <3>5. /\ snap' \in Snapshots /\ snap'.peer = 0 /\ snap'.prompt = 0 /\ snap'.applied = None
      <4>1. ASSUME NEW s \in Snapshots
            PROVE  /\ [s EXCEPT !.pending = None, !.life = life] \in Snapshots
                   /\ [s EXCEPT !.pending = None, !.life = life].peer = s.peer
                   /\ [s EXCEPT !.pending = None, !.life = life].prompt = s.prompt
                   /\ [s EXCEPT !.pending = None, !.life = life].applied = s.applied
        BY <1>L DEF Snapshots
      <4>2. QED  BY <1>C, <3>4, <4>1
    <3>6. OneSession'
      BY <3>1, <3>3, <3>5 DEF OneSession, IsRunning
    <3>7. QED  BY <1>0, <1>T, <2>1, <3>1, <3>2, <3>5, <3>6
  <2>4. QED  BY <2>2, <2>3
<1>10. ASSUME NEW r \in Runs, HearReport(r)
       PROVE  SupervisorInv'
  <2> DEFINE e == Head(reports[r])
  <2>1. /\ turn' = turn /\ session' = session /\ desired' = desired /\ prompts' = prompts
        /\ reports' = [reports EXCEPT ![r] = Tail(@)] /\ reports[r] # <<>>
    BY <1>10 DEF HearReport
  <2>2. /\ e \in Reports /\ Tail(reports[r]) \in Seq(Reports)
        /\ Len(Tail(reports[r])) <= MaxReports
    <3>1. reports[r] \in Seq(Reports) /\ Len(reports[r]) <= MaxReports
      BY <1>0
    <3>2. QED  BY <1>0, <2>1, <3>1, HeadTailProperties, LenProperties
  <2>3. reports' \in [Runs -> Seq(Reports)] /\ \A q \in Runs : Len(reports'[q]) <= MaxReports
    BY <1>0, <2>1, <2>2
  <2>4. CASE r # session
    <3>1. /\ runs' \in {runs, Hangup(runs, {e.what})} /\ snap' = snap /\ responders' = responders
      BY <1>10, <2>4 DEF HearReport
    <3>2. runs' \in [Runs -> RunTasks] /\ \A q \in Runs : runs'[q].state = runs[q].state
      BY <1>0, <3>1, HangupFacts
    <3>3. session = 0 => snap.applied = None
      BY <1>0 DEF OneSession
    <3>4. QED  BY <1>0, <1>K, <2>1, <2>3, <3>1, <3>2, <3>3
  <2>5. CASE r = session
    <3>1. snap' = Shown(snap, e, r) /\ responders' = Kept(e) /\ runs' = Hangup(runs, responders \ Kept(e))
      BY <1>10, <2>5 DEF HearReport
    <3> HIDE DEF e
    <3>2. snap' \in Snapshots /\ snap'.peer \in {0, session}
      BY <1>0, <2>2, <2>5, <3>1, ShownFacts DEF OneSession
    <3>3. runs' \in [Runs -> RunTasks] /\ \A q \in Runs : runs'[q].state = runs[q].state
      BY <1>0, <3>1, HangupFacts
    <3>4. responders' \subseteq 1..MaxPrompts
      <4>1. CASE e.kind = "prompt"
        <5>1. e.what \in 1..MaxPrompts
          BY <2>2, <4>1 DEF Reports
        <5>2. QED  BY <1>0, <3>1, <4>1, <5>1 DEF Kept
      <4>2. CASE e.kind # "prompt"
        BY <1>0, <3>1, <4>2 DEF Kept
      <4>3. QED  BY <4>1, <4>2
    <3>5. session # 0
      BY <1>0, <2>5 DEF Runs
    <3>6. OneSession'
      BY <1>0, <2>1, <3>2, <3>3, <3>5 DEF OneSession, IsRunning
    <3>7. QED  BY <1>0, <1>T, <2>1, <2>3, <3>2, <3>3, <3>4, <3>6
  <2>6. QED  BY <2>4, <2>5
(* The steps of a session task: the loop hears of them later.              *)
<1>R. ASSUME NEW r \in Runs, NEW es \in Seq(Reports), Say(r, es)
      PROVE  reports' \in [Runs -> Seq(Reports)] /\ \A q \in Runs : Len(reports'[q]) <= MaxReports
  <2>1. reports[r] \in Seq(Reports) /\ Len(reports[r]) + Len(es) <= MaxReports
        /\ reports' = [reports EXCEPT ![r] = @ \o es]
    BY <1>0, <1>R DEF Say
  <2>2. reports[r] \o es \in Seq(Reports) /\ Len(reports[r] \o es) = Len(reports[r]) + Len(es)
    BY <2>1, ConcatProperties
  <2>3. QED  BY <1>0, <2>1, <2>2
<1>M. ASSUME NEW m \in Modes, NEW acked \in BOOLEAN
      PROVE  Mode(m, acked) \in Reports /\ <<Mode(m, acked)>> \in Seq(Reports)
  <2>1. Mode(m, acked) \in Reports
    BY DEF Mode, Reports
  <2>2. QED  BY <2>1
<1>S. ASSUME NEW r \in Runs, TaskStep(r), prompts' \in 0..MaxPrompts,
             NEW t \in RunTasks, runs' = [runs EXCEPT ![r] = t],
             reports' \in [Runs -> Seq(Reports)], \A q \in Runs : Len(reports'[q]) <= MaxReports
      PROVE  SupervisorInv'
  <2>1. /\ turn' = turn /\ session' = session /\ snap' = snap /\ desired' = desired
        /\ responders' = responders /\ runs[r].state = "running"
    BY <1>S DEF TaskStep, IsRunning
  <2>2. /\ runs' \in [Runs -> RunTasks]
        /\ \A q \in Runs : runs'[q].state = "running" => runs[q].state = "running"
    BY <1>0, <1>S, <2>1
  <2>3. session = 0 => snap.applied = None
    BY <1>0 DEF OneSession
  <2>4. QED  BY <1>0, <1>K, <1>S, <2>1, <2>2, <2>3
<1>11. ASSUME NEW r \in Runs, NEW g \in BOOLEAN, Ask(r, g)
       PROVE  SupervisorInv'
  <2>1. /\ TaskStep(r) /\ prompts' = prompts + 1 /\ prompts < MaxPrompts
        /\ Say(r, <<[kind |-> "prompt", what |-> prompts + 1]>>)
        /\ runs' = [runs EXCEPT ![r] = [runs[r] EXCEPT !.asks = prompts + 1, !.guard = g]]
    BY <1>0, <1>11 DEF Ask
  <2>2. prompts + 1 \in 1..MaxPrompts
    BY <1>0, <2>1
  <2>3. <<[kind |-> "prompt", what |-> prompts + 1]>> \in Seq(Reports)
    BY <2>2 DEF Reports
  <2>4. [runs[r] EXCEPT !.asks = prompts + 1, !.guard = g] \in RunTasks
    <3>1. runs[r] \in RunTasks /\ "off" \in Modes
      BY <1>0 DEF Modes
    <3>2. prompts + 1 \in 0..MaxPrompts
      BY <1>0, <2>2
    <3>3. QED  BY <3>1, <3>2, EditedTask
  <2>5. prompts' \in 0..MaxPrompts
    BY <1>0, <2>1, <2>2
  <2>6. reports' \in [Runs -> Seq(Reports)] /\ \A q \in Runs : Len(reports'[q]) <= MaxReports
    BY <1>R, <2>1, <2>3
  <2>7. QED  BY <1>S, <2>1, <2>4, <2>5, <2>6
<1>12. ASSUME NEW r \in Runs, PairingReturns(r)
       PROVE  SupervisorInv'
  <2>1. /\ TaskStep(r) /\ prompts' = prompts
        /\ Say(r, <<[kind |-> "clear"]>>) \/ reports' = reports
        /\ runs' = [runs EXCEPT ![r] = [runs[r] EXCEPT !.asks = 0, !.guard = FALSE]]
    BY <1>0, <1>12 DEF PairingReturns
  <2>2. <<[kind |-> "clear"]>> \in Seq(Reports)
    BY DEF Reports
  <2>3. [runs[r] EXCEPT !.asks = 0, !.guard = FALSE] \in RunTasks
    BY <1>0, QuietTask
  <2>4. QED  BY <1>0, <1>R, <1>S, <2>1, <2>2, <2>3
<1>13. ASSUME NEW r \in Runs, Link(r)
       PROVE  SupervisorInv'
  <2>0. runs[r].watched \in Modes /\ runs[r].local \in Modes
    BY <1>0 DEF RunTasks
  <2>1. PICK m \in {runs[r].local, runs[r].watched} :
           /\ runs' = [runs EXCEPT ![r] = [runs[r] EXCEPT !.linked = TRUE,
                          !.local = runs[r].watched, !.acked = m = runs[r].watched]]
           /\ Say(r, <<[kind |-> "connected"], Mode(m, TRUE)>>
                     \o (IF m = runs[r].watched THEN <<>> ELSE <<Mode(runs[r].watched, FALSE)>>))
    BY <1>0, <1>13 DEF Link
  <2>2. TaskStep(r) /\ prompts' = prompts
    BY <1>13 DEF Link
  <2>3. /\ <<[kind |-> "connected"], Mode(m, TRUE)>> \in Seq(Reports)
        /\ (IF m = runs[r].watched THEN <<>> ELSE <<Mode(runs[r].watched, FALSE)>>) \in Seq(Reports)
    <3>1. [kind |-> "connected"] \in Reports
      BY DEF Reports
    <3>2. m \in Modes
      BY <2>0
    <3>3. Mode(m, TRUE) \in Reports /\ <<Mode(runs[r].watched, FALSE)>> \in Seq(Reports)
      BY <1>M, <2>0, <3>2
    <3>4. \A x, y \in Reports : <<x, y>> \in Seq(Reports)
      OBVIOUS
    <3>5. <<>> \in Seq(Reports)
      OBVIOUS
    <3>6. QED  BY <3>1, <3>3, <3>4, <3>5
  <2>4. <<[kind |-> "connected"], Mode(m, TRUE)>>
           \o (IF m = runs[r].watched THEN <<>> ELSE <<Mode(runs[r].watched, FALSE)>>) \in Seq(Reports)
    BY <2>3, ConcatProperties
  <2>5. [runs[r] EXCEPT !.linked = TRUE, !.local = runs[r].watched, !.acked = m = runs[r].watched]
           \in RunTasks
    <3>1. PICK b \in BOOLEAN : b <=> (m = runs[r].watched)
      OBVIOUS
    <3>2. QED  BY <1>0, <2>0, EditedTask
  <2>6. QED  BY <1>0, <1>R, <1>S, <2>1, <2>2, <2>4, <2>5
<1>14. ASSUME NEW r \in Runs, SeeMode(r)
       PROVE  SupervisorInv'
  <2>0. runs[r].watched \in Modes
    BY <1>0 DEF RunTasks
  <2>1. /\ TaskStep(r) /\ prompts' = prompts /\ Say(r, <<Mode(runs[r].watched, FALSE)>>)
        /\ runs' = [runs EXCEPT ![r] = [runs[r] EXCEPT !.local = runs[r].watched, !.acked = FALSE]]
    BY <1>0, <1>14 DEF SeeMode
  <2>2. <<Mode(runs[r].watched, FALSE)>> \in Seq(Reports)
    BY <1>M, <2>0
  <2>3. [runs[r] EXCEPT !.local = runs[r].watched, !.acked = FALSE] \in RunTasks
    BY <1>0, <2>0 DEF RunTasks
  <2>4. QED  BY <1>0, <1>R, <1>S, <2>1, <2>2, <2>3
<1>15. ASSUME NEW r \in Runs, PeerConfirms(r)
       PROVE  SupervisorInv'
  <2>0. runs[r].local \in Modes
    BY <1>0 DEF RunTasks
  <2>1. /\ TaskStep(r) /\ prompts' = prompts /\ Say(r, <<Mode(runs[r].local, TRUE)>>)
        /\ runs' = [runs EXCEPT ![r] = [runs[r] EXCEPT !.acked = TRUE]]
    BY <1>0, <1>15 DEF PeerConfirms
  <2>2. <<Mode(runs[r].local, TRUE)>> \in Seq(Reports)
    BY <1>M, <2>0
  <2>3. [runs[r] EXCEPT !.acked = TRUE] \in RunTasks
    BY <1>0 DEF RunTasks
  <2>4. QED  BY <1>0, <1>R, <1>S, <2>1, <2>2, <2>3
<1>16. ASSUME NEW r \in Runs, Unlink(r)
       PROVE  SupervisorInv'
  <2>0. runs[r].watched \in Modes
    BY <1>0 DEF RunTasks
  <2>1. /\ TaskStep(r) /\ prompts' = prompts /\ Say(r, <<[kind |-> "disconnected"]>>)
        /\ runs' = [runs EXCEPT ![r] = [runs[r] EXCEPT !.linked = FALSE, !.local = runs[r].watched]]
    BY <1>0, <1>16 DEF Unlink
  <2>2. <<[kind |-> "disconnected"]>> \in Seq(Reports)
    BY DEF Reports
  <2>3. [runs[r] EXCEPT !.linked = FALSE, !.local = runs[r].watched] \in RunTasks
    BY <1>0, <2>0 DEF RunTasks
  <2>4. QED  BY <1>0, <1>R, <1>S, <2>1, <2>2, <2>3
<1>17. ASSUME NEW r \in Runs, TaskEnds(r)
       PROVE  SupervisorInv'
  <2>1. /\ TaskStep(r) /\ prompts' = prompts
        /\ Say(r, <<[kind |-> "clear"]>>) \/ reports' = reports
        /\ runs' = [runs EXCEPT ![r] = [runs[r] EXCEPT !.state = "ended", !.linked = FALSE,
                                                       !.asks = 0, !.guard = FALSE]]
    BY <1>0, <1>17 DEF TaskEnds
  <2>2. <<[kind |-> "clear"]>> \in Seq(Reports)
    BY DEF Reports
  <2>3. [runs[r] EXCEPT !.state = "ended", !.linked = FALSE, !.asks = 0, !.guard = FALSE] \in RunTasks
    BY <1>0, QuietTask
  <2>4. QED  BY <1>0, <1>R, <1>S, <2>1, <2>2, <2>3
<1>18. CASE UNCHANGED supervisorVars
  <2>1. UNCHANGED <<turn, session, snap, desired, responders, runs, reports, prompts>>
    BY <1>18 DEF supervisorVars
  <2>2. QED  BY <1>0, <1>K, <2>1 DEF OneSession
<1>19. QED
  BY <1>1, <1>2, <1>3, <1>4, <1>5, <1>6, <1>7, <1>8, <1>9, <1>10, <1>11, <1>12, <1>13, <1>14,
     <1>15, <1>16, <1>17, <1>18 DEF SupervisorNext, Commands, Answers, Hears, Task

LEMMA SupervisorHolds == SupervisorSpec => []SupervisorInv
<1>1. QED  BY SupervisorBegins, SupervisorKeeps, PTL DEF SupervisorSpec

(* Every variable of the supervisor keeps its type.                        *)
THEOREM SupervisorTypeCorrect == SupervisorSpec => []SupervisorTypeOK
<1>1. SupervisorInv => SupervisorTypeOK
  BY DEF SupervisorInv, SupervisorTypes
<1>2. QED  BY <1>1, SupervisorHolds, PTL

(* At most one session runs, and what the user sees is of that session,    *)
(* whatever events of older ones arrive late (core/supervisor.rs compares  *)
(* the number of the session before it handles an event).                  *)
THEOREM OneSessionShown == SupervisorSpec => []OneSession
<1>1. SupervisorInv => OneSession
  BY DEF SupervisorInv
<1>2. QED  BY <1>1, SupervisorHolds, PTL

--------------------------------------------------------------------------------
(* The engine of the Android application.                                  *)

Stages == {"unborn", "connect", "prompt", "pairing", "session", "wait", "failed", "revoked", "done"}
MobileCommands == [kind : {"pin", "cancel"}] \cup [kind : {"trust"}, list : SUBSET MobileDevices]
ClientTasks == [stage : Stages, gen : Nat, trusted : SUBSET MobileDevices, told : BOOLEAN,
                queue : Seq(MobileCommands)]
Screens == [connected : 0..MaxClients, prompt : 0..MaxClients]

MobileTypes ==
    /\ engine \in [gen : Nat, handle : 0..MaxClients, target : BOOLEAN, starts : SUBSET Nat]
    /\ engine.starts \subseteq 1..engine.gen
    /\ ui \in Screens /\ store \in SUBSET MobileDevices /\ taps \in 0..MaxTaps
    /\ reading \subseteq Clients \X SUBSET MobileDevices
    /\ clients \in [Clients -> ClientTasks]

Started(c) == clients[c].stage # "unborn"

(* A generation has one client at most, the one whose handle the engine    *)
(* holds; a generation whose start is queued has none yet.                 *)
GenerationHasOne ==
    /\ \A c \in Clients : Started(c) => /\ clients[c].gen <= engine.gen
                                        /\ Current(c) => engine.handle = c
    /\ engine.handle # 0 => Started(engine.handle) /\ Current(engine.handle)
    /\ engine.gen \in engine.starts => engine.handle = 0

MobileInv == MobileTypes /\ GenerationHasOne /\ ScreenIsTrue

LEMMA MobileBegins == MobileInit => MobileInv
<1> SUFFICES ASSUME MobileInit
             PROVE  MobileInv
    OBVIOUS
<1>0. MaxClients \in Nat /\ MaxTaps \in Nat
  BY MobileAssumption
<1>1. Unborn \in ClientTasks
  BY DEF Unborn, ClientTasks, Stages
<1>2. MobileTypes
  BY <1>0, <1>1 DEF MobileInit, MobileTypes, Blank, Screens
<1>3. GenerationHasOne
  BY DEF MobileInit, GenerationHasOne, Started, Unborn
<1>4. ScreenIsTrue
  BY DEF MobileInit, ScreenIsTrue, Blank
<1>5. QED  BY <1>2, <1>3, <1>4 DEF MobileInv

(* The engine gives a client up, and nothing is shown any more: the next   *)
(* generation has no client.                                               *)
LEMMA RetireKeeps ==
    ASSUME MobileInv, NEW again \in BOOLEAN, NEW cs \in [Clients -> ClientTasks],
           \A c \in Clients : cs[c].gen = clients[c].gen
                              /\ (cs[c].stage # "unborn" => Started(c)),
           Retire(again, cs), reading' = reading, store' = store, taps' \in 0..MaxTaps
    PROVE  MobileInv'
<1> DEFINE Handles == 0..MaxClients
<1>0. /\ engine \in [gen : Nat, handle : Handles, target : BOOLEAN, starts : SUBSET Nat]
      /\ engine.gen \in Nat /\ engine.starts \subseteq 1..engine.gen /\ 0 \in Handles
      /\ \A c \in Clients : Started(c) => clients[c].gen <= engine.gen /\ clients[c].gen \in Nat
      /\ \A c \in Clients : c # 0
  <2>1. /\ engine \in [gen : Nat, handle : Handles, target : BOOLEAN, starts : SUBSET Nat]
        /\ engine.starts \subseteq 1..engine.gen /\ MaxClients \in Nat
    BY MobileAssumption DEF MobileInv, MobileTypes
  <2>2. \A c \in Clients : clients[c].gen \in Nat
    BY DEF MobileInv, MobileTypes, ClientTasks
  <2>3. QED  BY <2>1, <2>2 DEF MobileInv, GenerationHasOne, Clients
<1>1. /\ engine'.gen = engine.gen + 1 /\ engine'.handle = 0
      /\ engine'.starts \subseteq 1..(engine.gen + 1)
      /\ engine' \in [gen : Nat, handle : Handles, target : BOOLEAN, starts : SUBSET Nat]
  <2>1. engine' = [gen |-> engine.gen + 1, handle |-> 0, target |-> again,
                   starts |-> engine.starts \cup (IF again THEN {engine.gen + 1} ELSE {})]
    BY DEF Retire
  <2>2. engine.starts \cup (IF again THEN {engine.gen + 1} ELSE {}) \subseteq 1..(engine.gen + 1)
    BY <1>0
  <2>3. QED  BY <1>0, <2>1, <2>2
<1>2. /\ clients' \in [Clients -> ClientTasks]
      /\ \A c \in Clients : clients'[c].stage = cs[c].stage /\ clients'[c].gen = cs[c].gen
  <2>1. clients' = (IF engine.handle = 0 THEN cs ELSE [cs EXCEPT ![engine.handle].told = TRUE])
    BY DEF Retire, Retired
  <2>2. \A t \in ClientTasks : /\ [t EXCEPT !.told = TRUE] \in ClientTasks
                               /\ [t EXCEPT !.told = TRUE].stage = t.stage
                               /\ [t EXCEPT !.told = TRUE].gen = t.gen
    BY DEF ClientTasks
  <2>3. QED  BY <2>1, <2>2
<1>3. ui' = [connected |-> 0, prompt |-> 0]
  BY DEF Retire, Blank
<1>4. MobileTypes'
  <2>1. ui' \in Screens
    BY <1>0, <1>3 DEF Screens
  <2>2. QED  BY <1>1, <1>2, <2>1 DEF MobileInv, MobileTypes
<1>5. \A c \in Clients : Started(c)' =>
         clients'[c].gen <= engine.gen /\ clients'[c].gen \in Nat
  BY <1>0, <1>2 DEF Started
<1>6. GenerationHasOne'
  BY <1>0, <1>1, <1>5 DEF GenerationHasOne, Current
<1>7. ScreenIsTrue'
  BY <1>3 DEF ScreenIsTrue
<1>8. QED  BY <1>4, <1>6, <1>7 DEF MobileInv

(* A client that was started takes a step: it changes the screen only if   *)
(* it is the one whose handle the engine holds.                            *)
LEMMA ClientKeeps ==
    ASSUME MobileInv, NEW c \in Clients, Started(c), NEW t \in ClientTasks,
           t.gen = clients[c].gen, t.stage # "unborn", clients' = [clients EXCEPT ![c] = t],
           engine' = engine, reading' \subseteq Clients \X SUBSET MobileDevices,
           store' \in SUBSET MobileDevices, taps' \in 0..MaxTaps, ui' \in Screens,
           Current(c) => /\ ui'.connected \in {0, c} /\ ui'.prompt \in {0, c}
                         /\ ui'.connected = c => t.stage = "session",
           ~Current(c) => ui' = ui
    PROVE  MobileInv'
<1>0. /\ clients \in [Clients -> ClientTasks] /\ clients' \in [Clients -> ClientTasks]
      /\ \A d \in Clients : clients'[d].gen = clients[d].gen /\ (Started(d)' <=> Started(d))
      /\ \A d \in Clients : d # c => clients'[d] = clients[d]
      /\ clients'[c] = t
  BY DEF MobileInv, MobileTypes, Started
<1>1. MobileTypes'
  BY <1>0 DEF MobileInv, MobileTypes
<1>2. GenerationHasOne'
  <2>1. engine.handle # 0 => engine.handle \in Clients
    BY MobileAssumption DEF MobileInv, MobileTypes, Clients
  <2>2. QED  BY <1>0, <2>1 DEF MobileInv, GenerationHasOne, Current, Started
<1>3. ScreenIsTrue'
  <2>1. CASE Current(c)
    <3>1. engine.handle = c
      BY <2>1 DEF MobileInv, GenerationHasOne
    <3>2. QED  BY <1>0, <2>1, <3>1 DEF ScreenIsTrue
  <2>2. CASE ~Current(c)
    <3>1. engine.handle # c /\ (engine.handle # 0 => engine.handle \in Clients)
      BY <2>2, MobileAssumption DEF MobileInv, MobileTypes, GenerationHasOne, Clients
    <3>2. QED  BY <1>0, <2>2, <3>1 DEF MobileInv, ScreenIsTrue
  <2>3. QED  BY <2>1, <2>2
<1>4. QED  BY <1>1, <1>2, <1>3 DEF MobileInv

(* Commands are put into a queue, or nothing happens to the clients.       *)
LEMMA PushFacts ==
    ASSUME NEW t \in ClientTasks, NEW command \in MobileCommands
    PROVE  /\ Push(t, command) \in ClientTasks
           /\ Push(t, command).stage = t.stage /\ Push(t, command).gen = t.gen
<1>1. t.queue \in Seq(MobileCommands)
  BY DEF ClientTasks
<1>2. Append(t.queue, command) \in Seq(MobileCommands)
  BY <1>1, AppendProperties
<1>3. Push(t, command) = [t EXCEPT !.queue = Append(t.queue, command)]
  BY DEF Push, ClientTasks
<1>4. QED  BY <1>2, <1>3 DEF ClientTasks

LEMMA QueueKeeps ==
    ASSUME MobileInv, clients' \in [Clients -> ClientTasks],
           \A c \in Clients : clients'[c].stage = clients[c].stage /\ clients'[c].gen = clients[c].gen,
           engine' = engine, reading' \subseteq Clients \X SUBSET MobileDevices,
           store' \in SUBSET MobileDevices, taps' \in 0..MaxTaps, ui' \in Screens,
           ui'.connected = ui.connected, ui'.prompt \in {0, ui.prompt}
    PROVE  MobileInv'
<1>0. \A c \in Clients : Started(c)' <=> Started(c)
  BY DEF Started
<1>1. MobileTypes'
  BY DEF MobileInv, MobileTypes
<1>2. engine.handle # 0 => engine.handle \in Clients
  BY MobileAssumption DEF MobileInv, MobileTypes, Clients
<1>3. GenerationHasOne'
  BY <1>0, <1>2 DEF MobileInv, GenerationHasOne, Current
<1>4. ScreenIsTrue'
  BY <1>2 DEF MobileInv, ScreenIsTrue
<1>5. QED  BY <1>1, <1>3, <1>4 DEF MobileInv

(* The taps of the user, and what they have queued.                        *)
LEMMA TapsKeep ==
    ASSUME MobileInv,
           \/ TapConnect \/ TapStop
           \/ \E command \in {Pin, Cancel} : TapPin(command)
           \/ \E device \in MobileDevices : TapForget(device)
           \/ \E read \in reading : SendTrust(read)
    PROVE  MobileInv'
<1>0. /\ clients \in [Clients -> ClientTasks] /\ ui \in Screens /\ store \in SUBSET MobileDevices
      /\ reading \subseteq Clients \X SUBSET MobileDevices /\ taps \in 0..MaxTaps
      /\ engine.handle # 0 => engine.handle \in Clients
      /\ MaxTaps \in Nat /\ MaxClients \in Nat
  BY MobileAssumption DEF MobileInv, MobileTypes, Clients
<1>1. Tap => taps' \in 0..MaxTaps
  BY <1>0 DEF Tap
<1>P. ASSUME NEW c \in Clients, NEW command \in MobileCommands, SendTo(c, command)
      PROVE  /\ clients' \in [Clients -> ClientTasks]
             /\ \A d \in Clients : clients'[d].stage = clients[d].stage
                                   /\ clients'[d].gen = clients[d].gen
  <2>1. clients' = [clients EXCEPT ![c] = Push(clients[c], command)]
    BY <1>0, <1>P DEF SendTo
  <2>2. QED  BY <1>0, <2>1, PushFacts
<1>2. CASE TapConnect \/ TapStop
  <2>1. PICK again \in BOOLEAN :
           Tap /\ Retire(again, clients) /\ UNCHANGED <<store, reading>>
    BY <1>2 DEF TapConnect, TapStop
  <2>2. QED  BY <1>0, <1>1, <2>1, RetireKeeps DEF Started
<1>3. ASSUME NEW command \in {Pin, Cancel}, TapPin(command)
      PROVE  MobileInv'
  <2>1. command \in MobileCommands
    BY DEF Pin, Cancel, MobileCommands
  <2>2. /\ Tap /\ engine.handle # 0 /\ SendTo(engine.handle, command)
        /\ ui' \in {ui, [ui EXCEPT !.prompt = 0]} /\ UNCHANGED <<engine, store, reading>>
    BY <1>3 DEF TapPin
  <2>3. /\ ui' \in Screens /\ ui'.connected = ui.connected /\ ui'.prompt \in {0, ui.prompt}
    <3>1. 0 \in 0..MaxClients
      BY <1>0
    <3>2. QED  BY <1>0, <2>2, <3>1 DEF Screens
  <2>4. QED  BY <1>0, <1>1, <1>P, <2>1, <2>2, <2>3, QueueKeeps
<1>4. ASSUME NEW device \in MobileDevices, TapForget(device)
      PROVE  MobileInv'
  <2>1. /\ Tap /\ store' = store \ {device} /\ UNCHANGED <<engine, ui, clients>>
        /\ reading' = IF engine.handle = 0 THEN reading ELSE reading \cup {<<engine.handle, store'>>}
    BY <1>4 DEF TapForget
  <2>2. store' \in SUBSET MobileDevices
    BY <1>0, <2>1
  <2>3. reading' \subseteq Clients \X SUBSET MobileDevices
    BY <1>0, <2>1, <2>2
  <2>4. QED  BY <1>0, <1>1, <2>1, <2>2, <2>3, QueueKeeps
<1>5. ASSUME NEW read \in reading, SendTrust(read)
      PROVE  MobileInv'
  <2>1. read[1] \in Clients /\ Trust(read[2]) \in MobileCommands
    BY <1>0 DEF Trust, MobileCommands
  <2>2. /\ SendTo(read[1], Trust(read[2])) \/ clients' = clients
        /\ reading' = reading \ {read} /\ UNCHANGED <<engine, ui, store, taps>>
    BY <1>5 DEF SendTrust
  <2>3. reading' \subseteq Clients \X SUBSET MobileDevices
    BY <1>0, <2>2
  <2>4. CASE SendTo(read[1], Trust(read[2]))
    BY <1>0, <1>P, <2>1, <2>2, <2>3, <2>4, QueueKeeps
  <2>5. CASE clients' = clients
    BY <1>0, <2>2, <2>3, <2>5, QueueKeeps
  <2>6. QED  BY <2>2, <2>4, <2>5
<1>6. QED  BY <1>2, <1>3, <1>4, <1>5

(* A queued start.                                                         *)
LEMMA StartKeeps ==
    ASSUME MobileInv, NEW g \in engine.starts, RunStart(g)
    PROVE  MobileInv'
<1> DEFINE Engines == [gen : Nat, handle : 0..MaxClients, target : BOOLEAN, starts : SUBSET Nat]
<1>0. /\ engine \in Engines /\ engine.gen \in Nat /\ engine.starts \subseteq 1..engine.gen
      /\ clients \in [Clients -> ClientTasks] /\ ui \in Screens /\ store \in SUBSET MobileDevices
      /\ reading \subseteq Clients \X SUBSET MobileDevices /\ taps \in 0..MaxTaps
      /\ MaxClients \in Nat /\ GenerationHasOne /\ ScreenIsTrue
      /\ UNCHANGED <<store, reading, taps>> /\ g \in Nat
  BY MobileAssumption DEF MobileInv, MobileTypes, RunStart
<1>1. CASE /\ g # engine.gen /\ engine' = [engine EXCEPT !.starts = @ \ {g}]
           /\ UNCHANGED <<ui, clients>>
  <2>1. /\ engine' \in Engines /\ engine'.gen = engine.gen /\ engine'.handle = engine.handle
        /\ engine'.starts = engine.starts \ {g}
    BY <1>0, <1>1
  <2>2. MobileTypes'
    BY <1>0, <1>1, <2>1 DEF MobileTypes
  <2>3. GenerationHasOne'
    BY <1>0, <1>1, <2>1 DEF GenerationHasOne, Current, Started
  <2>4. ScreenIsTrue'
    BY <1>0, <1>1, <2>1 DEF ScreenIsTrue
  <2>5. QED  BY <2>2, <2>3, <2>4 DEF MobileInv
<1>2. CASE /\ g = engine.gen /\ ui' = Blank /\ UNCHANGED clients
           /\ engine' = [gen |-> g + 1, handle |-> 0, target |-> FALSE, starts |-> engine.starts \ {g}]
  <2>1. /\ engine' \in Engines /\ engine'.gen = engine.gen + 1 /\ engine'.handle = 0
        /\ engine'.starts \subseteq 1..engine.gen
    BY <1>0, <1>2
  <2>2. ui' \in Screens /\ ui'.connected = 0 /\ ui'.prompt = 0
    BY <1>0, <1>2 DEF Blank, Screens
  <2>3. MobileTypes'
    BY <1>0, <1>2, <2>1, <2>2 DEF MobileTypes
  <2>4. \A c \in Clients : clients[c].gen \in Nat
    BY <1>0 DEF ClientTasks
  <2>5. GenerationHasOne'
    BY <1>0, <1>2, <2>1, <2>4 DEF GenerationHasOne, Current, Started
  <2>6. ScreenIsTrue'
    BY <2>2 DEF ScreenIsTrue
  <2>7. QED  BY <2>3, <2>5, <2>6 DEF MobileInv
<1>3. ASSUME NEW c \in Clients, g = engine.gen, UNCHANGED ui,
             \A d \in Clients : clients[d].stage = "unborn" <=> d >= c,
             engine' = [engine EXCEPT !.starts = @ \ {g}, !.handle = c],
             clients' = [clients EXCEPT ![c] = [Unborn EXCEPT !.stage = "connect", !.gen = g,
                                                              !.trusted = store]]
      PROVE  MobileInv'
  <2> DEFINE t == [Unborn EXCEPT !.stage = "connect", !.gen = g, !.trusted = store]
  <2>1. t \in ClientTasks /\ t.stage = "connect" /\ t.gen = g
    <3>1. Unborn \in ClientTasks /\ "connect" \in Stages
      BY DEF Unborn, ClientTasks, Stages
    <3>2. \A u \in ClientTasks : LET v == [u EXCEPT !.stage = "connect", !.gen = g, !.trusted = store]
                                IN v \in ClientTasks /\ v.stage = "connect" /\ v.gen = g
      BY <1>0, <3>1 DEF ClientTasks
    <3>3. QED  BY <3>1, <3>2
  <2>2. clients' = [clients EXCEPT ![c] = t]
    BY <1>3
  <2> HIDE DEF t
  <2>3. /\ clients' \in [Clients -> ClientTasks] /\ clients'[c] = t
        /\ \A d \in Clients : d # c => clients'[d] = clients[d]
    BY <1>0, <2>1, <2>2
  <2>4. c \in 0..MaxClients /\ c # 0
    BY <1>0 DEF Clients
  <2>5. /\ engine' \in Engines /\ engine'.gen = engine.gen /\ engine'.handle = c
        /\ engine'.starts = engine.starts \ {g}
    BY <1>0, <1>3, <2>4
  <2>6. /\ engine.handle = 0
        /\ \A d \in Clients : Started(d) => clients[d].gen <= engine.gen /\ ~Current(d)
    BY <1>0, <1>3 DEF GenerationHasOne, Clients
  <2>7. MobileTypes'
    BY <1>0, <1>3, <2>3, <2>5 DEF MobileTypes
  <2>8. GenerationHasOne'
    BY <1>0, <1>3, <2>1, <2>3, <2>4, <2>5, <2>6 DEF GenerationHasOne, Current, Started
  <2>9. ScreenIsTrue'
    BY <1>0, <1>3, <2>4, <2>6 DEF ScreenIsTrue
  <2>10. QED  BY <2>7, <2>8, <2>9 DEF MobileInv
<1>4. QED  BY <1>1, <1>2, <1>3 DEF RunStart

(* A client after one of its steps.                                        *)
LEMMA StageFacts ==
    ASSUME NEW t \in ClientTasks, NEW stage \in Stages
    PROVE  /\ [t EXCEPT !.stage = stage] \in ClientTasks
           /\ [t EXCEPT !.stage = stage].stage = stage /\ [t EXCEPT !.stage = stage].gen = t.gen
BY DEF ClientTasks

LEMMA ReadFacts ==
    ASSUME NEW t \in ClientTasks, t.queue # <<>>
    PROVE  /\ [t EXCEPT !.queue = Tail(@)] \in ClientTasks
           /\ [t EXCEPT !.queue = Tail(@)].stage = t.stage /\ [t EXCEPT !.queue = Tail(@)].gen = t.gen
           /\ Head(t.queue) \in MobileCommands
<1>1. t.queue \in Seq(MobileCommands)
  BY DEF ClientTasks
<1>2. Tail(t.queue) \in Seq(MobileCommands) /\ Head(t.queue) \in MobileCommands
  BY <1>1, HeadTailProperties
<1>3. QED  BY <1>2 DEF ClientTasks

LEMMA TrustFacts ==
    ASSUME NEW t \in ClientTasks, NEW list \in SUBSET MobileDevices
    PROVE  /\ [t EXCEPT !.trusted = list] \in ClientTasks
           /\ [t EXCEPT !.trusted = list].stage = t.stage /\ [t EXCEPT !.trusted = list].gen = t.gen
BY DEF ClientTasks

(* A terminal failure retires the client if the engine still has it.       *)
LEMMA EndKeeps ==
    ASSUME MobileInv, NEW c \in Clients, Started(c), NEW why \in {"failed", "revoked"}, EndsFor(c, why)
    PROVE  MobileInv'
<1> DEFINE t == [clients[c] EXCEPT !.stage = why, !.queue = <<>>]
           cs == [clients EXCEPT ![c] = t]
<1>0. /\ clients \in [Clients -> ClientTasks] /\ clients[c] \in ClientTasks /\ ui \in Screens
      /\ store \in SUBSET MobileDevices /\ taps \in 0..MaxTaps
      /\ reading \subseteq Clients \X SUBSET MobileDevices
      /\ UNCHANGED <<store, reading, taps>>
  BY DEF MobileInv, MobileTypes, EndsFor
<1>Q. <<>> \in Seq(MobileCommands)
  OBVIOUS
<1>S. why \in Stages
  BY DEF Stages
<1>F. ASSUME NEW u \in ClientTasks
      PROVE  LET v == [u EXCEPT !.stage = why, !.queue = <<>>]
             IN  v \in ClientTasks /\ v.stage = why /\ v.gen = u.gen
  BY <1>Q, <1>S DEF ClientTasks
<1>1. t \in ClientTasks /\ t.stage = why /\ t.gen = clients[c].gen
  BY <1>0, <1>F
<1>2. [clients EXCEPT ![c].stage = why, ![c].queue = <<>>] = cs
  BY <1>0
<1> HIDE DEF t
<1>3. /\ cs \in [Clients -> ClientTasks]
      /\ \A d \in Clients : cs[d].gen = clients[d].gen
      /\ \A d \in Clients : cs[d].stage # "unborn" => Started(d)
  BY <1>0, <1>1 DEF Started
<1>4. CASE Current(c)
  <2>1. Retire(FALSE, cs)
    BY <1>2, <1>4 DEF EndsFor
  <2> HIDE DEF cs
  <2>2. QED  BY <1>0, <1>3, <2>1, RetireKeeps
<1>5. CASE ~Current(c)
  <2>1. clients' = cs /\ engine' = engine /\ ui' = ui
    BY <1>2, <1>5 DEF EndsFor
  <2>2. QED  BY <1>0, <1>1, <1>5, <2>1, ClientKeeps
<1>6. QED  BY <1>4, <1>5

(* Every step of the engine and of its clients.                            *)
LEMMA StepOfClientKeeps ==
    ASSUME MobileInv, NEW c \in Clients, ClientStep(c) \/ PromptEnds(c) \/ SessionEnd(c)
    PROVE  MobileInv'
<1>0. /\ clients \in [Clients -> ClientTasks] /\ clients[c] \in ClientTasks /\ ui \in Screens
      /\ store \in SUBSET MobileDevices /\ taps \in 0..MaxTaps
      /\ reading \subseteq Clients \X SUBSET MobileDevices
      /\ c \in 0..MaxClients /\ 0 \in 0..MaxClients /\ c # 0 /\ ui.connected \in 0..MaxClients
  BY MobileAssumption DEF MobileInv, MobileTypes, Clients, Screens
<1>1. /\ Started(c)
  BY DEF ClientStep, PromptEnds, SessionEnd, ConnectStep, PromptReads, PairingStep, SessionReads,
         WaitEnds, ClientLeaves, Started
(* What is shown of this client before the step, if it is the current one. *)
<1>2. ASSUME Current(c)
      PROVE  /\ ui.connected \in {0, c} /\ ui.prompt \in {0, c}
             /\ clients[c].stage # "session" => ui.connected = 0
  BY <1>0, <1>1, <1>2 DEF MobileInv, GenerationHasOne, ScreenIsTrue
<1>3. [connected |-> c, prompt |-> 0] \in Screens /\ Blank \in Screens
  BY <1>0 DEF Blank, Screens
<1>U. ASSUME NEW t \in ClientTasks, t.gen = clients[c].gen, t.stage # "unborn",
             clients' = [clients EXCEPT ![c] = t], UNCHANGED ui, MobileRest,
             t.stage = "session" \/ clients[c].stage # "session"
      PROVE  MobileInv'
  BY <1>0, <1>1, <1>2, <1>U, ClientKeeps DEF MobileRest
<1>C. ASSUME NEW t \in ClientTasks, t.gen = clients[c].gen, t.stage = "session",
             clients' = [clients EXCEPT ![c] = t], Shows(c, [connected |-> c, prompt |-> 0]),
             engine' = engine, reading' = reading, taps' = taps, store' \in SUBSET MobileDevices
      PROVE  MobileInv'
  <2>1. ui' = IF Current(c) THEN [connected |-> c, prompt |-> 0] ELSE ui
    BY <1>C DEF Shows
  <2>2. QED  BY <1>0, <1>1, <1>3, <1>C, <2>1, ClientKeeps
<1>B. ASSUME NEW t \in ClientTasks, t.gen = clients[c].gen, t.stage # "unborn",
             clients' = [clients EXCEPT ![c] = t], Shows(c, Blank), MobileRest
      PROVE  MobileInv'
  <2>1. ui' = IF Current(c) THEN Blank ELSE ui
    BY <1>B DEF Shows
  <2>2. QED  BY <1>0, <1>1, <1>3, <1>B, <2>1, ClientKeeps DEF Blank, MobileRest
<1>A. ASSUME NEW stage \in Stages
      PROVE  LET t == [clients[c] EXCEPT !.stage = stage] IN
             /\ t \in ClientTasks /\ t.stage = stage /\ t.gen = clients[c].gen
             /\ At(c, stage) => clients' = [clients EXCEPT ![c] = t]
  BY <1>0, StageFacts DEF At
<1>G. {"connect", "prompt", "pairing", "session", "wait", "done"} \subseteq Stages
  BY DEF Stages
<1>4. CASE ConnectStep(c)
  <2>1. clients[c].stage = "connect" /\ MobileRest
    BY <1>4 DEF ConnectStep
  <2>2. CASE At(c, "session") /\ Shows(c, [connected |-> c, prompt |-> 0])
    BY <1>0, <1>A, <1>C, <1>G, <2>1, <2>2 DEF MobileRest
  <2>3. CASE At(c, "prompt") /\ Shows(c, [ui EXCEPT !.prompt = c])
    <3>1. ui' = IF Current(c) THEN [ui EXCEPT !.prompt = c] ELSE ui
      BY <2>3 DEF Shows
    <3>2. /\ [ui EXCEPT !.prompt = c] \in Screens /\ [ui EXCEPT !.prompt = c].connected = ui.connected
          /\ [ui EXCEPT !.prompt = c].prompt = c
      BY <1>0 DEF Screens
    <3> DEFINE t == [clients[c] EXCEPT !.stage = "prompt"]
    <3>3. /\ t \in ClientTasks /\ t.stage # "unborn" /\ t.gen = clients[c].gen
          /\ clients' = [clients EXCEPT ![c] = t]
      BY <1>A, <1>G, <2>3
    <3> HIDE DEF t
    <3>4. QED  BY <1>0, <1>1, <1>2, <2>1, <3>1, <3>2, <3>3, ClientKeeps DEF MobileRest
  <2>4. CASE At(c, "wait") /\ Shows(c, Blank)
    BY <1>A, <1>B, <1>G, <2>1, <2>4
  <2>5. QED  BY <1>4, <2>2, <2>3, <2>4 DEF ConnectStep
<1> DEFINE rest == [clients[c] EXCEPT !.queue = Tail(@)]
           command == Head(clients[c].queue)
<1>R. ASSUME clients[c].queue # <<>>
      PROVE  /\ rest \in ClientTasks /\ rest.stage = clients[c].stage /\ rest.gen = clients[c].gen
             /\ command \in MobileCommands
  BY <1>0, <1>R, ReadFacts
<1>L. ASSUME command \in MobileCommands, command.kind = "trust"
      PROVE  command.list \in SUBSET MobileDevices
  BY <1>L DEF MobileCommands
<1>5. CASE PromptReads(c)
  <2>1. clients[c].stage = "prompt" /\ clients[c].queue # <<>>
    BY <1>5 DEF PromptReads
  <2>2. CASE clients' = [clients EXCEPT ![c] = [rest EXCEPT !.stage = "pairing"]] /\ UNCHANGED ui /\ MobileRest
    <3> HIDE DEF rest
    <3>1. [rest EXCEPT !.stage = "pairing"] \in ClientTasks
          /\ [rest EXCEPT !.stage = "pairing"].stage = "pairing"
          /\ [rest EXCEPT !.stage = "pairing"].gen = clients[c].gen
      BY <1>G, <1>R, <2>1, StageFacts
    <3>2. QED  BY <1>U, <2>1, <2>2, <3>1
  <2>3. CASE EndsFor(c, "failed")
    BY <1>1, <2>3, EndKeeps
  <2>4. CASE /\ command.kind = "trust" /\ UNCHANGED ui /\ MobileRest
             /\ clients' = [clients EXCEPT ![c] = [rest EXCEPT !.trusted = command.list]]
    <3> HIDE DEF rest, command
    <3>1. [rest EXCEPT !.trusted = command.list] \in ClientTasks
          /\ [rest EXCEPT !.trusted = command.list].stage = "prompt"
          /\ [rest EXCEPT !.trusted = command.list].gen = clients[c].gen
      BY <1>L, <1>R, <2>1, <2>4, TrustFacts
    <3>2. QED  BY <1>U, <2>1, <2>4, <3>1
  <2>5. QED  BY <1>5, <2>2, <2>3, <2>4 DEF PromptReads
<1>6. CASE PromptEnds(c)
  BY <1>1, <1>6, EndKeeps DEF PromptEnds
<1>7. CASE PairingStep(c)
  <2>1. CASE EndsFor(c, "failed")
    BY <1>1, <2>1, EndKeeps
  <2>2. CASE At(c, "session") /\ Shows(c, [connected |-> c, prompt |-> 0]) /\ MobileRest
    BY <1>0, <1>A, <1>C, <1>G, <2>2 DEF MobileRest
  <2> DEFINE t == [clients[c] EXCEPT !.stage = "session", !.trusted = @ \cup {"peer"}]
             mine == [clients EXCEPT ![c].stage = "session", ![c].trusted = @ \cup {"peer"}]
  <2>3. CASE /\ IF Current(c)
                THEN /\ store' = store \cup {"peer"}
                     /\ clients' = [mine EXCEPT ![c] = Push(@, Trust(store'))]
                ELSE clients' = mine /\ UNCHANGED store
             /\ Shows(c, [connected |-> c, prompt |-> 0])
             /\ UNCHANGED <<engine, reading, taps>>
    <3>1. t \in ClientTasks /\ t.stage = "session" /\ t.gen = clients[c].gen
      <4>1. clients[c].trusted \cup {"peer"} \in SUBSET MobileDevices
        BY <1>0 DEF ClientTasks, MobileDevices
      <4>2. QED  BY <1>0, <1>G, <4>1 DEF ClientTasks
    <3>2. mine = [clients EXCEPT ![c] = t]
      BY <1>0
    <3> HIDE DEF t
    <3>3. store' \in SUBSET MobileDevices
      BY <1>0, <2>3 DEF MobileDevices
    <3>4. CASE Current(c)
      <4> DEFINE u == Push(t, Trust(store'))
      <4>1. Trust(store') \in MobileCommands
        BY <3>3 DEF Trust, MobileCommands
      <4>2. u \in ClientTasks /\ u.stage = "session" /\ u.gen = clients[c].gen
        BY <3>1, <4>1, PushFacts
      <4>3. clients' = [clients EXCEPT ![c] = u]
        BY <1>0, <2>3, <3>2, <3>4
      <4> HIDE DEF u
      <4>4. QED  BY <1>C, <2>3, <3>3, <4>2, <4>3
    <3>5. CASE ~Current(c)
      BY <1>C, <2>3, <3>1, <3>2, <3>3, <3>5
    <3>6. QED  BY <3>4, <3>5
  <2>4. QED  BY <1>7, <2>1, <2>2, <2>3 DEF PairingStep
<1>8. CASE SessionReads(c)
  <2>1. clients[c].stage = "session" /\ clients[c].queue # <<>>
    BY <1>8 DEF SessionReads
  <2>2. CASE clients' = [clients EXCEPT ![c] = rest] /\ UNCHANGED ui /\ MobileRest
    <3> HIDE DEF rest
    <3>1. QED  BY <1>R, <1>U, <2>1, <2>2
  <2>3. CASE EndsFor(c, "revoked")
    BY <1>1, <2>3, EndKeeps
  <2>4. CASE /\ command.kind = "trust" /\ UNCHANGED ui /\ MobileRest
             /\ clients' = [clients EXCEPT ![c] = [rest EXCEPT !.trusted = command.list]]
    <3> HIDE DEF rest, command
    <3>1. [rest EXCEPT !.trusted = command.list] \in ClientTasks
          /\ [rest EXCEPT !.trusted = command.list].stage = "session"
          /\ [rest EXCEPT !.trusted = command.list].gen = clients[c].gen
      BY <1>L, <1>R, <2>1, <2>4, TrustFacts
    <3>2. QED  BY <1>U, <2>1, <2>4, <3>1
  <2>5. QED  BY <1>8, <2>2, <2>3, <2>4 DEF SessionReads
<1>9. CASE SessionEnd(c)
  BY <1>9, <1>A, <1>B, <1>G DEF SessionEnd
<1>10. CASE WaitEnds(c)
  <2>1. PICK stage \in {"done", "connect"} : At(c, stage)
    BY <1>10 DEF WaitEnds
  <2>2. clients[c].stage # "session" /\ UNCHANGED ui /\ MobileRest
    BY <1>10 DEF WaitEnds
  <2> DEFINE t == [clients[c] EXCEPT !.stage = stage]
  <2>3. /\ t \in ClientTasks /\ t.stage # "unborn" /\ t.gen = clients[c].gen
        /\ clients' = [clients EXCEPT ![c] = t]
    BY <1>A, <1>G, <2>1
  <2> HIDE DEF t
  <2>4. QED  BY <1>U, <2>2, <2>3
<1>11. CASE ClientLeaves(c)
  BY <1>11, <1>A, <1>G, <1>U DEF ClientLeaves
<1>12. QED
  BY <1>4, <1>5, <1>6, <1>7, <1>8, <1>9, <1>10, <1>11 DEF ClientStep

LEMMA MobileKeeps == MobileInv /\ [MobileNext]_mobileVars => MobileInv'
<1> SUFFICES ASSUME MobileInv, [MobileNext]_mobileVars
             PROVE  MobileInv'
    OBVIOUS
<1>1. CASE MobileNext
  BY <1>1, TapsKeep, StartKeeps, StepOfClientKeeps DEF MobileNext
<1>2. CASE UNCHANGED mobileVars
  <2>1. UNCHANGED <<engine, ui, store, reading, clients, taps>>
    BY <1>2 DEF mobileVars
  <2>2. MobileTypes
    BY DEF MobileInv
  <2>3. /\ clients \in [Clients -> ClientTasks] /\ reading \subseteq Clients \X SUBSET MobileDevices
        /\ store \in SUBSET MobileDevices /\ taps \in 0..MaxTaps /\ ui \in Screens
    BY <2>2 DEF MobileTypes
  <2>4. /\ clients' \in [Clients -> ClientTasks] /\ reading' \subseteq Clients \X SUBSET MobileDevices
        /\ store' \in SUBSET MobileDevices /\ taps' \in 0..MaxTaps /\ ui' \in Screens
    BY <2>1, <2>3
  <2>5. \A c \in Clients : clients'[c].stage = clients[c].stage /\ clients'[c].gen = clients[c].gen
    BY <2>1
  <2>6. engine' = engine /\ ui'.connected = ui.connected /\ ui'.prompt \in {0, ui.prompt}
    BY <2>1
  <2>7. QED  BY <2>4, <2>5, <2>6, QueueKeeps
<1>3. QED  BY <1>1, <1>2

LEMMA MobileHolds == MobileSpec => []MobileInv
<1>1. QED  BY MobileBegins, MobileKeeps, PTL DEF MobileSpec

(* Every variable of the engine keeps its type.                            *)
THEOREM MobileTypeCorrect == MobileSpec => []MobileTypeOK
<1>1. MobileInv => MobileTypeOK
  BY DEF MobileInv, MobileTypes, MobileTypeOK, Screens
<1>2. QED  BY <1>1, MobileHolds, PTL

(* The screen shows the client that runs, as it is: callbacks of a client  *)
(* the engine has given up change nothing (SynlyEngine.kt compares the     *)
(* generation in every callback).                                          *)
THEOREM ScreenShowsTruth == MobileSpec => []ScreenIsTrue
<1>1. MobileInv => ScreenIsTrue
  BY DEF MobileInv
<1>2. QED  BY <1>1, MobileHolds, PTL

--------------------------------------------------------------------------------
(* The host.                                                               *)

Occupied == {d \in Devices : sessions[d] # 0}

HostTypes ==
    /\ TypeOK
    /\ IsFiniteSet(Occupied)
    /\ count \in [instances : 0 .. MaxInstances, pairings : Nat, commands : Nat]

(* A session that runs was started, and one that reports its end was too   *)
(* and runs no more.                                                       *)
FinishedIsOver ==
    /\ \A i \in Running : i <= count.instances
    /\ \A k \in DOMAIN queue : ~Completes(queue[k]) =>
          queue[k].instance <= count.instances /\ tasks[queue[k].instance] = NoTask

HostInv == HostTypes /\ ReservationIsHeld /\ NoGhostHolder /\ FinishedIsOver

--------------------------------------------------------------------------------
(* A step that may take back a promise changes neither it nor the holder.  *)
LEMMA NotingKeeps ==
    ASSUME NEW s \in Slots(Devices), NEW t \in Slots(Devices)
    PROVE  /\ Noting(s, t) \in Slots(Devices)
           /\ Noting(s, t).active = t.active /\ Noting(s, t).reserved = t.reserved
<1>1. PICK b \in BOOLEAN :
          b = (t.withdrawn \/ (RestsOn(s, s.reserved) /\ ~RestsOn(t, s.reserved)))
  OBVIOUS
<1>2. Noting(s, t) = [t EXCEPT !.withdrawn = b]
  BY <1>1, Zenon DEF Noting
<1>3. QED  BY <1>2 DEF Slots

LEMMA WithdrawalKeeps ==
    ASSUME NEW s \in Slots(Devices)
    PROVE  /\ ClearPreferred(s) \in Slots(Devices) /\ Expire(s) \in Slots(Devices)
           /\ ClearPreferred(s).active = s.active /\ ClearPreferred(s).reserved = s.reserved
           /\ Expire(s).active = s.active /\ Expire(s).reserved = s.reserved
<1> DEFINE t == [s EXCEPT !.preferred = Nobody,
                          !.pending = IF @ = s.preferred THEN Nobody ELSE @]
           u == [s EXCEPT !.pending = Nobody]
<1>1. /\ t \in Slots(Devices) /\ t.active = s.active /\ t.reserved = s.reserved
      /\ u \in Slots(Devices) /\ u.active = s.active /\ u.reserved = s.reserved
  BY DEF Slots
<1>2. ClearPreferred(s) = Noting(s, t) /\ Expire(s) = Noting(s, u)
  BY DEF ClearPreferred, Expire
<1> HIDE DEF t, u
<1>3. QED  BY <1>1, <1>2, NotingKeeps

LEMMA SwitchKeeps ==
    ASSUME NEW s \in Slots(Devices), NEW d \in Devices
    PROVE  /\ RequestSwitch(s, d) \in Slots(Devices)
           /\ RequestSwitch(s, d).active = s.active /\ RequestSwitch(s, d).reserved = s.reserved
<1> DEFINE t == [s EXCEPT !.preferred = d, !.pending = d]
<1>1. t \in Slots(Devices) /\ t.active = s.active /\ t.reserved = s.reserved
  BY DEF Slots
<1>2. RequestSwitch(s, d) = Noting(s, t)
  BY DEF RequestSwitch
<1> HIDE DEF t
<1>3. QED  BY <1>1, <1>2, NotingKeeps

(* The methods of the slot keep its type ...                               *)
LEMMA SlotTypes ==
    ASSUME NEW s \in Slots(Devices), NEW d \in Devices, NEW c \in Devices \cup {Nobody}
    PROVE  /\ Reserve(s, d) \in Slots(Devices) /\ Claim(s, d) \in Slots(Devices)
           /\ Release(s, d) \in Slots(Devices) /\ OnSessionEnd(s, d, c) \in Slots(Devices)
           /\ RequestSwitch(s, d) \in Slots(Devices) /\ ClearPreferred(s) \in Slots(Devices)
           /\ Expire(s) \in Slots(Devices)
           /\ Demoted(s, d) \in Devices \cup {Nobody}
           /\ Promotes(s, d, c) \in Devices \cup {Nobody}
<1>1. Reserve(s, d) \in Slots(Devices) /\ Release(s, d) \in Slots(Devices)
  BY DEF Reserve, Release, Slots
<1>2. Claim(s, d) \in Slots(Devices)
  BY DEF Claim, Slots
<1>3. OnSessionEnd(s, d, c) \in Slots(Devices)
  BY <1>1 DEF OnSessionEnd, Slots
<1>4. /\ RequestSwitch(s, d) \in Slots(Devices) /\ ClearPreferred(s) \in Slots(Devices)
      /\ Expire(s) \in Slots(Devices)
  BY SwitchKeeps, WithdrawalKeeps
<1>5. Demoted(s, d) \in Devices \cup {Nobody} /\ Promotes(s, d, c) \in Devices \cup {Nobody}
  BY DEF Demoted, Promotes, Slots
<1>6. QED  BY <1>1, <1>2, <1>3, <1>4, <1>5

(* ... and this is what they do to the holder and to the promise.          *)
LEMMA SlotEffects ==
    ASSUME NEW s \in Slots(Devices), NEW d \in Devices, NEW c \in Devices \cup {Nobody}
    PROVE  /\ Reserve(s, d).active = s.active
           /\ Reserve(s, d).reserved = (IF GrantsFull(s, d) THEN d ELSE s.reserved)
           /\ Claim(s, d).active = (IF s.reserved = d THEN d ELSE s.active)
           /\ Claim(s, d).reserved = (IF s.reserved = d THEN Nobody ELSE s.reserved)
           /\ Release(s, d).active = s.active
           /\ Release(s, d).reserved = (IF s.reserved = d THEN Nobody ELSE s.reserved)
           /\ OnSessionEnd(s, d, c).active = (IF s.active = d THEN Nobody ELSE s.active)
           /\ OnSessionEnd(s, d, c).reserved \in {Nobody, s.reserved}
           /\ RequestSwitch(s, d).active = s.active /\ RequestSwitch(s, d).reserved = s.reserved
           /\ ClearPreferred(s).active = s.active /\ ClearPreferred(s).reserved = s.reserved
           /\ Expire(s).active = s.active /\ Expire(s).reserved = s.reserved
<1>1. /\ Reserve(s, d).active = s.active
      /\ Reserve(s, d).reserved = (IF GrantsFull(s, d) THEN d ELSE s.reserved)
  BY DEF Reserve, Slots
<1>2. /\ Claim(s, d).active = (IF s.reserved = d THEN d ELSE s.active)
      /\ Claim(s, d).reserved = (IF s.reserved = d THEN Nobody ELSE s.reserved)
  BY DEF Claim, Claims, Slots
<1>3. /\ Release(s, d).active = s.active
      /\ Release(s, d).reserved = (IF s.reserved = d THEN Nobody ELSE s.reserved)
  BY DEF Release, Slots
<1>4. /\ OnSessionEnd(s, d, c).active = (IF s.active = d THEN Nobody ELSE s.active)
      /\ OnSessionEnd(s, d, c).reserved \in {Nobody, s.reserved}
  BY <1>3 DEF OnSessionEnd, Slots
<1>5. /\ RequestSwitch(s, d).active = s.active /\ RequestSwitch(s, d).reserved = s.reserved
      /\ ClearPreferred(s).active = s.active /\ ClearPreferred(s).reserved = s.reserved
      /\ Expire(s).active = s.active /\ Expire(s).reserved = s.reserved
  BY SwitchKeeps, WithdrawalKeeps
<1>6. QED  BY <1>1, <1>2, <1>3, <1>4, <1>5

(* The oldest trusted session is one of a client, if there is one.         *)
LEMMA CandidateType ==
    ASSUME TypeOK
    PROVE  Candidate \in Devices \cup {Nobody}
<1> DEFINE able == {d \in trusted : sessions[d] # 0}
           ages == {sessions[d] : d \in able}
           Less == OpToRel(<, Nat)
<1>1. CASE able = {}
  BY <1>1 DEF Candidate
<1>2. CASE able # {}
  <2>1. ages \subseteq Nat /\ ages # {}
    <3>1. \A d \in able : sessions[d] \in Nat
      <4>1. /\ able \subseteq Devices /\ sessions \in [Devices -> 0 .. MaxInstances]
            /\ MaxInstances \in Nat
        BY HostAssumption DEF TypeOK
      <4> HIDE DEF able
      <4>2. QED  BY <4>1
    <3> HIDE DEF able
    <3>2. QED  BY <1>2, <3>1
  <2> HIDE DEF ages
  <2>2. PICK m \in ages : \A n \in ages : ~(<<n, m>> \in Less)
    BY <2>1, WFMin, NatLessThanWellFounded
  <2>3. \A n \in ages : m <= n
    <3>1. ASSUME NEW n \in Nat, NEW k \in Nat, n < k
          PROVE  <<n, k>> \in Less
      BY <3>1 DEF OpToRel
    <3> HIDE DEF Less
    <3>2. ASSUME NEW n \in ages
          PROVE  m <= n
      <4>1. m \in Nat /\ n \in Nat
        BY <2>1
      <4>2. ~(<<n, m>> \in Less)
        BY <2>2
      <4>3. ~(n < m)
        BY <3>1, <4>1, <4>2
      <4>4. QED  BY <4>1, <4>3
    <3>3. QED  BY <3>2
  <2>4. \E d \in able : \A e \in able : sessions[d] <= sessions[e]
    BY <2>3 DEF ages
  <2>5. Candidate \in able
    BY <1>2, <2>4 DEF Candidate
  <2>6. QED  BY <2>5, HostAssumption DEF TypeOK
<1>3. QED  BY <1>1, <1>2

(* Telling a session to end, or shutting it, changes no task that does not *)
(* run.                                                                    *)
LEMMA ToldType ==
    ASSUME TypeOK, NEW d \in Devices \cup {Nobody}
    PROVE  /\ Told(tasks, d) \in [Instances -> Tasks \cup {NoTask}]
           /\ \A i \in Instances : Told(tasks, d)[i] = NoTask <=> tasks[i] = NoTask
<1>1. ASSUME NEW t \in Tasks
      PROVE  [t EXCEPT !.told = TRUE] \in Tasks /\ [t EXCEPT !.told = TRUE] # NoTask /\ t # NoTask
  <2>1. [t EXCEPT !.told = TRUE] \in Tasks
    BY DEF Tasks
  <2>2. \A u \in Tasks : u.device \in Devices
    BY DEF Tasks
  <2>3. NoTask.device \notin Devices
    BY HostAssumption DEF NoTask
  <2>4. QED  BY <2>1, <2>2, <2>3
<1>2. CASE d # Nobody /\ sessions[d] \in Running
  <2>1. sessions[d] \in Instances /\ tasks[sessions[d]] \in Tasks
    BY <1>2 DEF Running, TypeOK
  <2>2. Told(tasks, d) = [tasks EXCEPT ![sessions[d]] = [tasks[sessions[d]] EXCEPT !.told = TRUE]]
    BY <1>2 DEF Told
  <2>3. QED  BY <1>1, <2>1, <2>2 DEF TypeOK
<1>3. CASE ~(d # Nobody /\ sessions[d] \in Running)
  BY <1>3 DEF Told, TypeOK
<1>4. QED  BY <1>2, <1>3

LEMMA ShutType ==
    ASSUME TypeOK, NEW d \in Devices
    PROVE  /\ Shut(d) \in [Instances -> Tasks \cup {NoTask}]
           /\ \A i \in Instances : Shut(d)[i] = NoTask <=> tasks[i] = NoTask
<1> DEFINE Ending(t) == [t EXCEPT !.told = TRUE, !.open = FALSE]
<1>1. ASSUME NEW t \in Tasks
      PROVE  Ending(t) \in Tasks /\ Ending(t) # NoTask /\ t # NoTask
  <2>1. Ending(t) \in Tasks
    BY DEF Tasks
  <2>2. \A u \in Tasks : u.device \in Devices
    BY DEF Tasks
  <2>3. NoTask.device \notin Devices
    BY HostAssumption DEF NoTask
  <2>4. QED  BY <2>1, <2>2, <2>3
<1>2. CASE sessions[d] \in Running
  <2>1. sessions[d] \in Instances /\ tasks[sessions[d]] \in Tasks
    BY <1>2 DEF Running, TypeOK
  <2>2. Shut(d) = [tasks EXCEPT ![sessions[d]] = Ending(tasks[sessions[d]])]
    BY <1>2, <2>1 DEF Shut, TypeOK
  <2> HIDE DEF Ending
  <2>3. QED  BY <1>1, <2>1, <2>2 DEF TypeOK
<1>3. CASE sessions[d] \notin Running
  BY <1>3 DEF Shut, TypeOK
<1>4. QED  BY <1>2, <1>3
--------------------------------------------------------------------------------
(* The table of sessions: taking a session out, or putting one in where    *)
(* there is room, keeps the limit; a device that finds no room has none.   *)
LEMMA TableKeepsLimit ==
    ASSUME HostTypes, NEW d \in Devices, NEW i \in 0 .. MaxInstances, i = 0 \/ HasRoom(d),
           sessions' = [sessions EXCEPT ![d] = i]
    PROVE  /\ sessions' \in [Devices -> 0 .. MaxInstances]
           /\ IsFiniteSet(Occupied') /\ Cardinality(Occupied') <= MaxSessions
<1> DEFINE Others == {e \in Devices \ {d} : sessions[e] # 0}
<1>1. sessions \in [Devices -> 0 .. MaxInstances]
  BY DEF HostTypes, TypeOK
<1>2. IsFiniteSet(Occupied) /\ Cardinality(Occupied) <= MaxSessions
  BY DEF HostTypes, TypeOK, Occupied
<1>3. Others \in SUBSET Occupied
  BY DEF Occupied
<1>4. /\ IsFiniteSet(Others) /\ Cardinality(Others) <= Cardinality(Occupied)
      /\ Cardinality(Others) \in Nat /\ Cardinality(Occupied) \in Nat
  BY <1>2, <1>3, FS_Subset, FS_CardinalityType
<1>5. CASE i = 0
  <2>1. Occupied' = Others
    BY <1>1, <1>5 DEF Occupied
  <2> HIDE DEF Others
  <2>2. QED  BY <1>1, <1>2, <1>4, <2>1, HostAssumption
<1>6. CASE i # 0
  <2>1. Occupied' = Others \cup {d} /\ d \notin Others
    BY <1>1, <1>6 DEF Occupied
  <2>2. Cardinality(Others) < MaxSessions
    BY <1>6 DEF HasRoom
  <2> HIDE DEF Others
  <2>3. IsFiniteSet(Others \cup {d}) /\ Cardinality(Others \cup {d}) = Cardinality(Others) + 1
    BY <1>4, <2>1, FS_AddElement
  <2>4. QED  BY <1>1, <1>4, <2>1, <2>2, <2>3, HostAssumption
<1>7. QED  BY <1>5, <1>6

LEMMA NoRoomIsAbsent ==
    ASSUME HostTypes, NEW d \in Devices, ~HasRoom(d)
    PROVE  sessions[d] = 0
<1>1. IsFiniteSet(Occupied) /\ Cardinality(Occupied) <= MaxSessions
  BY DEF HostTypes, TypeOK, Occupied
<1>2. {e \in Devices \ {d} : sessions[e] # 0} = Occupied \ {d}
  BY DEF Occupied
<1>3. ~(Cardinality(Occupied \ {d}) < MaxSessions)
  BY <1>2 DEF HasRoom
<1>4. SUFFICES ASSUME d \in Occupied
               PROVE  FALSE
  BY DEF Occupied
<1>5. Cardinality(Occupied \ {d}) = Cardinality(Occupied) - 1 /\ Cardinality(Occupied) \in Nat
  BY <1>1, <1>4, FS_RemoveElement, FS_CardinalityType
<1>6. QED  BY <1>1, <1>3, <1>5, HostAssumption

(* The event of a turn, the queue without it, and the queue with one more. *)
LEMMA TurnFacts ==
    ASSUME TypeOK, NEW event \in Arrived
    PROVE  /\ event \in Events /\ event.device \in Devices
           /\ Completes(event) => /\ event.profile \in Profiles
                                  /\ event.only \in BOOLEAN /\ event.reconnect \in BOOLEAN
           /\ ~Completes(event) => event.instance \in Instances
           /\ Tail(queue) \in Seq(Events)
           /\ 1 \in DOMAIN queue /\ queue[1] = event
           /\ \A k \in DOMAIN queue : k # 1 =>
                 \E j \in DOMAIN Tail(queue) : Tail(queue)[j] = queue[k]
           /\ \A j \in DOMAIN Tail(queue) :
                 \E k \in DOMAIN queue : Tail(queue)[j] = queue[k]
<1>1. queue \in Seq(Events) /\ queue # <<>> /\ event = Head(queue)
  BY DEF TypeOK, Arrived
<1>2. event \in Events /\ Tail(queue) \in Seq(Events)
  BY <1>1, HeadTailProperties
<1>3. 1 \in DOMAIN queue /\ queue[1] = event
  BY <1>1
<1>4. /\ Len(queue) \in Nat /\ Len(Tail(queue)) = Len(queue) - 1
      /\ DOMAIN queue = 1 .. Len(queue) /\ DOMAIN Tail(queue) = 1 .. Len(Tail(queue))
      /\ \A j \in 1 .. Len(Tail(queue)) : Tail(queue)[j] = queue[j + 1]
  BY <1>1, <1>2, HeadTailProperties, LenProperties
<1>5. ASSUME NEW k \in DOMAIN queue, k # 1
      PROVE  \E j \in DOMAIN Tail(queue) : Tail(queue)[j] = queue[k]
  <2>1. k - 1 \in DOMAIN Tail(queue) /\ Tail(queue)[k - 1] = queue[(k - 1) + 1] /\ (k - 1) + 1 = k
    BY <1>4, <1>5
  <2>2. QED  BY <2>1
<1>6. ASSUME NEW j \in DOMAIN Tail(queue)
      PROVE  \E k \in DOMAIN queue : Tail(queue)[j] = queue[k]
  <2>1. j + 1 \in DOMAIN queue /\ Tail(queue)[j] = queue[j + 1]
    BY <1>4, <1>6
  <2>2. QED  BY <2>1
<1>7. /\ event.device \in Devices
      /\ Completes(event) => /\ event.profile \in Profiles
                             /\ event.only \in BOOLEAN /\ event.reconnect \in BOOLEAN
      /\ ~Completes(event) => event.instance \in Instances
  BY <1>2 DEF Events, Completes
<1>8. QED  BY <1>2, <1>3, <1>5, <1>6, <1>7

LEMMA AppendFacts ==
    ASSUME TypeOK, NEW event \in Events
    PROVE  /\ Append(queue, event) \in Seq(Events)
           /\ \A k \in DOMAIN queue :
                 k \in DOMAIN Append(queue, event) /\ Append(queue, event)[k] = queue[k]
           /\ \E k \in DOMAIN Append(queue, event) : Append(queue, event)[k] = event
           /\ \A k \in DOMAIN Append(queue, event) :
                 Append(queue, event)[k] = event
                 \/ (k \in DOMAIN queue /\ Append(queue, event)[k] = queue[k])
<1>1. queue \in Seq(Events)
  BY DEF TypeOK
<1>2. /\ Append(queue, event) \in Seq(Events) /\ Len(queue) \in Nat
      /\ DOMAIN queue = 1 .. Len(queue)
      /\ DOMAIN Append(queue, event) = 1 .. (Len(queue) + 1)
      /\ \A k \in 1 .. Len(queue) : Append(queue, event)[k] = queue[k]
      /\ Append(queue, event)[Len(queue) + 1] = event
  BY <1>1, AppendProperties, LenProperties
<1>3. Len(queue) + 1 \in DOMAIN Append(queue, event)
  BY <1>2
<1>4. \A k \in DOMAIN Append(queue, event) : k = Len(queue) + 1 \/ k \in DOMAIN queue
  BY <1>2
<1>5. \A k \in DOMAIN queue : k \in DOMAIN Append(queue, event)
  BY <1>2
<1>6. QED  BY <1>2, <1>3, <1>4, <1>5
--------------------------------------------------------------------------------
(* Every step keeps the types and the limit of the table.                  *)
LEMMA InitTypes == Init => HostTypes
<1> SUFFICES ASSUME Init
             PROVE  HostTypes
    OBVIOUS
<1>1. Occupied = {} /\ {d \in Devices : sessions[d] # 0} = {}
  BY DEF Init, Occupied
<1>2. /\ slot \in Slots(Devices) /\ pairing = NoPairing /\ queue \in Seq(Events)
      /\ sessions \in [Devices -> 0 .. MaxInstances] /\ trusted \subseteq Saved
      /\ tasks \in [Instances -> Tasks \cup {NoTask}]
      /\ count \in [instances : 0 .. MaxInstances, pairings : Nat, commands : Nat]
      /\ loop \in [step : {"ready", "close", "revoke", "promote"}, device : Devices \cup {Nobody}]
  BY HostAssumption DEF Init, Slots, WithPreferred, Ready
<1>3. IsFiniteSet({}) /\ Cardinality({}) = 0
  BY FS_EmptySet
<1>4. TypeOK
  <2>1. Cardinality({d \in Devices : sessions[d] # 0}) <= MaxSessions
    BY <1>1, <1>3, HostAssumption
  <2>2. QED  BY <1>2, <2>1 DEF TypeOK
<1>5. QED  BY <1>1, <1>2, <1>3, <1>4 DEF HostTypes

LEMMA StepTypes == HostTypes /\ [Next]_vars => HostTypes'
<1> SUFFICES ASSUME HostTypes, [Next]_vars
             PROVE  HostTypes'
    OBVIOUS
<1> DEFINE Loops == [step : {"ready", "close", "revoke", "promote"}, device : Devices \cup {Nobody}]
           Counts == [instances : 0 .. MaxInstances, pairings : Nat, commands : Nat]
<1>0. /\ TypeOK /\ loop \in Loops /\ slot \in Slots(Devices) /\ pairing \in Pairings \cup {NoPairing}
      /\ queue \in Seq(Events) /\ sessions \in [Devices -> 0 .. MaxInstances]
      /\ tasks \in [Instances -> Tasks \cup {NoTask}] /\ trusted \subseteq Saved
      /\ count \in Counts /\ IsFiniteSet(Occupied) /\ Cardinality(Occupied) <= MaxSessions
  BY DEF HostTypes, TypeOK, Occupied
<1>00. /\ Ready \in Loops
       /\ \A step \in {"close", "revoke", "promote"}, d \in Devices \cup {Nobody} :
              Waits(step, d) \in Loops
  BY DEF Ready, Waits
<1>000. ASSUME NEW d \in Devices
        PROVE  /\ Reserve(slot, d) \in Slots(Devices) /\ Claim(slot, d) \in Slots(Devices)
               /\ Release(slot, d) \in Slots(Devices) /\ RequestSwitch(slot, d) \in Slots(Devices)
               /\ ClearPreferred(slot) \in Slots(Devices) /\ Expire(slot) \in Slots(Devices)
               /\ Demoted(slot, d) \in Devices \cup {Nobody}
  BY <1>0, SlotTypes
(* It is enough that each variable has its type and the table its limit.   *)
<1>G. ASSUME loop' \in Loops, slot' \in Slots(Devices), pairing' \in Pairings \cup {NoPairing},
             queue' \in Seq(Events), sessions' \in [Devices -> 0 .. MaxInstances],
             tasks' \in [Instances -> Tasks \cup {NoTask}], trusted' \subseteq Saved,
             count' \in Counts, IsFiniteSet(Occupied'), Cardinality(Occupied') <= MaxSessions
      PROVE  HostTypes'
  BY <1>G DEF HostTypes, TypeOK, Occupied
<1>S. ASSUME UNCHANGED sessions
      PROVE  /\ sessions' \in [Devices -> 0 .. MaxInstances]
             /\ IsFiniteSet(Occupied') /\ Cardinality(Occupied') <= MaxSessions
  BY <1>0, <1>S DEF Occupied
<1>C. /\ [count EXCEPT !.commands = @ + 1] \in Counts
      /\ [count EXCEPT !.pairings = @ + 1] \in Counts
  BY <1>0
<1> HIDE DEF Loops, Counts
<1>1. ASSUME NEW d \in Devices, NEW reconnect \in BOOLEAN, PairingStarts(d, reconnect)
      PROVE  HostTypes'
  <2>1. pairing' \in Pairings
    <3>1. (IF Online(d) THEN sessions[d] ELSE 0) \in 0 .. MaxInstances
      BY <1>0, HostAssumption
    <3>2. QED  BY <1>1, <3>1 DEF PairingStarts, Pairings
  <2>2. QED  BY <1>0, <1>1, <1>C, <1>S, <1>G, <2>1 DEF PairingStarts
<1>2. ASSUME NEW only \in BOOLEAN, PairingReserves(only)
      PROVE  HostTypes'
  <2>1. pairing \in Pairings /\ pairing.device \in Devices
    BY <1>0, <1>2 DEF PairingReserves, Pairings
  <2>2. pairing' \in Pairings
    BY <1>2, <2>1 DEF PairingReserves, Pairings, Profiles
  <2>3. slot' \in Slots(Devices)
    BY <1>2, <1>000, <2>1 DEF PairingReserves
  <2>4. QED  BY <1>0, <1>2, <1>S, <1>G, <2>2, <2>3 DEF PairingReserves
<1>3. CASE PairingFails
  <2>1. pairing.device \in Devices
    BY <1>0, <1>3 DEF PairingFails, Pairings
  <2>2. slot' \in Slots(Devices) /\ pairing' = NoPairing
    BY <1>0, <1>3, <1>000, <2>1 DEF PairingFails
  <2>3. QED  BY <1>0, <1>3, <1>S, <1>G, <2>2 DEF PairingFails
<1>4. CASE PairingEnds
  <2> DEFINE complete == [kind |-> "Complete", device |-> pairing.device,
                          reconnect |-> pairing.reconnect, only |-> pairing.only,
                          profile |-> pairing.profile]
  <2>1. complete \in Events
    BY <1>0, <1>4 DEF PairingEnds, Pairings, Events
  <2>2. queue' = Append(queue, complete) /\ pairing' = NoPairing
    BY <1>4 DEF PairingEnds
  <2> HIDE DEF complete
  <2>3. queue' \in Seq(Events)
    BY <1>0, <2>1, <2>2, AppendFacts
  <2>4. QED  BY <1>0, <1>4, <1>S, <1>G, <2>2, <2>3 DEF PairingEnds
<1>5. CASE TurnAway
  <2>1. PICK event \in Arrived :
           /\ queue' = Tail(queue) /\ slot' = Release(slot, event.device)
           /\ \/ UNCHANGED sessions
              \/ sessions' = [sessions EXCEPT ![event.device] = 0]
           /\ UNCHANGED <<loop, pairing, tasks, trusted, count>>
    BY <1>5 DEF TurnAway, TakesUp
  <2>2. queue' \in Seq(Events) /\ event.device \in Devices
    BY <1>0, <2>1, TurnFacts
  <2>3. slot' \in Slots(Devices)
    BY <1>000, <2>1, <2>2
  <2>4. /\ sessions' \in [Devices -> 0 .. MaxInstances]
        /\ IsFiniteSet(Occupied') /\ Cardinality(Occupied') <= MaxSessions
    BY <1>S, <2>1, <2>2, TableKeepsLimit, HostAssumption
  <2>5. QED  BY <1>0, <1>G, <2>1, <2>2, <2>3, <2>4
<1>6. CASE JoinSession
  <2>1. PICK event \in Arrived :
           /\ queue' = Tail(queue) /\ slot' = Release(slot, event.device)
           /\ Online(event.device)
           /\ tasks' = [tasks EXCEPT ![sessions[event.device]].second = TRUE]
           /\ UNCHANGED <<loop, pairing, sessions, trusted, count>>
    BY <1>6 DEF JoinSession, TakesUp
  <2>2. queue' \in Seq(Events) /\ event.device \in Devices
    BY <1>0, <2>1, TurnFacts
  <2>3. slot' \in Slots(Devices)
    BY <1>000, <2>1, <2>2
  <2>4. tasks' \in [Instances -> Tasks \cup {NoTask}]
    <3> DEFINE i == sessions[event.device]
    <3>1. i \in Instances /\ tasks[i] \in Tasks
      BY <1>0, <2>1 DEF Online, Alive, Running
    <3>2. [tasks[i] EXCEPT !.second = TRUE] \in Tasks
      BY <3>1 DEF Tasks
    <3>3. tasks' = [tasks EXCEPT ![i] = [tasks[i] EXCEPT !.second = TRUE]]
      BY <2>1
    <3> HIDE DEF i
    <3>4. QED  BY <1>0, <3>1, <3>2, <3>3
  <2>5. QED  BY <1>0, <1>S, <1>G, <2>1, <2>2, <2>3, <2>4
<1>7. CASE StartSession
  <2> DEFINE i == count.instances + 1
  <2>1. PICK event \in Arrived :
           /\ Completes(event) /\ queue' = Tail(queue) /\ slot' = Claim(slot, event.device)
           /\ HasRoom(event.device) /\ i <= MaxInstances
           /\ tasks' = [Told(tasks, Demoted(slot, event.device)) EXCEPT
                  ![i] = [device |-> event.device, profile |-> event.profile, open |-> TRUE,
                          told |-> FALSE, second |-> FALSE]]
           /\ sessions' = [sessions EXCEPT ![event.device] = i]
           /\ count' = [count EXCEPT !.instances = i]
           /\ UNCHANGED <<loop, pairing, trusted>>
    BY <1>7 DEF StartSession, TakesUp
  <2>2. queue' \in Seq(Events) /\ event.device \in Devices /\ event.profile \in Profiles
    BY <1>0, <2>1, TurnFacts
  <2>3. slot' \in Slots(Devices) /\ Demoted(slot, event.device) \in Devices \cup {Nobody}
    BY <1>000, <2>1, <2>2
  <2>4. i \in Instances /\ i \in 0 .. MaxInstances /\ count' \in Counts
    <3>1. count.instances \in 0 .. MaxInstances
      BY <1>0 DEF Counts
    <3>2. i \in 1 .. MaxInstances /\ i \in 0 .. MaxInstances
      BY <2>1, <3>1, HostAssumption
    <3> HIDE DEF i
    <3>3. [count EXCEPT !.instances = i] \in Counts
      BY <1>0, <3>2 DEF Counts
    <3>4. QED  BY <2>1, <3>2, <3>3 DEF Instances
  <2> HIDE DEF i
  <2>5. tasks' \in [Instances -> Tasks \cup {NoTask}]
    <3>1. Told(tasks, Demoted(slot, event.device)) \in [Instances -> Tasks \cup {NoTask}]
      BY <1>0, <2>3, ToldType
    <3>2. [device |-> event.device, profile |-> event.profile, open |-> TRUE,
           told |-> FALSE, second |-> FALSE] \in Tasks
      BY <2>2 DEF Tasks
    <3>3. QED  BY <2>1, <2>4, <3>1, <3>2
  <2>6. /\ sessions' \in [Devices -> 0 .. MaxInstances]
        /\ IsFiniteSet(Occupied') /\ Cardinality(Occupied') <= MaxSessions
    BY <2>1, <2>2, <2>4, TableKeepsLimit
  <2>7. QED  BY <1>0, <1>G, <2>1, <2>2, <2>3, <2>4, <2>5, <2>6
<1>8. CASE CloseSession
  <2>1. PICK event \in Arrived :
           /\ queue' = Tail(queue)
           /\ \/ UNCHANGED sessions
              \/ sessions' = [sessions EXCEPT ![event.device] = 0]
           /\ loop' \in {Waits("close", event.device), Ready}
           /\ UNCHANGED <<slot, pairing, tasks, trusted, count>>
    BY <1>8 DEF CloseSession
  <2>2. queue' \in Seq(Events) /\ event.device \in Devices
    BY <1>0, <2>1, TurnFacts
  <2>3. loop' \in Loops
    BY <1>00, <2>1, <2>2
  <2>4. /\ sessions' \in [Devices -> 0 .. MaxInstances]
        /\ IsFiniteSet(Occupied') /\ Cardinality(Occupied') <= MaxSessions
    BY <1>S, <2>1, <2>2, TableKeepsLimit, HostAssumption
  <2>5. QED  BY <1>0, <1>G, <2>1, <2>2, <2>3, <2>4
<1>9. CASE SlotHearsEnd
  <2>1. loop.device \in Devices \cup {Nobody} /\ Candidate \in Devices \cup {Nobody}
    BY <1>0, CandidateType DEF Loops
  <2>2. /\ OnSessionEnd(slot, loop.device, Candidate) \in Slots(Devices)
        /\ Promotes(slot, loop.device, Candidate) \in Devices \cup {Nobody}
    BY <1>0, <2>1 DEF OnSessionEnd, Promotes, Release, Slots
  <2>3. Told(tasks, Promotes(slot, loop.device, Candidate)) \in [Instances -> Tasks \cup {NoTask}]
    BY <1>0, <2>2, ToldType
  <2>4. QED  BY <1>0, <1>00, <1>9, <1>S, <1>G, <2>2, <2>3 DEF SlotHearsEnd
<1>10. ASSUME NEW d \in Devices, Disconnect(d) \/ Revoke(d)
       PROVE  HostTypes'
  <2>1. tasks' \in [Instances -> Tasks \cup {NoTask}]
    BY <1>0, <1>10, ShutType DEF Disconnect, Revoke
  <2>2. loop' \in Loops /\ count' \in Counts
    BY <1>0, <1>00, <1>C, <1>10 DEF Disconnect, Revoke, Commanded
  <2>3. QED  BY <1>0, <1>10, <1>S, <1>G, <2>1, <2>2 DEF Disconnect, Revoke
<1>11. ASSUME NEW d \in Devices, SwitchActive(d)
       PROVE  HostTypes'
  <2>1. tasks' \in [Instances -> Tasks \cup {NoTask}] /\ slot' \in Slots(Devices)
    BY <1>0, <1>000, <1>11, ToldType DEF SwitchActive
  <2>2. QED  BY <1>0, <1>C, <1>11, <1>S, <1>G, <2>1 DEF SwitchActive, Commanded
<1>12. CASE TrustIsGone
  BY <1>0, <1>00, <1>12, <1>S, <1>G DEF TrustIsGone
<1>13. CASE ForgetPreferred
  <2>1. slot' \in Slots(Devices)
    BY <1>0, <1>13, WithdrawalKeeps DEF ForgetPreferred
  <2>2. QED  BY <1>0, <1>C, <1>13, <1>S, <1>G, <2>1 DEF ForgetPreferred, Commanded
<1>14. CASE WaitExpires
  <2>1. slot' \in Slots(Devices)
    BY <1>0, <1>14, WithdrawalKeeps DEF WaitExpires
  <2>2. QED  BY <1>0, <1>00, <1>14, <1>S, <1>G, <2>1 DEF WaitExpires
<1>15. CASE StandInIsTold
  <2>1. Told(tasks, Candidate) \in [Instances -> Tasks \cup {NoTask}]
    BY <1>0, CandidateType, ToldType
  <2>2. QED  BY <1>0, <1>00, <1>15, <1>S, <1>G, <2>1 DEF StandInIsTold
<1>16. ASSUME NEW i \in Instances, SessionBreaks(i)
       PROVE  HostTypes'
  <2>1. tasks[i] \in Tasks
    BY <1>0, <1>16 DEF SessionBreaks, Running
  <2>2. [tasks[i] EXCEPT !.open = FALSE] \in Tasks
    BY <2>1 DEF Tasks
  <2>3. tasks' = [tasks EXCEPT ![i] = [tasks[i] EXCEPT !.open = FALSE]]
    BY <1>16 DEF SessionBreaks
  <2>4. tasks' \in [Instances -> Tasks \cup {NoTask}]
    BY <1>0, <2>2, <2>3
  <2>5. QED  BY <1>0, <1>16, <1>S, <1>G, <2>4 DEF SessionBreaks
<1>17. ASSUME NEW i \in Instances, SessionEnds(i)
       PROVE  HostTypes'
  <2>1. tasks[i] \in Tasks
    BY <1>0, <1>17 DEF SessionEnds, Running
  <2>2. [kind |-> "Finished", device |-> tasks[i].device, instance |-> i] \in Events
    BY <2>1 DEF Tasks, Events
  <2>3. queue' \in Seq(Events)
    BY <1>0, <1>17, <2>2, AppendFacts DEF SessionEnds
  <2>4. tasks' \in [Instances -> Tasks \cup {NoTask}]
    BY <1>0, <1>17 DEF SessionEnds
  <2>5. QED  BY <1>0, <1>17, <1>S, <1>G, <2>3, <2>4 DEF SessionEnds
<1>18. CASE UNCHANGED vars
  BY <1>0, <1>18, <1>S, <1>G DEF vars
<1>19. QED
  BY <1>1, <1>2, <1>3, <1>4, <1>5, <1>6, <1>7, <1>8, <1>9, <1>10, <1>11, <1>12, <1>13, <1>14,
     <1>15, <1>16, <1>17, <1>18 DEF Next

--------------------------------------------------------------------------------
(* A promise stays in somebody's hands.                                    *)
LEMMA StepReservation == HostTypes /\ ReservationIsHeld /\ [Next]_vars => ReservationIsHeld'
<1> SUFFICES ASSUME HostTypes, ReservationIsHeld, [Next]_vars
             PROVE  ReservationIsHeld'
    OBVIOUS
<1> DEFINE InHand(p, d) == p # NoPairing /\ p.device = d /\ p.profile = "Full"
           InQueue(q, d) == \E k \in DOMAIN q :
                                Completes(q[k]) /\ q[k].device = d /\ q[k].profile = "Full"
<1>0. /\ TypeOK /\ slot \in Slots(Devices) /\ pairing \in Pairings \cup {NoPairing}
      /\ loop.device \in Devices \cup {Nobody}
  BY DEF HostTypes, TypeOK
<1>H. slot.reserved # Nobody => InHand(pairing, slot.reserved) \/ InQueue(queue, slot.reserved)
  BY DEF ReservationIsHeld
<1>G. ASSUME slot'.reserved # Nobody => InHand(pairing', slot'.reserved) \/ InQueue(queue', slot'.reserved)
      PROVE  ReservationIsHeld'
  BY <1>G DEF ReservationIsHeld
(* Nobody touches pairing or queue.                                        *)
<1>U. ASSUME UNCHANGED <<pairing, queue>>, slot'.reserved \in {Nobody, slot.reserved}
      PROVE  ReservationIsHeld'
  BY <1>H, <1>G, <1>U
(* The loop takes an event and releases, or another's promise is not in it.*)
<1>T. ASSUME NEW event \in Arrived, queue' = Tail(queue), UNCHANGED pairing,
             slot'.reserved \in {Nobody, slot.reserved},
             Completes(event) /\ slot.reserved = event.device => slot'.reserved = Nobody
      PROVE  ReservationIsHeld'
  <2>1. SUFFICES ASSUME slot'.reserved # Nobody
                 PROVE  InHand(pairing', slot'.reserved) \/ InQueue(queue', slot'.reserved)
    BY <1>G
  <2>2. slot'.reserved = slot.reserved /\ ~(Completes(event) /\ event.device = slot.reserved)
    BY <1>T, <2>1
  <2>3. CASE InHand(pairing, slot.reserved)
    BY <1>T, <2>2, <2>3
  <2>4. CASE InQueue(queue, slot.reserved)
    <3>1. PICK k \in DOMAIN queue :
             /\ Completes(queue[k]) /\ queue[k].device = slot.reserved
             /\ queue[k].profile = "Full"
      BY <2>4
    <3>2. k # 1
      BY <1>0, <2>2, <3>1, TurnFacts
    <3>3. PICK j \in DOMAIN Tail(queue) : Tail(queue)[j] = queue[k]
      BY <1>0, <3>2, TurnFacts
    <3>4. j \in DOMAIN queue' /\ queue'[j] = queue[k]
      BY <1>T, <3>3
    <3>5. QED  BY <2>2, <3>1, <3>4 DEF Completes
  <2>5. QED  BY <1>H, <2>1, <2>2, <2>3, <2>4
<1>A. ASSUME NEW event \in Events, queue' = Append(queue, event), NEW d, InQueue(queue, d)
      PROVE  InQueue(queue', d)
  <2>1. PICK k \in DOMAIN queue :
           Completes(queue[k]) /\ queue[k].device = d /\ queue[k].profile = "Full"
    BY <1>A
  <2>2. k \in DOMAIN queue' /\ queue'[k] = queue[k]
    BY <1>0, <1>A, AppendFacts
  <2>3. QED  BY <2>1, <2>2 DEF Completes
<1>R. ASSUME NEW d \in Devices
      PROVE  /\ Release(slot, d).reserved = (IF slot.reserved = d THEN Nobody ELSE slot.reserved)
             /\ Claim(slot, d).reserved = (IF slot.reserved = d THEN Nobody ELSE slot.reserved)
             /\ Reserve(slot, d).reserved = (IF GrantsFull(slot, d) THEN d ELSE slot.reserved)
             /\ RequestSwitch(slot, d).reserved = slot.reserved
  BY <1>0, SlotEffects
<1>1. ASSUME NEW d \in Devices, NEW reconnect \in BOOLEAN, PairingStarts(d, reconnect)
      PROVE  ReservationIsHeld'
  <2>1. UNCHANGED <<slot, queue>> /\ pairing = NoPairing
    BY <1>1 DEF PairingStarts, ConfigIsFree
  <2>2. QED  BY <1>H, <1>G, <2>1
<1>2. ASSUME NEW only \in BOOLEAN, PairingReserves(only)
      PROVE  ReservationIsHeld'
  <2>1. /\ pairing \in Pairings /\ pairing.device \in Devices /\ pairing.profile = "none"
        /\ slot' = Reserve(slot, pairing.device) /\ UNCHANGED queue
    BY <1>0, <1>2 DEF PairingReserves, Pairings
  <2>2. pairing' = [pairing EXCEPT !.only = only,
                       !.profile = IF GrantsFull(slot, pairing.device) THEN "Full" ELSE "ClipboardOnly"]
    BY <1>2 DEF PairingReserves
  <2>3. CASE GrantsFull(slot, pairing.device)
    <3>1. slot'.reserved = pairing.device
      BY <1>R, <2>1, <2>3
    <3>2. pairing'.device = pairing.device /\ pairing'.profile = "Full"
      BY <2>1, <2>2, <2>3 DEF Pairings
    <3>3. pairing' # NoPairing
      BY <2>1, <3>2, HostAssumption DEF NoPairing
    <3>4. QED  BY <1>G, <3>1, <3>2, <3>3
  <2>4. CASE ~GrantsFull(slot, pairing.device)
    <3>1. slot'.reserved = slot.reserved /\ ~InHand(pairing, slot.reserved)
      BY <1>R, <2>1, <2>4
    <3>2. QED  BY <1>H, <1>G, <2>1, <3>1
  <2>5. QED  BY <2>3, <2>4
<1>3. CASE PairingFails
  <2>1. pairing \in Pairings /\ pairing.device \in Devices /\ UNCHANGED queue
    BY <1>0, <1>3 DEF PairingFails, Pairings
  <2>2. CASE pairing.profile = "none"
    <3>1. UNCHANGED slot /\ ~InHand(pairing, slot.reserved)
      BY <1>3, <2>2 DEF PairingFails
    <3>2. QED  BY <1>H, <1>G, <2>1, <3>1
  <2>3. CASE pairing.profile # "none"
    <3>1. slot' = Release(slot, pairing.device)
      BY <1>3, <2>3 DEF PairingFails
    <3>2. slot'.reserved = (IF slot.reserved = pairing.device THEN Nobody ELSE slot.reserved)
      BY <1>R, <2>1, <3>1
    <3>3. QED  BY <1>H, <1>G, <2>1, <3>2
  <2>4. QED  BY <2>2, <2>3
<1>4. CASE PairingEnds
  <2> DEFINE complete == [kind |-> "Complete", device |-> pairing.device,
                          reconnect |-> pairing.reconnect, only |-> pairing.only,
                          profile |-> pairing.profile]
  <2>1. complete \in Events
    BY <1>0, <1>4 DEF PairingEnds, Pairings, Events
  <2>2. queue' = Append(queue, complete) /\ UNCHANGED slot
    BY <1>4 DEF PairingEnds
  <2>3. CASE InQueue(queue, slot.reserved)
    BY <1>A, <1>G, <2>1, <2>2, <2>3
  <2>4. CASE InHand(pairing, slot.reserved)
    <3>1. Completes(complete) /\ complete.device = slot.reserved /\ complete.profile = "Full"
      BY <2>4 DEF Completes
    <3> HIDE DEF complete
    <3>2. PICK k \in DOMAIN queue' : queue'[k] = complete
      BY <1>0, <2>1, <2>2, AppendFacts
    <3>3. QED  BY <1>G, <2>2, <3>1, <3>2 DEF Completes
  <2>5. QED  BY <1>H, <1>G, <2>2, <2>3, <2>4
<1>5. CASE TurnAway
  <2>1. PICK event \in Arrived :
           queue' = Tail(queue) /\ slot' = Release(slot, event.device) /\ UNCHANGED pairing
    BY <1>5 DEF TurnAway, TakesUp
  <2>2. event.device \in Devices
    BY <1>0, TurnFacts
  <2>3. QED  BY <1>R, <1>T, <2>1, <2>2
<1>6. CASE JoinSession
  <2>1. PICK event \in Arrived :
           queue' = Tail(queue) /\ slot' = Release(slot, event.device) /\ UNCHANGED pairing
    BY <1>6 DEF JoinSession, TakesUp
  <2>2. event.device \in Devices
    BY <1>0, TurnFacts
  <2>3. QED  BY <1>R, <1>T, <2>1, <2>2
<1>7. CASE StartSession
  <2>1. PICK event \in Arrived :
           queue' = Tail(queue) /\ slot' = Claim(slot, event.device) /\ UNCHANGED pairing
    BY <1>7 DEF StartSession, TakesUp
  <2>2. event.device \in Devices
    BY <1>0, TurnFacts
  <2>3. QED  BY <1>R, <1>T, <2>1, <2>2
<1>8. CASE CloseSession
  <2>1. PICK event \in Arrived :
           queue' = Tail(queue) /\ ~Completes(event) /\ UNCHANGED <<slot, pairing>>
    BY <1>8 DEF CloseSession
  <2>2. QED  BY <1>T, <2>1
<1>9. CASE SlotHearsEnd
  <2>1. slot'.reserved \in {Nobody, slot.reserved}
    BY <1>0, <1>9 DEF SlotHearsEnd, OnSessionEnd, Release, Slots
  <2>2. QED  BY <1>9, <1>U, <2>1 DEF SlotHearsEnd
<1>10. ASSUME NEW d \in Devices, Disconnect(d) \/ Revoke(d) \/ SwitchActive(d)
       PROVE  ReservationIsHeld'
  BY <1>10, <1>R, <1>U DEF Disconnect, Revoke, SwitchActive
<1>11. CASE TrustIsGone \/ StandInIsTold \/ UNCHANGED vars
  BY <1>11, <1>U DEF TrustIsGone, StandInIsTold, vars
<1>12. CASE ForgetPreferred \/ WaitExpires
  <2>1. slot'.reserved = slot.reserved
    BY <1>0, <1>12, WithdrawalKeeps DEF ForgetPreferred, WaitExpires
  <2>2. QED  BY <1>12, <1>U, <2>1 DEF ForgetPreferred, WaitExpires
<1>13. ASSUME NEW i \in Instances, SessionBreaks(i)
       PROVE  ReservationIsHeld'
  BY <1>13, <1>U DEF SessionBreaks
<1>14. ASSUME NEW i \in Instances, SessionEnds(i)
       PROVE  ReservationIsHeld'
  <2>1. tasks[i] \in Tasks
    BY <1>14 DEF SessionEnds, Running, HostTypes, TypeOK
  <2>2. PICK event \in Events : queue' = Append(queue, event)
    BY <1>14, <2>1 DEF SessionEnds, Tasks, Events
  <2>3. UNCHANGED <<slot, pairing>>
    BY <1>14 DEF SessionEnds
  <2>4. QED  BY <1>A, <1>H, <1>G, <2>2, <2>3
<1>15. QED
  BY <1>1, <1>2, <1>3, <1>4, <1>5, <1>6, <1>7, <1>8, <1>9, <1>10, <1>11, <1>12, <1>13, <1>14
  DEF Next

(* The holder of the slot has a session, or the loop is at its end.        *)
LEMMA StepHolder == HostTypes /\ NoGhostHolder /\ [Next]_vars => NoGhostHolder'
<1> SUFFICES ASSUME HostTypes, NoGhostHolder, [Next]_vars
             PROVE  NoGhostHolder'
    OBVIOUS
<1>0. /\ TypeOK /\ slot \in Slots(Devices) /\ slot.active \in Devices \cup {Nobody}
      /\ sessions \in [Devices -> 0 .. MaxInstances] /\ count.instances \in 0 .. MaxInstances
      /\ pairing \in Pairings \cup {NoPairing}
  BY DEF HostTypes, TypeOK, Slots
<1>N. ASSUME loop.step # "close", slot.active # Nobody
      PROVE  sessions[slot.active] # 0
  BY <1>N DEF NoGhostHolder, Waits
(* The holder and its session stay.                                        *)
<1>U. ASSUME slot'.active = slot.active, UNCHANGED sessions, loop' = loop \/ loop.step # "close"
      PROVE  NoGhostHolder'
  BY <1>U, <1>N DEF NoGhostHolder
<1>L. Ready.step # "close"
  BY DEF Ready
<1>R. ASSUME NEW d \in Devices
      PROVE  /\ Release(slot, d).active = slot.active /\ Reserve(slot, d).active = slot.active
             /\ Claim(slot, d).active = (IF slot.reserved = d THEN d ELSE slot.active)
             /\ RequestSwitch(slot, d).active = slot.active
  BY <1>0, SlotEffects
<1>1. ASSUME NEW d \in Devices, NEW reconnect \in BOOLEAN, PairingStarts(d, reconnect)
      PROVE  NoGhostHolder'
  BY <1>1, <1>U DEF PairingStarts
<1>2. ASSUME NEW only \in BOOLEAN, PairingReserves(only)
      PROVE  NoGhostHolder'
  <2>1. pairing.device \in Devices
    BY <1>0, <1>2 DEF PairingReserves, Pairings
  <2>2. QED  BY <1>2, <1>R, <1>U, <2>1 DEF PairingReserves
<1>3. CASE PairingFails
  <2>1. pairing.device \in Devices
    BY <1>0, <1>3 DEF PairingFails, Pairings
  <2>2. QED  BY <1>3, <1>R, <1>U, <2>1 DEF PairingFails
<1>4. CASE PairingEnds
  BY <1>4, <1>U DEF PairingEnds
<1>5. CASE TurnAway
  <2>1. PICK event \in Arrived :
           /\ slot' = Release(slot, event.device) /\ loop = Ready /\ UNCHANGED loop
           /\ \/ UNCHANGED sessions
              \/ ~HasRoom(event.device) /\ sessions' = [sessions EXCEPT ![event.device] = 0]
    BY <1>5 DEF TurnAway, TakesUp
  <2>2. event.device \in Devices
    BY <1>0, TurnFacts
  <2>3. UNCHANGED sessions
    BY <1>0, <2>1, <2>2, NoRoomIsAbsent
  <2>4. QED  BY <1>R, <1>U, <2>1, <2>2, <2>3
<1>6. CASE JoinSession
  <2>1. PICK event \in Arrived :
           slot' = Release(slot, event.device) /\ UNCHANGED <<loop, sessions>>
    BY <1>6 DEF JoinSession
  <2>2. event.device \in Devices
    BY <1>0, TurnFacts
  <2>3. QED  BY <1>R, <1>U, <2>1, <2>2
<1>7. CASE StartSession
  <2>1. PICK event \in Arrived :
           /\ slot' = Claim(slot, event.device) /\ loop = Ready
           /\ sessions' = [sessions EXCEPT ![event.device] = count.instances + 1]
    BY <1>7 DEF StartSession, TakesUp
  <2>2. event.device \in Devices /\ count.instances + 1 # 0
    BY <1>0, TurnFacts, HostAssumption
  <2>3. slot'.active \in {event.device, slot.active}
    BY <1>R, <2>1, <2>2
  <2>4. slot.active # Nobody => sessions[slot.active] # 0
    BY <1>L, <1>N, <2>1
  <2>5. slot'.active # Nobody => sessions'[slot'.active] # 0
    BY <1>0, <2>1, <2>2, <2>3, <2>4
  <2>6. QED  BY <2>5 DEF NoGhostHolder
<1>8. CASE CloseSession
  <2>1. PICK event \in Arrived :
           /\ loop = Ready /\ UNCHANGED slot
           /\ \/ UNCHANGED <<sessions, loop>>
              \/ /\ sessions' = [sessions EXCEPT ![event.device] = 0]
                 /\ loop' = Waits("close", event.device)
    BY <1>8 DEF CloseSession
  <2>2. event.device \in Devices
    BY <1>0, TurnFacts
  <2>3. slot.active # Nobody => sessions[slot.active] # 0
    BY <1>L, <1>N, <2>1
  <2>4. QED  BY <1>0, <1>U, <2>1, <2>2, <2>3 DEF NoGhostHolder
<1>9. CASE SlotHearsEnd
  <2>1. UNCHANGED sessions /\ slot' = OnSessionEnd(slot, loop.device, Candidate)
    BY <1>9 DEF SlotHearsEnd
  <2>2. slot'.active = (IF slot.active = loop.device THEN Nobody ELSE slot.active)
    BY <1>0, <2>1 DEF OnSessionEnd, Release, Slots
  <2>3. slot.active # loop.device => loop # Waits("close", slot.active)
    BY DEF Waits
  <2>4. QED  BY <2>1, <2>2, <2>3 DEF NoGhostHolder
<1>10. ASSUME NEW d \in Devices, Disconnect(d) \/ Revoke(d) \/ SwitchActive(d)
       PROVE  NoGhostHolder'
  <2>1. loop = Ready /\ UNCHANGED sessions /\ slot' \in {slot, RequestSwitch(slot, d)}
    BY <1>10 DEF Disconnect, Revoke, SwitchActive, Commanded
  <2>2. QED  BY <1>L, <1>R, <1>U, <2>1
<1>11. CASE TrustIsGone \/ StandInIsTold
  <2>1. loop.step # "close" /\ UNCHANGED <<slot, sessions>>
    BY <1>11 DEF TrustIsGone, StandInIsTold
  <2>2. QED  BY <1>U, <2>1
<1>12. CASE ForgetPreferred \/ WaitExpires
  <2>1. slot'.active = slot.active
    BY <1>0, <1>12, WithdrawalKeeps DEF ForgetPreferred, WaitExpires
  <2>2. loop = Ready /\ UNCHANGED sessions
    BY <1>12 DEF ForgetPreferred, WaitExpires, Commanded
  <2>3. QED  BY <1>L, <1>U, <2>1, <2>2
<1>13. ASSUME NEW i \in Instances, SessionBreaks(i) \/ SessionEnds(i)
       PROVE  NoGhostHolder'
  BY <1>13, <1>U DEF SessionBreaks, SessionEnds
<1>14. CASE UNCHANGED vars
  BY <1>14, <1>U DEF vars
<1>15. QED
  BY <1>1, <1>2, <1>3, <1>4, <1>5, <1>6, <1>7, <1>8, <1>9, <1>10, <1>11, <1>12, <1>13, <1>14
  DEF Next

(* What runs was started, and what has reported its end runs no more.      *)
LEMMA StepFinished == HostTypes /\ FinishedIsOver /\ [Next]_vars => FinishedIsOver'
<1> SUFFICES ASSUME HostTypes, FinishedIsOver, [Next]_vars
             PROVE  FinishedIsOver'
    OBVIOUS
<1>0. /\ TypeOK /\ slot \in Slots(Devices) /\ count.instances \in 0 .. MaxInstances
      /\ loop.device \in Devices \cup {Nobody} /\ queue \in Seq(Events)
      /\ tasks \in [Instances -> Tasks \cup {NoTask}]
      /\ count \in [instances : 0 .. MaxInstances, pairings : Nat, commands : Nat]
  BY DEF HostTypes, TypeOK
<1>I. \A k \in DOMAIN queue : ~Completes(queue[k]) =>
          /\ queue[k].instance \in Instances
          /\ queue[k].instance <= count.instances /\ tasks[queue[k].instance] = NoTask
  <2>1. ASSUME NEW k \in DOMAIN queue
        PROVE  queue[k] \in Events
    BY <1>0, <2>1, ElementOfSeq, LenProperties
  <2>2. QED  BY <2>1 DEF FinishedIsOver, Events, Completes
<1>J. \A i \in Instances : tasks[i] # NoTask => i <= count.instances
  BY DEF FinishedIsOver, Running
(* Nothing new runs and nothing new is reported.                           *)
<1>U. ASSUME \A i \in Instances : tasks'[i] = NoTask <=> tasks[i] = NoTask,
             count'.instances = count.instances,
             \A k \in DOMAIN queue' :
                 Completes(queue'[k]) \/ \E j \in DOMAIN queue : queue'[k] = queue[j]
      PROVE  FinishedIsOver'
  <2>1. \A i \in Instances : tasks'[i] # NoTask => i <= count'.instances
    BY <1>J, <1>U
  <2>2. ASSUME NEW k \in DOMAIN queue', ~Completes(queue'[k])
        PROVE  queue'[k].instance <= count'.instances /\ tasks'[queue'[k].instance] = NoTask
    <3>1. PICK j \in DOMAIN queue : queue'[k] = queue[j]
      BY <1>U, <2>2
    <3>2. ~Completes(queue[j])
      BY <2>2, <3>1 DEF Completes
    <3>3. QED  BY <1>I, <1>U, <3>1, <3>2
  <2>3. QED  BY <2>1, <2>2 DEF FinishedIsOver, Running, Completes
<1>T. ASSUME NEW event \in Arrived, queue' = Tail(queue)
      PROVE  \A k \in DOMAIN queue' : \E j \in DOMAIN queue : queue'[k] = queue[j]
  BY <1>0, <1>T, TurnFacts
<1>Q. ASSUME UNCHANGED queue
      PROVE  \A k \in DOMAIN queue' : \E j \in DOMAIN queue : queue'[k] = queue[j]
  BY <1>Q
<1>V. ASSUME NEW d \in Devices \cup {Nobody}, tasks' = Told(tasks, d)
      PROVE  \A i \in Instances : tasks'[i] = NoTask <=> tasks[i] = NoTask
  BY <1>0, <1>V, ToldType
<1>W. ASSUME NEW i \in Instances, tasks[i] \in Tasks, NEW t \in Tasks,
             tasks' = [tasks EXCEPT ![i] = t]
      PROVE  \A j \in Instances : tasks'[j] = NoTask <=> tasks[j] = NoTask
  <2>1. \A u \in Tasks : u # NoTask
    <3>1. \A u \in Tasks : u.device \in Devices
      BY DEF Tasks
    <3>2. NoTask.device \notin Devices
      BY HostAssumption DEF NoTask
    <3>3. QED  BY <3>1, <3>2
  <2>2. QED  BY <1>0, <1>W, <2>1
<1>C. /\ [count EXCEPT !.commands = @ + 1].instances = count.instances
      /\ [count EXCEPT !.pairings = @ + 1].instances = count.instances
  BY <1>0
<1>1. ASSUME NEW d \in Devices, NEW reconnect \in BOOLEAN, PairingStarts(d, reconnect)
      PROVE  FinishedIsOver'
  BY <1>1, <1>C, <1>Q, <1>U DEF PairingStarts
<1>2. ASSUME NEW only \in BOOLEAN, PairingReserves(only)
      PROVE  FinishedIsOver'
  BY <1>2, <1>Q, <1>U DEF PairingReserves
<1>3. CASE PairingFails
  BY <1>3, <1>Q, <1>U DEF PairingFails
<1>4. CASE PairingEnds
  <2> DEFINE complete == [kind |-> "Complete", device |-> pairing.device,
                          reconnect |-> pairing.reconnect, only |-> pairing.only,
                          profile |-> pairing.profile]
  <2>1. complete \in Events /\ Completes(complete)
    BY <1>4 DEF PairingEnds, Pairings, Events, HostTypes, TypeOK, Completes
  <2>2. queue' = Append(queue, complete) /\ UNCHANGED <<tasks, count>>
    BY <1>4 DEF PairingEnds
  <2> HIDE DEF complete
  <2>3. \A k \in DOMAIN queue' :
            Completes(queue'[k]) \/ \E j \in DOMAIN queue : queue'[k] = queue[j]
    BY <1>0, <2>1, <2>2, AppendFacts
  <2>4. QED  BY <1>U, <2>2, <2>3
<1>5. CASE TurnAway
  <2>1. PICK event \in Arrived : queue' = Tail(queue) /\ UNCHANGED <<tasks, count>>
    BY <1>5 DEF TurnAway, TakesUp
  <2>2. QED  BY <1>T, <1>U, <2>1
<1>6. CASE JoinSession
  <2>1. PICK event \in Arrived :
           /\ queue' = Tail(queue) /\ UNCHANGED count /\ Online(event.device)
           /\ tasks' = [tasks EXCEPT ![sessions[event.device]].second = TRUE]
    BY <1>6 DEF JoinSession, TakesUp
  <2> DEFINE i == sessions[event.device]
  <2>2. i \in Instances /\ tasks[i] \in Tasks
    BY <1>0, <2>1 DEF Online, Alive, Running
  <2>3. [tasks[i] EXCEPT !.second = TRUE] \in Tasks
    BY <2>2 DEF Tasks
  <2>4. tasks' = [tasks EXCEPT ![i] = [tasks[i] EXCEPT !.second = TRUE]]
    BY <2>1
  <2> HIDE DEF i
  <2>5. QED  BY <1>T, <1>U, <1>W, <2>1, <2>2, <2>3, <2>4
<1>7. CASE StartSession
  <2> DEFINE n == count.instances + 1
  <2>1. PICK event \in Arrived :
           /\ queue' = Tail(queue) /\ n <= MaxInstances
           /\ \E t : tasks' = [Told(tasks, Demoted(slot, event.device)) EXCEPT ![n] = t]
           /\ count' = [count EXCEPT !.instances = n]
    BY <1>7 DEF StartSession, TakesUp
  <2>2. event.device \in Devices
    BY <1>0, TurnFacts
  <2>3. count'.instances = n /\ n \in Nat /\ n > count.instances
    BY <1>0, <2>1
  <2> DEFINE told == Told(tasks, Demoted(slot, event.device))
  <2>4. /\ told \in [Instances -> Tasks \cup {NoTask}]
        /\ \A i \in Instances : told[i] = NoTask <=> tasks[i] = NoTask
    BY <1>0, <2>2, SlotTypes, ToldType
  <2>5. PICK t : tasks' = [told EXCEPT ![n] = t]
    BY <2>1
  <2> HIDE DEF told, n
  <2>6. \A i \in Instances : i # n => (tasks'[i] = NoTask <=> tasks[i] = NoTask)
    BY <2>4, <2>5
  <2>7. \A i \in Instances : tasks'[i] # NoTask => i <= count'.instances
    <3>1. \A i \in Instances : i \in Nat
      BY DEF Instances
    <3>2. QED  BY <1>0, <1>J, <2>3, <2>6, <3>1
  <2>8. ASSUME NEW k \in DOMAIN queue', ~Completes(queue'[k])
        PROVE  queue'[k].instance <= count'.instances /\ tasks'[queue'[k].instance] = NoTask
    <3>1. PICK j \in DOMAIN queue : queue'[k] = queue[j]
      BY <1>T, <2>1, <2>8
    <3>2. /\ queue[j].instance \in Instances /\ queue[j].instance <= count.instances
          /\ tasks[queue[j].instance] = NoTask
      BY <1>I, <2>8, <3>1 DEF Completes
    <3>3. queue[j].instance \in Nat
      BY <3>2 DEF Instances
    <3>4. queue[j].instance # n /\ queue[j].instance <= count'.instances
      BY <1>0, <2>3, <3>2, <3>3
    <3>5. QED  BY <2>6, <3>1, <3>2, <3>4
  <2>9. QED  BY <2>7, <2>8 DEF FinishedIsOver, Running, Completes
<1>8. CASE CloseSession
  <2>1. PICK event \in Arrived : queue' = Tail(queue) /\ UNCHANGED <<tasks, count>>
    BY <1>8 DEF CloseSession
  <2>2. QED  BY <1>T, <1>U, <2>1
<1>9. CASE SlotHearsEnd
  <2>1. Candidate \in Devices \cup {Nobody}
    BY <1>0, CandidateType
  <2>2. Promotes(slot, loop.device, Candidate) \in Devices \cup {Nobody}
    BY <2>1 DEF Promotes
  <2>3. QED  BY <1>9, <1>Q, <1>U, <1>V, <2>2 DEF SlotHearsEnd
<1>10. ASSUME NEW d \in Devices, Disconnect(d) \/ Revoke(d)
       PROVE  FinishedIsOver'
  <2>1. \A i \in Instances : tasks'[i] = NoTask <=> tasks[i] = NoTask
    BY <1>0, <1>10, ShutType DEF Disconnect, Revoke
  <2>2. QED  BY <1>10, <1>C, <1>Q, <1>U, <2>1 DEF Disconnect, Revoke, Commanded
<1>11. ASSUME NEW d \in Devices, SwitchActive(d)
       PROVE  FinishedIsOver'
  BY <1>11, <1>C, <1>Q, <1>U, <1>V DEF SwitchActive, Commanded
<1>12. CASE TrustIsGone \/ ForgetPreferred \/ WaitExpires
  BY <1>12, <1>C, <1>Q, <1>U DEF TrustIsGone, ForgetPreferred, WaitExpires, Commanded
<1>13. CASE StandInIsTold
  <2>1. Candidate \in Devices \cup {Nobody}
    BY <1>0, CandidateType
  <2>2. QED  BY <1>13, <1>Q, <1>U, <1>V, <2>1 DEF StandInIsTold
<1>14. ASSUME NEW i \in Instances, SessionBreaks(i)
       PROVE  FinishedIsOver'
  <2>1. tasks[i] \in Tasks
    BY <1>0, <1>14 DEF SessionBreaks, Running
  <2>2. [tasks[i] EXCEPT !.open = FALSE] \in Tasks
    BY <2>1 DEF Tasks
  <2>3. tasks' = [tasks EXCEPT ![i] = [tasks[i] EXCEPT !.open = FALSE]]
    BY <1>14 DEF SessionBreaks
  <2>4. QED  BY <1>14, <1>Q, <1>U, <1>W, <2>1, <2>2, <2>3 DEF SessionBreaks
<1>15. ASSUME NEW i \in Instances, SessionEnds(i)
       PROVE  FinishedIsOver'
  <2> DEFINE finished == [kind |-> "Finished", device |-> tasks[i].device, instance |-> i]
  <2>1. tasks[i] \in Tasks /\ tasks[i] # NoTask
    BY <1>0, <1>15 DEF SessionEnds, Running
  <2>2. finished \in Events /\ finished.instance = i
    BY <2>1 DEF Tasks, Events
  <2>3. queue' = Append(queue, finished) /\ tasks' = [tasks EXCEPT ![i] = NoTask] /\ UNCHANGED count
    BY <1>15 DEF SessionEnds
  <2> HIDE DEF finished
  <2>4. tasks'[i] = NoTask /\ \A j \in Instances : tasks[j] = NoTask => tasks'[j] = NoTask
    BY <1>0, <2>3
  <2>5. \A j \in Instances : tasks'[j] # NoTask => j <= count'.instances
    BY <1>J, <2>3, <2>4
  <2>6. ASSUME NEW k \in DOMAIN queue', ~Completes(queue'[k])
        PROVE  queue'[k].instance <= count'.instances /\ tasks'[queue'[k].instance] = NoTask
    <3>1. CASE queue'[k] = finished
      BY <1>J, <2>1, <2>2, <2>3, <2>4, <3>1
    <3>2. CASE k \in DOMAIN queue /\ queue'[k] = queue[k]
      BY <1>I, <2>3, <2>4, <2>6, <3>2 DEF Completes
    <3>3. QED  BY <1>0, <2>2, <2>3, <3>1, <3>2, AppendFacts
  <2>7. QED  BY <2>5, <2>6 DEF FinishedIsOver, Running, Completes
<1>16. CASE UNCHANGED vars
  BY <1>16, <1>Q, <1>U DEF vars
<1>17. QED
  BY <1>1, <1>2, <1>3, <1>4, <1>5, <1>6, <1>7, <1>8, <1>9, <1>10, <1>11, <1>12, <1>13, <1>14,
     <1>15, <1>16 DEF Next

--------------------------------------------------------------------------------
LEMMA HostInvHolds == Spec => []HostInv
<1>1. Init => HostInv
  <2>1. Init => ReservationIsHeld /\ NoGhostHolder /\ FinishedIsOver
    BY DEF Init, WithPreferred, ReservationIsHeld, NoGhostHolder, FinishedIsOver, Running
  <2>2. QED  BY <2>1, InitTypes DEF HostInv
<1>2. HostInv /\ [Next]_vars => HostInv'
  BY StepTypes, StepReservation, StepHolder, StepFinished DEF HostInv
<1>3. QED  BY <1>1, <1>2, PTL DEF Spec

(* Every variable keeps its type, and the table of sessions never exceeds  *)
(* MAX_HOST_SESSIONS, however many pairings were admitted while there was  *)
(* room (host/mod.rs checks the limit again when a session starts).        *)
THEOREM HostTypeCorrect == Spec => []TypeOK
<1>1. HostInv => TypeOK
  BY DEF HostInv, HostTypes
<1>2. QED  BY <1>1, HostInvHolds, PTL

(* No promise of the slot leaks: whatever happens to a pairing, its        *)
(* reservation is dropped, claimed, or replaced by a later one             *)
(* (host/active_slot.rs: SlotReservation and its drop).                    *)
THEOREM ReservationsHeld == Spec => []ReservationIsHeld
<1>1. HostInv => ReservationIsHeld
  BY DEF HostInv
<1>2. QED  BY <1>1, HostInvHolds, PTL

(* The slot is not left with a device that has no session: the table       *)
(* forgets the holder's session only in turns that tell the slot.          *)
THEOREM HolderHasSession == Spec => []NoGhostHolder
<1>1. HostInv => NoGhostHolder
  BY DEF HostInv
<1>2. QED  BY <1>1, HostInvHolds, PTL

(* The late report of an older session never takes the session that        *)
(* replaced it out of the table (host/mod.rs compares the instance).       *)
THEOREM LiveStays == Spec => LiveSessionStays
<1> DEFINE Stays == \A d \in Devices : Online(d) => sessions'[d] = sessions[d]
<1>1. ASSUME HostInv, [Next]_vars
      PROVE  [Stays]_vars
  <2>1. /\ TypeOK /\ sessions \in [Devices -> 0 .. MaxInstances] /\ queue \in Seq(Events)
    BY <1>1 DEF HostInv, HostTypes, TypeOK
  <2>2. SUFFICES ASSUME NEW d \in Devices, Online(d), Next
                 PROVE  sessions'[d] = sessions[d]
    BY <1>1
  <2>3. sessions[d] \in Instances /\ tasks[sessions[d]] # NoTask
    BY <2>2 DEF Online, Alive, Running
  <2>4. CASE TurnAway
    <3>1. PICK event \in Arrived :
             \/ UNCHANGED sessions
             \/ ~Online(event.device) /\ sessions' = [sessions EXCEPT ![event.device] = 0]
      BY <2>4 DEF TurnAway
    <3>2. event.device # d \/ UNCHANGED sessions
      BY <2>2, <3>1
    <3>3. QED  BY <2>1, <3>1, <3>2
  <2>5. CASE StartSession
    <3>1. PICK event \in Arrived :
             ~Online(event.device) /\ sessions' = [sessions EXCEPT ![event.device] = count.instances + 1]
      BY <2>5 DEF StartSession
    <3>2. event.device # d
      BY <2>2, <3>1
    <3>3. QED  BY <2>1, <3>1, <3>2
  <2>6. CASE CloseSession
    <3>1. PICK event \in Arrived :
             /\ ~Completes(event)
             /\ sessions' = IF IsCurrent(event) THEN [sessions EXCEPT ![event.device] = 0] ELSE sessions
      BY <2>6 DEF CloseSession
    <3>2. tasks[event.instance] = NoTask
      <4>1. 1 \in DOMAIN queue /\ queue[1] = event
        BY <2>1, TurnFacts
      <4>2. QED  BY <1>1, <3>1, <4>1 DEF HostInv, FinishedIsOver
    <3>3. ~(event.device = d /\ IsCurrent(event))
      BY <2>3, <3>2 DEF IsCurrent
    <3>4. QED  BY <2>1, <3>1, <3>3
  <2>7. CASE ~TurnAway /\ ~StartSession /\ ~CloseSession
    <3>1. UNCHANGED sessions
      BY <2>2, <2>7 DEF Next, PairingStarts, PairingReserves, PairingFails, PairingEnds, JoinSession,
          SlotHearsEnd, Disconnect, Revoke, SwitchActive, TrustIsGone, ForgetPreferred, WaitExpires,
          StandInIsTold, SessionBreaks, SessionEnds
    <3>2. QED  BY <3>1
  <2>8. QED  BY <2>4, <2>5, <2>6, <2>7
<1>2. QED  BY <1>1, HostInvHolds, PTL DEF Spec, LiveSessionStays


--------------------------------------------------------------------------------
(* The client of the phone.                                                *)

Sides == {"phone", "desk"}
PhoneModes == {Both, {}}
PhonePaths == {"auto", "lan"}
PhoneLinks == {"lan", "bluetooth"}
SomeDesk == Desks \cup {NoDesk}

Texts == [links : SUBSET PhoneLinks, path : PhonePaths]
Tellings == [gen : Nat, text : Texts]

Caps == [host : BOOLEAN, localGeneration : Nat, remoteGeneration : Nat, local : PhoneModes,
         remote : PhoneModes, ackGeneration : Nat, ackLocal : PhoneModes]
SideRecords == [cap : Caps, path : PhonePaths, primary : PhoneLinks, second : BOOLEAN,
                said : Tellings, heard : Tellings]

ModeFrames == [kind : {"update", "ack"}, gen : Nat, text : PhoneModes]
LinkFrames == [kind : {"links"}, gen : Nat, text : Texts]
PhoneFrames == ModeFrames \cup LinkFrames

PhoneOrders ==
    [kind : {"mode"}, what : PhoneModes, on : Nat] \cup [kind : {"path"}, what : PhonePaths, on : Nat]
    \cup [kind : {"trust"}, what : SUBSET Desks, on : Nat]
    \cup [kind : {"answer"}, what : {"no", "yes", "remember"}, on : Nat]

PhoneRecords ==
    [at : {"idle", "bootstrap", "prompt", "asked", "session", "over"},
     how : {"none", "pin", "asked", "trusted"}, peer : SomeDesk, offer : PhoneModes,
     theirs : PhoneModes, late : BOOLEAN, set : Settings, trusted : SUBSET Desks, wanted : SomeDesk,
     id : SomeDesk, addresses : SUBSET Lan, radio : {t.radio : t \in Targets}]

PhoneTypes ==
    /\ phone \in PhoneRecords /\ wishes \in Settings /\ orders \in Seq(PhoneOrders)
    /\ desks \in [Desks -> Settings]
    /\ where \in [DOMAIN where -> SomeDesk] /\ Lan \subseteq DOMAIN where
    /\ phone.radio \in DOMAIN where \cup {NoDesk}
    /\ phone.at \in {"prompt", "asked", "session"} => phone.peer \in Desks
    /\ spare \in [{"wish", "desk", "link", "place", "session"} -> Nat]

EndTypes ==
    /\ wire \in [Sides -> Seq(PhoneFrames)]
    /\ InSession => ends \in [Sides -> SideRecords]
    /\ ~InSession => wire = NoFrames

\* Of the frames to the other end those of a kind.
Of(kind, frames) == {i \in DOMAIN frames : frames[i].kind = kind}

\* What the one end says of its mode, s, and what the other knows, r; to and back are the
\* frames to it and from it.
ModeWay(s, r, to, back) ==
    /\ r.remoteGeneration <= s.localGeneration
    /\ r.remoteGeneration = s.localGeneration => r.remote = s.local
    /\ \A i \in Of("update", to) :
          /\ r.remoteGeneration <= to[i].gen /\ to[i].gen <= s.localGeneration
          /\ to[i].gen = s.localGeneration => to[i].text = s.local
          /\ to[i].gen = r.remoteGeneration => to[i].text = r.remote
    /\ \A i, j \in Of("update", to) : i < j => to[i].gen < to[j].gen
    /\ r.remoteGeneration < s.localGeneration =>
          \E i \in Of("update", to) : to[i].gen = s.localGeneration
    /\ \A i \in Of("ack", back) : back[i].gen <= s.localGeneration
    /\ \/ s.ackGeneration = s.localGeneration \/ r.remoteGeneration < s.localGeneration
       \/ \E i \in Of("ack", back) : back[i].gen = s.localGeneration

\* The same of the links and the policy.
LinkWay(s, r, to) ==
    /\ s.primary = r.primary
    /\ r.heard.gen <= s.said.gen
    /\ r.heard.gen = s.said.gen => r.heard.text = s.said.text
    /\ \A i \in Of("links", to) :
          /\ r.heard.gen < to[i].gen /\ to[i].gen <= s.said.gen
          /\ s.primary \in to[i].text.links
          /\ to[i].gen = s.said.gen => to[i].text = s.said.text
    /\ \A i, j \in Of("links", to) : i < j => to[i].gen < to[j].gen
    /\ r.heard.gen < s.said.gen => \E i \in Of("links", to) : to[i].gen = s.said.gen

ToldOf(end) == end.said.text = [links |-> Available(end), path |-> end.path]

SidesAgree(both, frames) ==
    \A e \in Sides : /\ ModeWay(both[e].cap, both[Far(e)].cap, frames[Far(e)], frames[e])
                     /\ LinkWay(both[e], both[Far(e)], frames[Far(e)])

\* A session whose first mode is refused does nothing but end.
Stuck ==
    /\ wire["desk"] # <<>> /\ Head(wire["desk"]).kind = "update"
    /\ Head(wire["desk"]).gen = 0 /\ ends["desk"].cap.remoteGeneration = 0
    /\ Head(wire["desk"]).text # ends["desk"].cap.remote

InSessionInv ==
    InSession =>
        /\ IF phone.late THEN Stuck ELSE SidesAgree(ends, wire) /\ \A e \in Sides : ToldOf(ends[e])
        /\ ends["phone"].cap.local = phone.set.mode /\ ends["phone"].path = phone.set.path

\* The last order of a kind carries what was wished; with none it is set.
Carried(kind) ==
    \/ (\A i \in DOMAIN orders : orders[i].kind # kind) /\ phone.set[kind] = wishes[kind]
    \/ \E i \in DOMAIN orders :
          /\ orders[i].kind = kind /\ orders[i].what = wishes[kind]
          /\ \A j \in DOMAIN orders : i < j => orders[j].kind # kind
OrdersCarry == Carried("mode") /\ Carried("path")

PeerIsRight ==
    /\ RightPeer
    /\ phone.wanted \in {NoDesk, phone.id}
    /\ phone.at = "asked" => phone.id \in {NoDesk, phone.peer}

ClientInv == PhoneTypes /\ EndTypes /\ InSessionInv /\ OrdersCarry /\ PeerIsRight
(* A frame more, and a frame less.                                         *)
LEMMA FrameSent ==
    ASSUME NEW q \in Seq(PhoneFrames), NEW f \in PhoneFrames
    PROVE  /\ q \o <<f>> \in Seq(PhoneFrames) /\ q \o << >> = q
           /\ Len(q) \in Nat /\ Len(q) + 1 \in DOMAIN (q \o <<f>>) /\ (q \o <<f>>)[Len(q) + 1] = f
           /\ \A i \in DOMAIN (q \o <<f>>) : i # Len(q) + 1 => i \in DOMAIN q /\ i < Len(q) + 1
           /\ \A i \in DOMAIN q : i \in Nat /\ i < Len(q) + 1
                                  /\ i \in DOMAIN (q \o <<f>>) /\ (q \o <<f>>)[i] = q[i]
<1>1. <<f>> \in Seq(PhoneFrames) /\ Len(<<f>>) = 1 /\ <<f>>[1] = f
  OBVIOUS
<1>2. /\ q \o <<f>> \in Seq(PhoneFrames) /\ Len(q \o <<f>>) = Len(q) + 1
      /\ \A i \in 1 .. Len(q) + 1 : (q \o <<f>>)[i] = IF i <= Len(q) THEN q[i] ELSE <<f>>[i - Len(q)]
  BY <1>1, ConcatProperties
<1>3. /\ Len(q) \in Nat /\ DOMAIN q = 1 .. Len(q)
      /\ DOMAIN (q \o <<f>>) = 1 .. Len(q) + 1
  BY <1>2, LenProperties
<1>4. (q \o <<f>>)[Len(q) + 1] = f
  BY <1>1, <1>2, <1>3
<1>5. q \o << >> = q
  BY ConcatEmptySeq
<1>6. QED  BY <1>2, <1>3, <1>4, <1>5

LEMMA FrameTaken ==
    ASSUME NEW q \in Seq(PhoneFrames), q # << >>
    PROVE  /\ Head(q) \in PhoneFrames /\ Tail(q) \in Seq(PhoneFrames)
           /\ Head(q) = q[1] /\ 1 \in DOMAIN q
           /\ \A i \in DOMAIN Tail(q) : /\ i \in Nat /\ i >= 1
                                        /\ i + 1 \in DOMAIN q /\ Tail(q)[i] = q[i + 1]
           /\ \A i \in DOMAIN q : /\ i \in Nat /\ i >= 1
                                  /\ i # 1 => i - 1 \in DOMAIN Tail(q) /\ Tail(q)[i - 1] = q[i]
<1>1. /\ Head(q) \in PhoneFrames /\ Tail(q) \in Seq(PhoneFrames) /\ Len(Tail(q)) = Len(q) - 1
      /\ \A i \in 1 .. Len(Tail(q)) : Tail(q)[i] = q[i + 1]
  BY HeadTailProperties
<1>2. Len(q) \in Nat /\ DOMAIN q = 1 .. Len(q) /\ Len(q) # 0
  BY LenProperties, EmptySeq
<1>3. DOMAIN Tail(q) = 1 .. Len(q) - 1
  BY <1>1, <1>2, LenProperties
<1>4. Head(q) = q[1]
  OBVIOUS
<1>5. QED  BY <1>1, <1>2, <1>3, <1>4

LEMMA FrameTypes ==
    ASSUME NEW f \in PhoneFrames
    PROVE  /\ f.gen \in Nat /\ f.kind \in {"update", "ack", "links"}
           /\ f.kind = "links" => f.text \in Texts
           /\ f.kind # "links" => f.text \in PhoneModes
BY DEF PhoneFrames, ModeFrames, LinkFrames

--------------------------------------------------------------------------------
(* What ends say of their modes.                                           *)

LEMMA ModeWaySame ==
    ASSUME NEW s, NEW r, NEW s2, NEW r2, NEW to, NEW back, ModeWay(s, r, to, back),
           s2.localGeneration = s.localGeneration, s2.local = s.local,
           s2.ackGeneration = s.ackGeneration,
           r2.remoteGeneration = r.remoteGeneration, r2.remote = r.remote
    PROVE  ModeWay(s2, r2, to, back)
BY DEF ModeWay

LEMMA ModeSaid ==
    ASSUME NEW s \in Caps, NEW r \in Caps, NEW s2 \in Caps, NEW to \in Seq(PhoneFrames),
           NEW back \in Seq(PhoneFrames), ModeWay(s, r, to, back),
           s2.localGeneration = s.localGeneration + 1
    PROVE  ModeWay(s2, r, to \o <<Update(s2)>>, back)
<1> DEFINE f == Update(s2)
           new == to \o <<f>>
<1>1. /\ f \in PhoneFrames /\ f.kind = "update" /\ f.gen = s2.localGeneration
      /\ f.text = s2.local
  BY DEF Update, Frame, PhoneFrames, ModeFrames, Caps
<1>2. /\ s.localGeneration \in Nat /\ r.remoteGeneration \in Nat
      /\ \A i \in DOMAIN to : to[i].gen \in Nat
      /\ \A i \in DOMAIN back : back[i].gen \in Nat
  BY FrameTypes DEF Caps
<1> HIDE DEF f
<1>3. /\ Len(to) + 1 \in Of("update", new) /\ new[Len(to) + 1] = f
      /\ \A i \in Of("update", new) : i # Len(to) + 1 => i \in Of("update", to) /\ i < Len(to) + 1 /\ new[i] = to[i]
  BY <1>1, FrameSent DEF Of
<1> HIDE DEF new
<1>4. \A i \in Of("update", new) :
          /\ r.remoteGeneration <= new[i].gen /\ new[i].gen <= s2.localGeneration
          /\ new[i].gen = s2.localGeneration => new[i].text = s2.local
          /\ new[i].gen = r.remoteGeneration => new[i].text = r.remote
  <2> SUFFICES ASSUME NEW i \in Of("update", new)
               PROVE  /\ r.remoteGeneration <= new[i].gen /\ new[i].gen <= s2.localGeneration
                      /\ new[i].gen = s2.localGeneration => new[i].text = s2.local
                      /\ new[i].gen = r.remoteGeneration => new[i].text = r.remote
    OBVIOUS
  <2>1. CASE i = Len(to) + 1
    BY <1>1, <1>2, <1>3, <2>1 DEF ModeWay
  <2>2. CASE i # Len(to) + 1
    <3>1. i \in Of("update", to) /\ i \in DOMAIN to /\ new[i] = to[i]
      BY <1>3, <2>2 DEF Of
    <3>2. QED  BY <1>2, <3>1 DEF ModeWay
  <2>3. QED  BY <2>1, <2>2
<1>5. \A i, j \in Of("update", new) : i < j => new[i].gen < new[j].gen
  <2> SUFFICES ASSUME NEW i \in Of("update", new), NEW j \in Of("update", new), i < j
               PROVE  new[i].gen < new[j].gen
    OBVIOUS
  <2>0. \A k \in Of("update", to) : k \in DOMAIN to /\ k \in Nat
    BY FrameSent, <1>1 DEF Of
  <2>1. i # Len(to) + 1 /\ i \in Of("update", to) /\ new[i] = to[i]
    <3>1. j = Len(to) + 1 \/ j < Len(to) + 1
      BY <1>3
    <3>2. Len(to) + 1 \in Nat /\ j \in Nat
      BY <1>1, <1>3, <2>0, FrameSent
    <3>3. i # Len(to) + 1
      BY <3>1, <3>2
    <3>4. QED  BY <1>3, <3>3
  <2>2. CASE j = Len(to) + 1
    BY <1>1, <1>2, <1>3, <2>0, <2>1, <2>2 DEF ModeWay
  <2>3. CASE j # Len(to) + 1
    BY <1>3, <2>1, <2>3 DEF ModeWay
  <2>4. QED  BY <2>2, <2>3
<1>6. \A i \in Of("ack", back) : back[i].gen <= s2.localGeneration
  BY <1>2 DEF ModeWay, Of
<1>7. r.remoteGeneration < s2.localGeneration
  BY <1>2 DEF ModeWay
<1>8. QED  BY <1>1, <1>2, <1>3, <1>4, <1>5, <1>6, <1>7 DEF ModeWay, new, f

\* Any other frame, forth or back, an acknowledgement only of what was said.
LEMMA ModeForth ==
    ASSUME NEW s \in Caps, NEW r \in Caps, NEW to \in Seq(PhoneFrames),
           NEW back \in Seq(PhoneFrames), ModeWay(s, r, to, back),
           NEW f \in PhoneFrames, f.kind # "update"
    PROVE  ModeWay(s, r, to \o <<f>>, back)
<1> DEFINE new == to \o <<f>>
<1>1. Of("update", new) = Of("update", to) /\ \A i \in Of("update", to) : new[i] = to[i]
  BY FrameSent DEF Of
<1> HIDE DEF new
<1>2. QED  BY <1>1 DEF ModeWay, new

LEMMA ModeBack ==
    ASSUME NEW s \in Caps, NEW r \in Caps, NEW to \in Seq(PhoneFrames),
           NEW back \in Seq(PhoneFrames), ModeWay(s, r, to, back),
           NEW f \in PhoneFrames, f.kind = "ack" => f.gen <= s.localGeneration
    PROVE  ModeWay(s, r, to, back \o <<f>>)
<1> DEFINE new == back \o <<f>>
<1>1. /\ \A i \in Of("ack", back) : i \in Of("ack", new) /\ new[i] = back[i]
      /\ \A i \in Of("ack", new) : \/ i \in Of("ack", back)
                                   \/ new[i] = f /\ f.kind = "ack"
  BY FrameSent DEF Of
<1> HIDE DEF new
<1>2. QED  BY <1>1 DEF ModeWay, new

\* An update is heard, and it is confirmed at least if it was new.
LEMMA ModeHeard ==
    ASSUME NEW s \in Caps, NEW r \in Caps, NEW to \in Seq(PhoneFrames),
           NEW back \in Seq(PhoneFrames), ModeWay(s, r, to, back),
           to # << >>, Head(to).kind = "update",
           NEW r2, r2 = ApplyRemote(r, Head(to).gen, Head(to).text),
           NEW says, (says = << >> /\ r2 = r) \/ says = <<Frame("ack", Head(to).gen, {})>>
    PROVE  ModeWay(s, r2, Tail(to), back \o says) /\ r2 \in Caps /\ says \in Seq(PhoneFrames)
<1> DEFINE f == Head(to)
           g == f.gen
           new == Tail(to)
           answer == back \o says
<1>1. /\ f \in PhoneFrames /\ f.kind = "update" /\ g \in Nat /\ f.text \in PhoneModes
      /\ f = to[1] /\ 1 \in Of("update", to)
  BY FrameTaken, FrameTypes DEF Of
<1>2. /\ s.localGeneration \in Nat /\ r.remoteGeneration \in Nat
      /\ \A i \in DOMAIN to : to[i].gen \in Nat
  BY FrameTypes DEF Caps
<1>3. /\ r.remoteGeneration <= g /\ g <= s.localGeneration
      /\ g = s.localGeneration => f.text = s.local
      /\ g = r.remoteGeneration => f.text = r.remote
  BY <1>1 DEF ModeWay
<1>4. /\ r2 \in Caps /\ r2.remoteGeneration = g /\ r2.remote = f.text
      /\ r2 # r => g # r.remoteGeneration
      /\ r2 = r => g = r.remoteGeneration
  <2>1. CASE g = r.remoteGeneration
    BY <1>3, <2>1 DEF ApplyRemote
  <2>2. CASE g # r.remoteGeneration
    <3>1. r2 = [r EXCEPT !.remoteGeneration = g, !.remote = f.text]
      BY <2>2 DEF ApplyRemote
    <3>2. QED  BY <1>1, <2>2, <3>1 DEF Caps
  <2>3. QED  BY <2>1, <2>2
<1>5. /\ Frame("ack", g, {}) \in PhoneFrames /\ Frame("ack", g, {}).gen = g
      /\ Frame("ack", g, {}).kind = "ack"
  BY <1>1 DEF Frame, PhoneFrames, ModeFrames, PhoneModes
<1>6. /\ says \in Seq(PhoneFrames)
      /\ \A i \in Of("ack", back) : i \in Of("ack", answer) /\ answer[i] = back[i]
      /\ \A i \in Of("ack", answer) : (i \in Of("ack", back) /\ answer[i] = back[i]) \/ answer[i].gen = g
      /\ says # << >> => \E i \in Of("ack", answer) : answer[i].gen = g
  <2>1. CASE says = << >>
    BY <2>1, FrameSent, ConcatEmptySeq DEF Of
  <2>2. CASE says # << >>
    <3>0. PICK ack \in PhoneFrames : ack.kind = "ack" /\ ack.gen = g /\ says = <<ack>>
      BY <1>5, <2>2
    <3>1. DEFINE n == Len(back) + 1
    <3>2. /\ n \in Of("ack", back \o <<ack>>) /\ (back \o <<ack>>)[n] = ack
          /\ \A i \in Of("ack", back \o <<ack>>) : i # n => i \in Of("ack", back)
          /\ \A i \in Of("ack", back) : i \in Of("ack", back \o <<ack>>)
                                        /\ (back \o <<ack>>)[i] = back[i]
      BY <3>0, FrameSent DEF Of
    <3>3. <<ack>> \in Seq(PhoneFrames)
      OBVIOUS
    <3>4. QED  BY <3>0, <3>2, <3>3
  <2>3. QED  BY <2>1, <2>2
<1>7. /\ \A i \in Of("update", new) : /\ i \in Nat /\ 1 < i + 1 /\ i + 1 \in Of("update", to)
                                      /\ new[i] = to[i + 1]
      /\ \A i \in Of("update", to) : i # 1 => i - 1 \in Of("update", new) /\ new[i - 1] = to[i]
  BY FrameTaken DEF Of
<1> HIDE DEF f, g, new, answer
<1>8. \A i \in Of("update", new) :
          /\ g < new[i].gen /\ new[i].gen <= s.localGeneration
          /\ new[i].gen = s.localGeneration => new[i].text = s.local
  <2> SUFFICES ASSUME NEW i \in Of("update", new)
               PROVE  /\ g < new[i].gen /\ new[i].gen <= s.localGeneration
                      /\ new[i].gen = s.localGeneration => new[i].text = s.local
    OBVIOUS
  <2>1. i + 1 \in Of("update", to) /\ 1 < i + 1 /\ new[i] = to[i + 1]
    BY <1>7
  <2>2. to[1].gen < to[i + 1].gen
    BY <1>1, <2>1 DEF ModeWay
  <2>3. QED  BY <1>1, <2>1, <2>2 DEF ModeWay, g
<1>9. \A i, j \in Of("update", new) : i < j => new[i].gen < new[j].gen
  <2> SUFFICES ASSUME NEW i \in Of("update", new), NEW j \in Of("update", new), i < j
               PROVE  new[i].gen < new[j].gen
    OBVIOUS
  <2>1. i + 1 < j + 1
    BY <1>7
  <2>2. QED  BY <1>7, <2>1 DEF ModeWay
<1>10. \A i \in Of("ack", answer) : answer[i].gen <= s.localGeneration
  BY <1>3, <1>6 DEF ModeWay
<1>11. g < s.localGeneration => \E i \in Of("update", new) : new[i].gen = s.localGeneration
  <2> SUFFICES ASSUME g < s.localGeneration
               PROVE  \E i \in Of("update", new) : new[i].gen = s.localGeneration
    OBVIOUS
  <2>1. r.remoteGeneration < s.localGeneration
    BY <1>1, <1>2, <1>3
  <2>2. PICK i \in Of("update", to) : to[i].gen = s.localGeneration
    BY <2>1 DEF ModeWay
  <2>3. i # 1
    BY <1>1, <1>2, <2>2 DEF g
  <2>4. QED  BY <1>7, <2>2, <2>3
<1>12. \/ s.ackGeneration = s.localGeneration \/ g < s.localGeneration
       \/ \E i \in Of("ack", answer) : answer[i].gen = s.localGeneration
  <2>1. CASE g < s.localGeneration
    BY <2>1
  <2>2. CASE g = s.localGeneration /\ says # << >>
    BY <1>6, <2>2
  <2>3. CASE g = s.localGeneration /\ says = << >>
    <3>1. r2 = r
      BY <2>3
    <3>2. r.remoteGeneration = g
      BY <1>4, <3>1
    <3>3. QED  BY <1>2, <1>6, <2>3, <3>2 DEF ModeWay
  <2>4. QED  BY <1>1, <1>2, <1>3, <2>1, <2>2, <2>3
<1>13. /\ r2.remoteGeneration <= s.localGeneration
       /\ r2.remoteGeneration = s.localGeneration => r2.remote = s.local
       /\ r2.remoteGeneration < s.localGeneration <=> g < s.localGeneration
  BY <1>3, <1>4
<1>14. \A i \in Of("update", new) :
          /\ r2.remoteGeneration <= new[i].gen /\ new[i].gen <= s.localGeneration
          /\ new[i].gen = s.localGeneration => new[i].text = s.local
          /\ new[i].gen = r2.remoteGeneration => new[i].text = r2.remote
  <2>1. \A i \in Of("update", new) : new[i].gen \in Nat
    BY <1>2, <1>7 DEF Of
  <2>2. QED  BY <1>1, <1>4, <1>8, <2>1
<1>15. ModeWay(s, r2, new, answer)
  BY <1>9, <1>10, <1>11, <1>12, <1>13, <1>14 DEF ModeWay
<1>16. QED  BY <1>4, <1>6, <1>15 DEF new, answer

\* Another frame is heard, forth or back.
LEMMA ModePasses ==
    ASSUME NEW s \in Caps, NEW r \in Caps, NEW to \in Seq(PhoneFrames),
           NEW back \in Seq(PhoneFrames), ModeWay(s, r, to, back)
    PROVE  /\ to # << >> /\ Head(to).kind # "update" => ModeWay(s, r, Tail(to), back)
           /\ back # << >> /\ Head(back).kind # "ack" => ModeWay(s, r, to, Tail(back))
<1>1. ASSUME to # << >>, Head(to).kind # "update"
      PROVE  ModeWay(s, r, Tail(to), back)
  <2> DEFINE new == Tail(to)
  <2>1. /\ \A i \in Of("update", new) : i \in Nat /\ i + 1 \in Of("update", to) /\ new[i] = to[i + 1]
        /\ \A i \in Of("update", to) : i - 1 \in Of("update", new) /\ new[i - 1] = to[i]
    BY <1>1, FrameTaken DEF Of
  <2> HIDE DEF new
  <2>2. \A i, j \in Of("update", new) : i < j => new[i].gen < new[j].gen
    <3> SUFFICES ASSUME NEW i \in Of("update", new), NEW j \in Of("update", new), i < j
                 PROVE  new[i].gen < new[j].gen
      OBVIOUS
    <3>1. i + 1 < j + 1
      BY <2>1
    <3>2. QED  BY <2>1, <3>1 DEF ModeWay
  <2>3. \A i \in Of("update", new) :
          /\ r.remoteGeneration <= new[i].gen /\ new[i].gen <= s.localGeneration
          /\ new[i].gen = s.localGeneration => new[i].text = s.local
          /\ new[i].gen = r.remoteGeneration => new[i].text = r.remote
    BY <2>1 DEF ModeWay
  <2>4. r.remoteGeneration < s.localGeneration =>
          \E i \in Of("update", new) : new[i].gen = s.localGeneration
    BY <2>1 DEF ModeWay
  <2>5. QED  BY <2>2, <2>3, <2>4 DEF ModeWay, new
<1>2. ASSUME back # << >>, Head(back).kind # "ack"
      PROVE  ModeWay(s, r, to, Tail(back))
  <2> DEFINE new == Tail(back)
  <2>1. /\ \A i \in Of("ack", new) : i + 1 \in Of("ack", back) /\ new[i] = back[i + 1]
        /\ \A i \in Of("ack", back) : i - 1 \in Of("ack", new) /\ new[i - 1] = back[i]
    BY <1>2, FrameTaken DEF Of
  <2> HIDE DEF new
  <2>2. \A i \in Of("ack", new) : new[i].gen <= s.localGeneration
    BY <2>1 DEF ModeWay
  <2>3. \/ s.ackGeneration = s.localGeneration \/ r.remoteGeneration < s.localGeneration
        \/ \E i \in Of("ack", new) : new[i].gen = s.localGeneration
    <3>1. ASSUME NEW i \in Of("ack", back), back[i].gen = s.localGeneration
          PROVE  \E j \in Of("ack", new) : new[j].gen = s.localGeneration
      BY <2>1, <3>1
    <3>2. QED  BY <3>1 DEF ModeWay
  <2>4. QED  BY <2>2, <2>3 DEF ModeWay, new
<1>3. QED  BY <1>1, <1>2

\* An acknowledgement is heard.
LEMMA ModeAcked ==
    ASSUME NEW s \in Caps, NEW r \in Caps, NEW to \in Seq(PhoneFrames),
           NEW back \in Seq(PhoneFrames), ModeWay(s, r, to, back),
           back # << >>, Head(back).kind = "ack",
           NEW s2, s2 = ApplyAck(s, Head(back).gen)
    PROVE  /\ ModeWay(s2, r, to, Tail(back)) /\ s2 \in Caps
           /\ s2.local = s.local /\ s2.remote = s.remote
           /\ s2.remoteGeneration = s.remoteGeneration
<1> DEFINE g == Head(back).gen
           new == Tail(back)
<1>1. /\ g \in Nat /\ g = back[1].gen
      /\ \A i \in Of("ack", new) : i + 1 \in Of("ack", back) /\ new[i] = back[i + 1]
      /\ \A i \in Of("ack", back) : i # 1 => i - 1 \in Of("ack", new) /\ new[i - 1] = back[i]
  BY FrameTaken, FrameTypes DEF Of
<1> HIDE DEF new
<1>2. CASE g = s.localGeneration
  <2>1. s2 = [s EXCEPT !.ackGeneration = g, !.ackLocal = s.local]
    BY <1>2 DEF ApplyAck
  <2> HIDE DEF g
  <2>2. /\ s2 \in Caps /\ s2.localGeneration = s.localGeneration /\ s2.local = s.local
        /\ s2.ackGeneration = g
        /\ s2.remote = s.remote /\ s2.remoteGeneration = s.remoteGeneration
    BY <1>1, <2>1 DEF Caps
  <2>3. QED  BY <1>1, <1>2, <2>2 DEF ModeWay, new
<1>3. CASE g # s.localGeneration
  <2>1. s2 = s
    BY <1>3 DEF ApplyAck
  <2>2. \A i \in Of("ack", back) : back[i].gen = s.localGeneration => i # 1
    BY <1>1, <1>3
  <2>3. \A i \in Of("ack", new) : new[i].gen <= s.localGeneration
    BY <1>1 DEF ModeWay
  <2>4. \/ s.ackGeneration = s.localGeneration \/ r.remoteGeneration < s.localGeneration
        \/ \E i \in Of("ack", new) : new[i].gen = s.localGeneration
    BY <1>1, <2>2 DEF ModeWay
  <2>5. ModeWay(s, r, to, new)
    BY <2>3, <2>4 DEF ModeWay
  <2>6. QED  BY <2>1, <2>5 DEF new
<1>4. QED  BY <1>2, <1>3

--------------------------------------------------------------------------------
(* What they say of links and policies.                                    *)

LEMMA LinkWaySame ==
    ASSUME NEW s, NEW r, NEW s2, NEW r2, NEW to, LinkWay(s, r, to),
           s2.primary = s.primary, s2.said = s.said,
           r2.primary = r.primary, r2.heard = r.heard
    PROVE  LinkWay(s2, r2, to)
BY DEF LinkWay

LEMMA LinkSaid ==
    ASSUME NEW s \in SideRecords, NEW r \in SideRecords, NEW to \in Seq(PhoneFrames),
           LinkWay(s, r, to), NEW text \in Texts, s.primary \in text.links,
           NEW s2 \in SideRecords, s2.primary = s.primary,
           s2.said = [gen |-> s.said.gen + 1, text |-> text]
    PROVE  LinkWay(s2, r, to \o <<Frame("links", s2.said.gen, s2.said.text)>>)
<1> DEFINE f == Frame("links", s2.said.gen, s2.said.text)
           new == to \o <<f>>
           n == Len(to) + 1
<1>1. /\ s.said.gen \in Nat /\ r.heard.gen \in Nat
      /\ \A i \in DOMAIN to : to[i].gen \in Nat
  BY FrameTypes DEF SideRecords, Tellings
<1>2. /\ f \in PhoneFrames /\ f.kind = "links" /\ f.gen = s.said.gen + 1 /\ f.text = text
      /\ s2.said.gen = s.said.gen + 1 /\ s2.said.text = text
  BY <1>1 DEF Frame, PhoneFrames, LinkFrames
<1> HIDE DEF f
<1>3. /\ n \in Of("links", new) /\ new[n] = f /\ n \in Nat
      /\ \A i \in Of("links", new) :
            i # n => i \in Of("links", to) /\ i \in DOMAIN to /\ i \in Nat /\ i < n /\ new[i] = to[i]
  BY <1>2, FrameSent DEF Of
<1> HIDE DEF new, n
<1>4. \A i \in Of("links", new) :
          /\ r.heard.gen < new[i].gen /\ new[i].gen <= s2.said.gen
          /\ s2.primary \in new[i].text.links
          /\ new[i].gen = s2.said.gen => new[i].text = s2.said.text
  <2> SUFFICES ASSUME NEW i \in Of("links", new)
               PROVE  /\ r.heard.gen < new[i].gen /\ new[i].gen <= s2.said.gen
                      /\ s2.primary \in new[i].text.links
                      /\ new[i].gen = s2.said.gen => new[i].text = s2.said.text
    OBVIOUS
  <2>1. CASE i = n
    BY <1>1, <1>2, <1>3, <2>1 DEF LinkWay
  <2>2. CASE i # n
    <3>1. i \in Of("links", to) /\ i \in DOMAIN to /\ new[i] = to[i]
      BY <1>3, <2>2
    <3>2. QED  BY <1>1, <1>2, <3>1 DEF LinkWay
  <2>3. QED  BY <2>1, <2>2
<1>5. \A i, j \in Of("links", new) : i < j => new[i].gen < new[j].gen
  <2> SUFFICES ASSUME NEW i \in Of("links", new), NEW j \in Of("links", new), i < j
               PROVE  new[i].gen < new[j].gen
    OBVIOUS
  <2>0. j = n \/ (j \in Nat /\ j < n)
    BY <1>3
  <2>1. i # n /\ i \in Of("links", to) /\ i \in DOMAIN to /\ new[i] = to[i]
    <3>1. i # n
      BY <1>3, <2>0
    <3>2. QED  BY <1>3, <3>1
  <2>2. CASE j = n
    BY <1>1, <1>2, <1>3, <2>1, <2>2 DEF LinkWay
  <2>3. CASE j # n
    BY <1>3, <2>1, <2>3 DEF LinkWay
  <2>4. QED  BY <2>2, <2>3
<1>6. r.heard.gen < s2.said.gen
  <2>1. r.heard.gen <= s.said.gen
    BY DEF LinkWay
  <2>2. QED  BY <1>1, <1>2, <2>1
<1>7. \E i \in Of("links", new) : new[i].gen = s2.said.gen
  BY <1>2, <1>3
<1>8. r.heard.gen <= s2.said.gen /\ r.heard.gen # s2.said.gen
  BY <1>1, <1>2, <1>6
<1>9. s2.primary = r.primary
  BY DEF LinkWay
<1>10. LinkWay(s2, r, new)
  BY <1>4, <1>5, <1>7, <1>8, <1>9 DEF LinkWay
<1>11. QED  BY <1>10 DEF new, f

\* Another frame is sent, or heard.
LEMMA LinkPasses ==
    ASSUME NEW s \in SideRecords, NEW r \in SideRecords, NEW to \in Seq(PhoneFrames),
           LinkWay(s, r, to)
    PROVE  /\ \A f \in PhoneFrames : f.kind # "links" => LinkWay(s, r, to \o <<f>>)
           /\ to # << >> /\ Head(to).kind # "links" => LinkWay(s, r, Tail(to))
<1>1. ASSUME NEW f \in PhoneFrames, f.kind # "links"
      PROVE  LinkWay(s, r, to \o <<f>>)
  <2> DEFINE new == to \o <<f>>
  <2>1. Of("links", new) = Of("links", to) /\ \A i \in Of("links", to) : new[i] = to[i]
    BY <1>1, FrameSent DEF Of
  <2> HIDE DEF new
  <2>2. QED  BY <2>1 DEF LinkWay, new
<1>2. ASSUME to # << >>, Head(to).kind # "links"
      PROVE  LinkWay(s, r, Tail(to))
  <2> DEFINE new == Tail(to)
  <2>1. /\ \A i \in Of("links", new) : i \in Nat /\ i + 1 \in Of("links", to) /\ new[i] = to[i + 1]
        /\ \A i \in Of("links", to) : i - 1 \in Of("links", new) /\ new[i - 1] = to[i]
    BY <1>2, FrameTaken DEF Of
  <2> HIDE DEF new
  <2>2. \A i, j \in Of("links", new) : i < j => new[i].gen < new[j].gen
    <3> SUFFICES ASSUME NEW i \in Of("links", new), NEW j \in Of("links", new), i < j
                 PROVE  new[i].gen < new[j].gen
      OBVIOUS
    <3>1. i + 1 < j + 1
      BY <2>1
    <3>2. QED  BY <2>1, <3>1 DEF LinkWay
  <2>3. \A i \in Of("links", new) :
          /\ r.heard.gen < new[i].gen /\ new[i].gen <= s.said.gen
          /\ s.primary \in new[i].text.links
          /\ new[i].gen = s.said.gen => new[i].text = s.said.text
    BY <2>1 DEF LinkWay
  <2>4. r.heard.gen < s.said.gen => \E i \in Of("links", new) : new[i].gen = s.said.gen
    BY <2>1 DEF LinkWay
  <2>5. QED  BY <2>2, <2>3, <2>4 DEF LinkWay, new
<1>3. QED  BY <1>1, <1>2

LEMMA LinkHeard ==
    ASSUME NEW s \in SideRecords, NEW r \in SideRecords, NEW to \in Seq(PhoneFrames),
           LinkWay(s, r, to), to # << >>, Head(to).kind = "links",
           NEW r2, r2.primary = r.primary,
           r2.heard = [gen |-> Head(to).gen, text |-> Head(to).text]
    PROVE  LinkWay(s, r2, Tail(to))
<1> DEFINE f == Head(to)
           new == Tail(to)
<1>1. /\ f \in PhoneFrames /\ f.kind = "links" /\ f.gen \in Nat /\ f = to[1] /\ 1 \in Of("links", to)
  BY FrameTaken, FrameTypes DEF Of
<1>2. /\ s.said.gen \in Nat /\ r.heard.gen \in Nat
      /\ r2.heard.gen = f.gen /\ r2.heard.text = f.text
      /\ \A i \in DOMAIN to : to[i].gen \in Nat
  BY FrameTypes DEF SideRecords, Tellings
<1>3. /\ r.heard.gen < f.gen /\ f.gen <= s.said.gen
      /\ f.gen = s.said.gen => f.text = s.said.text
  BY <1>1 DEF LinkWay
<1>4. /\ \A i \in Of("links", new) : /\ i \in Nat /\ 1 < i + 1 /\ i + 1 \in Of("links", to)
                                     /\ i + 1 \in DOMAIN to /\ new[i] = to[i + 1]
      /\ \A i \in Of("links", to) : i # 1 => i - 1 \in Of("links", new) /\ new[i - 1] = to[i]
  BY FrameTaken DEF Of
<1> HIDE DEF f, new
<1>5. \A i \in Of("links", new) :
          /\ r2.heard.gen < new[i].gen /\ new[i].gen <= s.said.gen
          /\ s.primary \in new[i].text.links
          /\ new[i].gen = s.said.gen => new[i].text = s.said.text
  <2> SUFFICES ASSUME NEW i \in Of("links", new)
               PROVE  /\ r2.heard.gen < new[i].gen /\ new[i].gen <= s.said.gen
                      /\ s.primary \in new[i].text.links
                      /\ new[i].gen = s.said.gen => new[i].text = s.said.text
    OBVIOUS
  <2>1. i + 1 \in Of("links", to) /\ 1 < i + 1 /\ new[i] = to[i + 1]
    BY <1>4
  <2>2. to[1].gen < to[i + 1].gen
    BY <1>1, <2>1 DEF LinkWay
  <2>3. QED  BY <1>1, <1>2, <2>1, <2>2 DEF LinkWay
<1>6. \A i, j \in Of("links", new) : i < j => new[i].gen < new[j].gen
  <2> SUFFICES ASSUME NEW i \in Of("links", new), NEW j \in Of("links", new), i < j
               PROVE  new[i].gen < new[j].gen
    OBVIOUS
  <2>1. i + 1 < j + 1
    BY <1>4
  <2>2. QED  BY <1>4, <2>1 DEF LinkWay
<1>7. f.gen < s.said.gen => \E i \in Of("links", new) : new[i].gen = s.said.gen
  <2> SUFFICES ASSUME f.gen < s.said.gen
               PROVE  \E i \in Of("links", new) : new[i].gen = s.said.gen
    OBVIOUS
  <2>1. r.heard.gen < s.said.gen
    BY <1>1, <1>2, <1>3
  <2>2. PICK i \in Of("links", to) : to[i].gen = s.said.gen
    BY <2>1 DEF LinkWay
  <2>3. i # 1
    BY <1>1, <1>2, <2>2
  <2>4. QED  BY <1>4, <2>2, <2>3
<1>8. s.primary = r2.primary
  BY DEF LinkWay
<1>9. QED  BY <1>2, <1>3, <1>5, <1>6, <1>7, <1>8 DEF LinkWay, new

--------------------------------------------------------------------------------
(* Both ends: s and r, with the frames from s to r and those back.         *)

PairAgrees(s, r, to, back) ==
    /\ ModeWay(s.cap, r.cap, to, back) /\ LinkWay(s, r, to)
    /\ ModeWay(r.cap, s.cap, back, to) /\ LinkWay(r, s, back)

LEMMA FarFacts ==
    /\ Sides = {"phone", "desk"} /\ Far("phone") = "desk" /\ Far("desk") = "phone"
    /\ \A e \in Sides : Far(e) \in Sides /\ Far(e) # e /\ Far(Far(e)) = e
                        /\ \A x \in Sides : x = e \/ x = Far(e)
BY DEF Sides, Far

LEMMA PairFacts ==
    ASSUME NEW both, NEW frames, NEW e \in Sides
    PROVE  SidesAgree(both, frames)
               <=> PairAgrees(both[e], both[Far(e)], frames[Far(e)], frames[e])
<1>1. Far(e) \in Sides /\ Far(Far(e)) = e /\ \A x \in Sides : x = e \/ x = Far(e)
  BY FarFacts
<1>2. QED  BY <1>1 DEF SidesAgree, PairAgrees

\* What leaves the modes, the sayings and the first link alone leaves all as it was.
LEMMA PairSame ==
    ASSUME NEW s, NEW r, NEW to, NEW back, PairAgrees(s, r, to, back),
           NEW s2, s2.cap = s.cap, s2.primary = s.primary, s2.said = s.said, s2.heard = s.heard
    PROVE  PairAgrees(s2, r, to, back)
<1>1. ModeWay(s2.cap, r.cap, to, back) /\ ModeWay(r.cap, s2.cap, back, to)
  BY DEF PairAgrees
<1>2. LinkWay(s2, r, to) /\ LinkWay(r, s2, back)
  BY LinkWaySame DEF PairAgrees
<1>3. QED  BY <1>1, <1>2 DEF PairAgrees

LEMMA AnnouncedFacts ==
    ASSUME NEW s \in SideRecords
    PROVE  LET new == Announced(s)
               text == [links |-> Available(s), path |-> s.path] IN
           /\ new \in SideRecords /\ ToldOf(new)
           /\ new.cap = s.cap /\ new.path = s.path /\ new.primary = s.primary /\ new.heard = s.heard
           /\ text \in Texts /\ s.primary \in text.links
           /\ \/ new = s
              \/ new.said = [gen |-> s.said.gen + 1, text |-> text] /\ new.said # s.said
<1> DEFINE text == [links |-> Available(s), path |-> s.path]
           said == [gen |-> s.said.gen + 1, text |-> text]
           told == [s EXCEPT !.said = said]
<1>1. text \in Texts /\ s.primary \in text.links /\ s.said.gen \in Nat /\ s.said \in Tellings
  BY DEF Texts, Available, SideRecords, Tellings, PhoneLinks
<1>2. said \in Tellings /\ said.text = text /\ said # s.said
  BY <1>1 DEF Tellings
<1> HIDE DEF said
<1>3. /\ told \in SideRecords /\ told.said = said
      /\ told.cap = s.cap /\ told.path = s.path /\ told.primary = s.primary
      /\ told.heard = s.heard /\ told.second = s.second
  BY <1>2 DEF SideRecords
<1> HIDE DEF told
<1>4. Announced(s) = IF s.said.text = text THEN s ELSE told
  <2>1. [s EXCEPT !.said = [gen |-> s.said.gen + 1, text |-> text]] = [s EXCEPT !.said = [gen |-> @.gen + 1, text |-> text]]
    BY DEF SideRecords
  <2>2. QED  BY <2>1 DEF Announced, told, said
<1>5. ToldOf(told)
  BY <1>2, <1>3 DEF ToldOf, Available
<1>6. CASE s.said.text = text
  BY <1>1, <1>4, <1>6 DEF ToldOf
<1>7. CASE s.said.text # text
  BY <1>1, <1>2, <1>3, <1>4, <1>5, <1>7 DEF said
<1>8. QED  BY <1>6, <1>7

\* An end goes through its loop: what it told before and tells now agrees with the other.
Tells(end) ==
    LET new == Announced(end) IN
    IF new.said = end.said THEN << >> ELSE <<Frame("links", new.said.gen, new.said.text)>>

LEMMA TellsFacts ==
    ASSUME NEW s \in SideRecords
    PROVE  Tells(s) \in Seq(PhoneFrames)
<1>1. Announced(s).said \in Tellings
  BY AnnouncedFacts DEF SideRecords
<1>2. Frame("links", Announced(s).said.gen, Announced(s).said.text) \in PhoneFrames
  BY <1>1 DEF Tellings, Frame, PhoneFrames, LinkFrames
<1>3. QED  BY <1>2 DEF Tells

LEMMA PairAnnounced ==
    ASSUME NEW s \in SideRecords, NEW r \in SideRecords, NEW to \in Seq(PhoneFrames),
           NEW back \in Seq(PhoneFrames), PairAgrees(s, r, to, back)
    PROVE  PairAgrees(Announced(s), r, to \o Tells(s), back)
<1> DEFINE new == Announced(s)
           text == [links |-> Available(s), path |-> s.path]
<1>1. /\ new \in SideRecords /\ new.cap = s.cap /\ new.primary = s.primary /\ new.heard = s.heard
      /\ text \in Texts /\ s.primary \in text.links
      /\ new = s \/ (new.said = [gen |-> s.said.gen + 1, text |-> text] /\ new.said # s.said)
  BY AnnouncedFacts
<1>2. s.cap \in Caps /\ r.cap \in Caps
  BY DEF SideRecords
<1>3. CASE new = s
  BY <1>3, FrameSent, ConcatEmptySeq DEF Tells
<1>4. CASE new # s
  <2> DEFINE f == Frame("links", new.said.gen, new.said.text)
  <2>1. Tells(s) = <<f>>
    BY <1>1, <1>4 DEF Tells
  <2>2. f \in PhoneFrames /\ f.kind = "links"
    <3>1. new.said \in Tellings
      BY <1>1 DEF SideRecords
    <3>2. QED  BY <3>1 DEF Tellings, Frame, PhoneFrames, LinkFrames
  <2>3. LinkWay(new, r, to \o <<f>>)
    BY <1>1, <1>4, LinkSaid DEF PairAgrees
  <2> HIDE DEF f, new
  <2>4. LinkWay(r, new, back)
    BY <1>1, LinkWaySame DEF PairAgrees
  <2>5. ModeWay(new.cap, r.cap, to \o <<f>>, back) /\ ModeWay(r.cap, new.cap, back, to \o <<f>>)
    BY <1>1, <1>2, <2>2, ModeForth, ModeBack DEF PairAgrees
  <2>6. QED  BY <2>1, <2>3, <2>4, <2>5 DEF PairAgrees, new
<1>5. QED  BY <1>3, <1>4

LEMMA TurnTypes ==
    ASSUME NEW e \in Sides, NEW end \in SideRecords, NEW sends \in Seq(PhoneFrames),
           NEW frames \in [Sides -> Seq(PhoneFrames)], ends \in [Sides -> SideRecords],
           Turn(e, end, sends, frames)
    PROVE  /\ ends' \in [Sides -> SideRecords] /\ wire' \in [Sides -> Seq(PhoneFrames)]
           /\ ends'[e] = Announced(end) /\ ends'[Far(e)] = ends[Far(e)]
           /\ wire'[Far(e)] = (frames[Far(e)] \o sends) \o Tells(end) /\ wire'[e] = frames[e]
<1>1. Announced(end) \in SideRecords /\ Tells(end) \in Seq(PhoneFrames)
  BY AnnouncedFacts, TellsFacts
<1>2. Far(e) \in Sides /\ Far(e) # e /\ frames[Far(e)] \in Seq(PhoneFrames)
  BY FarFacts
<1>3. (frames[Far(e)] \o sends) \o Tells(end) \in Seq(PhoneFrames)
  BY <1>1, <1>2, ConcatProperties
<1>4. /\ ends' = [ends EXCEPT ![e] = Announced(end)]
      /\ wire' = [frames EXCEPT ![Far(e)] = (frames[Far(e)] \o sends) \o Tells(end)]
  BY DEF Turn, Tells
<1>5. QED  BY <1>1, <1>2, <1>3, <1>4

LEMMA TurnAgrees ==
    ASSUME NEW e \in Sides, NEW end \in SideRecords, NEW sends \in Seq(PhoneFrames),
           NEW frames \in [Sides -> Seq(PhoneFrames)], ends \in [Sides -> SideRecords],
           Turn(e, end, sends, frames),
           PairAgrees(end, ends[Far(e)], frames[Far(e)] \o sends, frames[e]), ToldOf(ends[Far(e)])
    PROVE  /\ SidesAgree(ends', wire') /\ \A x \in Sides : ToldOf(ends'[x])
           /\ ends'[e].cap = end.cap /\ ends'[e].path = end.path
<1>1. /\ ends'[e] = Announced(end) /\ ends'[Far(e)] = ends[Far(e)]
      /\ wire'[Far(e)] = (frames[Far(e)] \o sends) \o Tells(end) /\ wire'[e] = frames[e]
  BY TurnTypes
<1>2. /\ frames[Far(e)] \o sends \in Seq(PhoneFrames) /\ frames[e] \in Seq(PhoneFrames)
      /\ ends[Far(e)] \in SideRecords
  BY FarFacts, ConcatProperties
<1>3. PairAgrees(Announced(end), ends[Far(e)], (frames[Far(e)] \o sends) \o Tells(end), frames[e])
  BY <1>2, PairAnnounced
<1>4. SidesAgree(ends', wire')
  BY <1>1, <1>3, PairFacts
<1>5. /\ ToldOf(ends'[e]) /\ ToldOf(ends'[Far(e)])
      /\ ends'[e].cap = end.cap /\ ends'[e].path = end.path
  <2>1. ToldOf(Announced(end)) /\ Announced(end).cap = end.cap /\ Announced(end).path = end.path
    BY AnnouncedFacts
  <2>2. QED  BY <1>1, <2>1
<1>6. \A x \in Sides : ToldOf(ends'[x])
  BY <1>5, FarFacts
<1>7. QED  BY <1>4, <1>5, <1>6

--------------------------------------------------------------------------------
(* What the end s may do.                                                  *)

LEMMA PairSaid ==
    ASSUME NEW s \in SideRecords, NEW r \in SideRecords, NEW to \in Seq(PhoneFrames),
           NEW back \in Seq(PhoneFrames), PairAgrees(s, r, to, back),
           NEW cap \in Caps, cap.localGeneration = s.cap.localGeneration + 1,
           cap.remoteGeneration = s.cap.remoteGeneration, cap.remote = s.cap.remote
    PROVE  /\ PairAgrees([s EXCEPT !.cap = cap], r, to \o <<Update(cap)>>, back)
           /\ [s EXCEPT !.cap = cap] \in SideRecords /\ <<Update(cap)>> \in Seq(PhoneFrames)
<1> DEFINE s2 == [s EXCEPT !.cap = cap]
           f == Update(cap)
<1>1. /\ s2 \in SideRecords /\ s2.cap = cap /\ s2.primary = s.primary /\ s2.said = s.said
      /\ s2.heard = s.heard /\ s.cap \in Caps /\ r.cap \in Caps
  BY DEF SideRecords
<1>2. f \in PhoneFrames /\ f.kind = "update"
  BY DEF Update, Frame, PhoneFrames, ModeFrames, Caps
<1> HIDE DEF s2
<1>3. ModeWay(cap, r.cap, to \o <<f>>, back)
  BY <1>1, ModeSaid DEF PairAgrees
<1> HIDE DEF f
<1>4. ModeWay(r.cap, s.cap, back, to \o <<f>>)
  BY <1>1, <1>2, ModeBack DEF PairAgrees
<1>5. ModeWay(r.cap, cap, back, to \o <<f>>)
  BY <1>4, ModeWaySame
<1>6. LinkWay(s, r, to \o <<f>>)
  BY <1>2, LinkPasses DEF PairAgrees
<1>7. LinkWay(s2, r, to \o <<f>>) /\ LinkWay(r, s2, back)
  BY <1>1, <1>6, LinkWaySame DEF PairAgrees
<1>8. <<f>> \in Seq(PhoneFrames)
  BY <1>2
<1>9. QED  BY <1>1, <1>3, <1>5, <1>7, <1>8 DEF PairAgrees, s2, f

LEMMA PairHeardUpdate ==
    ASSUME NEW s \in SideRecords, NEW r \in SideRecords, NEW to \in Seq(PhoneFrames),
           NEW back \in Seq(PhoneFrames), PairAgrees(s, r, to, back),
           back # << >>, Head(back).kind = "update",
           NEW cap, cap = ApplyRemote(s.cap, Head(back).gen, Head(back).text),
           NEW says, (says = << >> /\ cap = s.cap) \/ says = <<Frame("ack", Head(back).gen, {})>>
    PROVE  /\ PairAgrees([s EXCEPT !.cap = cap], r, to \o says, Tail(back))
           /\ [s EXCEPT !.cap = cap] \in SideRecords /\ says \in Seq(PhoneFrames)
           /\ cap.local = s.cap.local
<1> DEFINE s2 == [s EXCEPT !.cap = cap]
<1>1. s.cap \in Caps /\ r.cap \in Caps
  BY DEF SideRecords
<1>2. ModeWay(r.cap, cap, Tail(back), to \o says) /\ cap \in Caps /\ says \in Seq(PhoneFrames)
  BY <1>1, ModeHeard DEF PairAgrees
<1>3. /\ cap.localGeneration = s.cap.localGeneration /\ cap.local = s.cap.local
      /\ cap.ackGeneration = s.cap.ackGeneration
  BY <1>1 DEF ApplyRemote, Caps
<1>4. /\ s2 \in SideRecords /\ s2.cap = cap /\ s2.primary = s.primary /\ s2.said = s.said
      /\ s2.heard = s.heard
  BY <1>2 DEF SideRecords
<1> HIDE DEF s2
<1>5. Tail(back) \in Seq(PhoneFrames) /\ Head(back) \in PhoneFrames /\ Head(back).gen \in Nat
  BY FrameTaken, FrameTypes
<1>6. ModeWay(s.cap, r.cap, to, Tail(back)) /\ LinkWay(s, r, to) /\ LinkWay(r, s, Tail(back))
  BY <1>1, ModePasses, LinkPasses DEF PairAgrees
<1>7. ModeWay(s.cap, r.cap, to \o says, Tail(back)) /\ LinkWay(s, r, to \o says)
  <2>1. CASE says = << >>
    BY <1>6, <2>1, ConcatEmptySeq
  <2>2. CASE says # << >>
    <3> DEFINE f == Frame("ack", Head(back).gen, {})
    <3>1. f \in PhoneFrames /\ f.kind = "ack"
      BY <1>5 DEF Frame, PhoneFrames, ModeFrames, PhoneModes
    <3>2. says = <<f>>
      BY <2>2
    <3> HIDE DEF f
    <3>3. QED  BY <1>1, <1>5, <1>6, <3>1, <3>2, ModeForth, LinkPasses
  <2>3. QED  BY <2>1, <2>2
<1>8. ModeWay(cap, r.cap, to \o says, Tail(back))
  BY <1>3, <1>7, ModeWaySame
<1>9. LinkWay(s2, r, to \o says) /\ LinkWay(r, s2, Tail(back))
  BY <1>4, <1>6, <1>7, LinkWaySame
<1>10. QED  BY <1>2, <1>3, <1>4, <1>8, <1>9 DEF PairAgrees, s2

LEMMA PairHeardAck ==
    ASSUME NEW s \in SideRecords, NEW r \in SideRecords, NEW to \in Seq(PhoneFrames),
           NEW back \in Seq(PhoneFrames), PairAgrees(s, r, to, back),
           back # << >>, Head(back).kind = "ack",
           NEW cap, cap = ApplyAck(s.cap, Head(back).gen)
    PROVE  /\ PairAgrees([s EXCEPT !.cap = cap], r, to, Tail(back))
           /\ [s EXCEPT !.cap = cap] \in SideRecords /\ cap.local = s.cap.local
<1> DEFINE s2 == [s EXCEPT !.cap = cap]
<1>1. s.cap \in Caps /\ r.cap \in Caps
  BY DEF SideRecords
<1>2. /\ ModeWay(cap, r.cap, to, Tail(back)) /\ cap \in Caps /\ cap.local = s.cap.local
      /\ cap.remote = s.cap.remote /\ cap.remoteGeneration = s.cap.remoteGeneration
  BY <1>1, ModeAcked DEF PairAgrees
<1>3. /\ s2 \in SideRecords /\ s2.cap = cap /\ s2.primary = s.primary /\ s2.said = s.said
      /\ s2.heard = s.heard
  BY <1>2 DEF SideRecords
<1> HIDE DEF s2
<1>4. ModeWay(r.cap, s.cap, Tail(back), to) /\ LinkWay(s, r, to) /\ LinkWay(r, s, Tail(back))
  BY <1>1, ModePasses, LinkPasses DEF PairAgrees
<1>5. ModeWay(r.cap, cap, Tail(back), to)
  BY <1>2, <1>4, ModeWaySame
<1>6. LinkWay(s2, r, to) /\ LinkWay(r, s2, Tail(back))
  BY <1>3, <1>4, LinkWaySame
<1>7. QED  BY <1>2, <1>3, <1>5, <1>6 DEF PairAgrees, s2

LEMMA PairHeardLinks ==
    ASSUME NEW s \in SideRecords, NEW r \in SideRecords, NEW to \in Seq(PhoneFrames),
           NEW back \in Seq(PhoneFrames), PairAgrees(s, r, to, back),
           back # << >>, Head(back).kind = "links",
           NEW heard, heard = IF Head(back).gen > s.heard.gen
                              THEN [gen |-> Head(back).gen, text |-> Head(back).text] ELSE s.heard
    PROVE  /\ PairAgrees([s EXCEPT !.heard = heard], r, to, Tail(back))
           /\ [s EXCEPT !.heard = heard] \in SideRecords
<1> DEFINE s2 == [s EXCEPT !.heard = heard]
<1>1. s.cap \in Caps /\ r.cap \in Caps /\ s.heard.gen \in Nat /\ r.said.gen \in Nat
  BY DEF SideRecords, Tellings
<1>2. /\ Tail(back) \in Seq(PhoneFrames) /\ Head(back) \in PhoneFrames /\ Head(back).gen \in Nat
      /\ Head(back).text \in Texts /\ Head(back) = back[1] /\ 1 \in Of("links", back)
  BY FrameTaken, FrameTypes DEF Of
<1>3. s.heard.gen < Head(back).gen
  BY <1>2 DEF PairAgrees, LinkWay
<1>4. heard = [gen |-> Head(back).gen, text |-> Head(back).text] /\ heard \in Tellings
  BY <1>1, <1>2, <1>3 DEF Tellings
<1>5. /\ s2 \in SideRecords /\ s2.cap = s.cap /\ s2.primary = s.primary /\ s2.said = s.said
      /\ s2.heard = heard
  BY <1>4 DEF SideRecords
<1> HIDE DEF s2
<1>6. /\ ModeWay(s.cap, r.cap, to, Tail(back)) /\ ModeWay(r.cap, s.cap, Tail(back), to)
      /\ LinkWay(s, r, to)
  BY <1>1, ModePasses DEF PairAgrees
<1>7. LinkWay(r, s2, Tail(back))
  BY <1>4, <1>5, LinkHeard DEF PairAgrees
<1>8. LinkWay(s2, r, to)
  BY <1>5, <1>6, LinkWaySame
<1>9. QED  BY <1>5, <1>6, <1>7, <1>8 DEF PairAgrees, s2

LEMMA RefusesFacts ==
    ASSUME NEW e, NEW f
    PROVE  /\ f.kind = "update" /\ Refuses(e, f) => RemoteRefused(ends[e].cap, f.gen, f.text)
           /\ f.kind = "ack" /\ Refuses(e, f) => AckRefused(ends[e].cap, f.gen)
           /\ f.kind = "links" /\ Refuses(e, f) =>
                 \/ f.gen = 0 \/ ends[e].primary \notin f.text.links
                 \/ (f.gen = ends[e].heard.gen /\ f.text # ends[e].heard.text)
BY DEF Refuses

\* And nothing the other one says is refused.
LEMMA PairRefusesNothing ==
    ASSUME NEW e \in Sides, ends \in [Sides -> SideRecords],
           wire \in [Sides -> Seq(PhoneFrames)], SidesAgree(ends, wire), wire[e] # << >>
    PROVE  ~Refuses(e, Head(wire[e]))
<1> DEFINE s == ends[e]
           r == ends[Far(e)]
           f == Head(wire[e])
<1>1. s \in SideRecords /\ r \in SideRecords /\ Far(e) \in Sides
  BY FarFacts
<1>2. /\ f \in PhoneFrames /\ f.gen \in Nat /\ f.kind \in {"update", "ack", "links"}
      /\ f = wire[e][1] /\ 1 \in Of(f.kind, wire[e])
  BY FrameTaken, FrameTypes DEF Of
<1>3. /\ ModeWay(s.cap, r.cap, wire[Far(e)], wire[e]) /\ ModeWay(r.cap, s.cap, wire[e], wire[Far(e)])
      /\ LinkWay(r, s, wire[e])
  BY PairFacts DEF PairAgrees
<1>4. /\ s.cap.localGeneration \in Nat /\ s.cap.remoteGeneration \in Nat /\ s.heard.gen \in Nat
  BY <1>1 DEF SideRecords, Caps, Tellings
<1> HIDE DEF s, r, f
<1>5. CASE f.kind = "update"
  <2>1. s.cap.remoteGeneration <= f.gen /\ (f.gen = s.cap.remoteGeneration => f.text = s.cap.remote)
    BY <1>2, <1>3, <1>5 DEF ModeWay
  <2>2. QED  BY <1>2, <1>4, <1>5, <2>1, RefusesFacts DEF RemoteRefused, s, f
<1>6. CASE f.kind = "ack"
  <2>1. f.gen <= s.cap.localGeneration
    BY <1>2, <1>3, <1>6 DEF ModeWay
  <2>2. QED  BY <1>2, <1>4, <1>6, <2>1, RefusesFacts DEF AckRefused, s, f
<1>7. CASE f.kind = "links"
  <2>1. s.heard.gen < f.gen /\ r.primary = s.primary /\ r.primary \in f.text.links
    BY <1>2, <1>3, <1>7 DEF LinkWay
  <2>2. QED  BY <1>2, <1>4, <1>7, <2>1, RefusesFacts DEF s, f
<1>8. QED  BY <1>2, <1>5, <1>6, <1>7

--------------------------------------------------------------------------------
(* A session begins.                                                       *)

LEMMA UpdateFacts ==
    ASSUME NEW c \in Caps
    PROVE  /\ Update(c) \in PhoneFrames /\ Update(c) = Frame("update", c.localGeneration, c.local)
           /\ Update(c).kind = "update" /\ Update(c).gen = c.localGeneration
           /\ Update(c).text = c.local
BY DEF Update, Frame, PhoneFrames, ModeFrames, Caps

\* One frame alone.
LEMMA OnlyFrame ==
    ASSUME NEW f \in PhoneFrames
    PROVE  /\ <<f>> \in Seq(PhoneFrames) /\ <<f>>[1] = f
           /\ \A kind : Of(kind, <<f>>) = IF f.kind = kind THEN {1} ELSE {}
           /\ \A kind : Of(kind, << >>) = {}
BY DEF Of

\* Both ends when they begin; a desktop may have other settings than it offered.
PhoneBase(mode, theirs, path, link) == End(NewCapability(FALSE, mode, theirs), path, link)
DeskBase(theirs, offer, set, path, link) ==
    End(SetLocal(NewCapability(TRUE, theirs, offer), set), path, link)

LEMMA PhoneEnd ==
    ASSUME NEW mode \in PhoneModes, NEW theirs \in PhoneModes, NEW path \in PhonePaths,
           NEW link \in PhoneLinks
    PROVE  \E s \in SideRecords :
              /\ s = PhoneBase(mode, theirs, path, link)
              /\ s.cap.localGeneration = 0 /\ s.cap.remoteGeneration = 0 /\ s.cap.local = mode
              /\ s.cap.remote = theirs /\ s.cap.ackGeneration = 0
              /\ s.path = path /\ s.primary = link /\ s.said = Nothing /\ s.heard = Nothing
<1> DEFINE cap == [host |-> FALSE, localGeneration |-> 0, remoteGeneration |-> 0,
                   local |-> mode, remote |-> theirs, ackGeneration |-> 0, ackLocal |-> mode]
           s == [cap |-> cap, path |-> path, primary |-> link, second |-> FALSE,
                 said |-> Nothing, heard |-> Nothing]
<1>1. Nothing \in Tellings
  BY DEF Nothing, Tellings, Texts, PhonePaths
<1>2. cap \in Caps
  BY DEF Caps
<1>3. s = PhoneBase(mode, theirs, path, link)
  BY DEF PhoneBase, End, NewCapability
<1>4. /\ s.cap.localGeneration = 0 /\ s.cap.remoteGeneration = 0 /\ s.cap.local = mode
      /\ s.cap.remote = theirs /\ s.cap.ackGeneration = 0
      /\ s.path = path /\ s.primary = link /\ s.said = Nothing /\ s.heard = Nothing
  OBVIOUS
<1> HIDE DEF cap
<1>5. s \in SideRecords
  BY <1>1, <1>2 DEF SideRecords
<1>6. QED  BY <1>3, <1>4, <1>5

LEMMA DeskEnd ==
    ASSUME NEW theirs \in PhoneModes, NEW offer \in PhoneModes, NEW set \in PhoneModes,
           NEW path \in PhonePaths, NEW link \in PhoneLinks
    PROVE  \E r \in SideRecords :
              /\ r = DeskBase(theirs, offer, set, path, link)
              /\ r.cap.localGeneration = (IF set = theirs THEN 0 ELSE 1)
              /\ r.cap.remoteGeneration = 0 /\ r.cap.local = set
              /\ r.cap.remote = offer /\ r.cap.ackGeneration = 0
              /\ r.path = path /\ r.primary = link /\ r.said = Nothing /\ r.heard = Nothing
<1> DEFINE base == [host |-> TRUE, localGeneration |-> 0, remoteGeneration |-> 0,
                    local |-> theirs, remote |-> offer, ackGeneration |-> 0, ackLocal |-> theirs]
           cap == IF set = theirs THEN base ELSE [base EXCEPT !.localGeneration = 1, !.local = set]
           r == [cap |-> cap, path |-> path, primary |-> link, second |-> FALSE,
                 said |-> Nothing, heard |-> Nothing]
<1>1. Nothing \in Tellings
  BY DEF Nothing, Tellings, Texts, PhonePaths
<1>2. base \in Caps /\ base.remoteGeneration = 0 /\ base.remote = offer /\ base.ackGeneration = 0
      /\ base.local = theirs /\ base.localGeneration = 0
  BY DEF Caps
<1>3. SetLocal(NewCapability(TRUE, theirs, offer), set) = cap
  BY DEF SetLocal, NewCapability
<1> HIDE DEF base
<1>4. /\ cap \in Caps /\ cap.localGeneration = (IF set = theirs THEN 0 ELSE 1)
      /\ cap.remoteGeneration = 0 /\ cap.local = set /\ cap.remote = offer /\ cap.ackGeneration = 0
  BY <1>2 DEF Caps
<1> HIDE DEF cap
<1>5. /\ r = End(cap, path, link) /\ r \in SideRecords /\ r.cap = cap
      /\ r.path = path /\ r.primary = link /\ r.said = Nothing /\ r.heard = Nothing
  BY <1>1, <1>4 DEF SideRecords, End
<1> HIDE DEF r
<1>6. r = DeskBase(theirs, offer, set, path, link)
  BY ONLY <1>3, <1>5 DEF DeskBase
<1>7. QED  BY <1>4, <1>5, <1>6

LEMMA BaseAgrees ==
    ASSUME NEW s \in SideRecords, NEW r \in SideRecords, NEW theirs,
           s.cap.localGeneration = 0, s.cap.remoteGeneration = 0, s.cap.ackGeneration = 0,
           s.cap.remote = theirs,
           r.cap.localGeneration = (IF r.cap.local = theirs THEN 0 ELSE 1),
           r.cap.remoteGeneration = 0, r.cap.ackGeneration = 0,
           s.primary = r.primary, s.said = Nothing, s.heard = Nothing, r.said = Nothing,
           r.heard = Nothing,
           NEW back, back = IF IsAcknowledged(r.cap) THEN << >> ELSE <<Update(r.cap)>>
    PROVE  /\ <<Update(s.cap)>> \in Seq(PhoneFrames) /\ back \in Seq(PhoneFrames)
           /\ Update(s.cap) \in PhoneFrames
           /\ Update(s.cap).kind = "update" /\ Update(s.cap).gen = 0
           /\ Update(s.cap).text = s.cap.local
           /\ r.cap.remote = s.cap.local => PairAgrees(s, r, <<Update(s.cap)>>, back)
<1>1. Nothing.gen = 0 /\ s.cap \in Caps /\ r.cap \in Caps
  BY DEF Nothing, SideRecords
<1> DEFINE u == Update(s.cap)
           v == Update(r.cap)
<1>2. /\ u \in PhoneFrames /\ u.kind = "update" /\ u.gen = 0 /\ u.text = s.cap.local
      /\ v \in PhoneFrames /\ v.kind = "update" /\ v.gen = r.cap.localGeneration
      /\ v.text = r.cap.local
  BY <1>1, UpdateFacts
<1>3. back = IF r.cap.local = theirs THEN << >> ELSE <<v>>
  BY DEF IsAcknowledged
<1> HIDE DEF u, v
<1>4. <<u>> \in Seq(PhoneFrames) /\ back \in Seq(PhoneFrames)
  <2>1. <<u>> \in Seq(PhoneFrames) /\ <<v>> \in Seq(PhoneFrames) /\ << >> \in Seq(PhoneFrames)
    BY <1>2, OnlyFrame, EmptySeq
  <2>2. QED  BY <1>3, <2>1
<1>5. ASSUME r.cap.remote = s.cap.local
      PROVE  PairAgrees(s, r, <<u>>, back)
  <2>1. /\ Of("update", <<u>>) = {1} /\ Of("ack", <<u>>) = {} /\ Of("links", <<u>>) = {}
        /\ <<u>>[1] = u
    BY <1>2, OnlyFrame
  <2>2. /\ Of("update", <<v>>) = {1} /\ Of("ack", <<v>>) = {} /\ Of("links", <<v>>) = {}
        /\ <<v>>[1] = v
    BY <1>2, OnlyFrame
  <2>3. Of("update", << >>) = {} /\ Of("ack", << >>) = {} /\ Of("links", << >>) = {}
    BY <1>2, OnlyFrame
  <2>4. Of("ack", back) = {} /\ Of("links", back) = {}
    BY <1>3, <2>2, <2>3
  <2>5. ModeWay(s.cap, r.cap, <<u>>, back)
    BY <1>2, <1>5, <2>1, <2>4 DEF ModeWay
  <2>6. ModeWay(r.cap, s.cap, back, <<u>>)
    <3>1. CASE r.cap.local = theirs
      BY <1>3, <2>1, <2>3, <3>1 DEF ModeWay
    <3>2. CASE r.cap.local # theirs
      BY <1>2, <1>3, <2>1, <2>2, <3>2 DEF ModeWay
    <3>3. QED  BY <3>1, <3>2
  <2>7. LinkWay(s, r, <<u>>) /\ LinkWay(r, s, back)
    BY <1>1, <2>1, <2>4 DEF LinkWay
  <2>8. QED  BY <2>5, <2>6, <2>7 DEF PairAgrees
<1>6. QED  BY <1>2, <1>4, <1>5 DEF u

\* The first links of an end.
LEMMA FirstTells ==
    ASSUME NEW s \in SideRecords, s.said = Nothing
    PROVE  Tells(s) = <<Frame("links", Announced(s).said.gen, Announced(s).said.text)>>
<1>1. Nothing.text.links = {}
  BY DEF Nothing
<1>2. ToldOf(Announced(s)) /\ s.primary \in Available(s)
  BY AnnouncedFacts
<1>3. Announced(s).said.text.links # {}
  <2>1. Announced(s) \in SideRecords
    BY AnnouncedFacts
  <2>2. QED  BY <1>2, <2>1 DEF ToldOf, Available, SideRecords, PhoneLinks
<1>4. Announced(s).said # s.said
  BY <1>1, <1>3
<1>5. QED  BY <1>4 DEF Tells
LEMMA HeadStays ==
    ASSUME NEW q \in Seq(PhoneFrames), NEW w \in Seq(PhoneFrames), q # << >>
    PROVE  q \o w \in Seq(PhoneFrames) /\ q \o w # << >> /\ Head(q \o w) = Head(q)
<1>1. /\ q \o w \in Seq(PhoneFrames) /\ Len(q \o w) = Len(q) + Len(w)
      /\ \A i \in 1 .. Len(q) + Len(w) : (q \o w)[i] = IF i <= Len(q) THEN q[i] ELSE w[i - Len(q)]
  BY ConcatProperties
<1>2. Len(q) \in Nat \ {0} /\ Len(w) \in Nat
  BY EmptySeq, LenProperties
<1>3. q \o w # << >>
  <2>1. Len(q \o w) # 0
    BY <1>1, <1>2
  <2>2. QED  BY <2>1, EmptySeq
<1>4. Head(q) = q[1] /\ Head(q \o w) = (q \o w)[1]
  BY <1>1, <1>3, FrameTaken
<1>5. QED  BY <1>1, <1>2, <1>3, <1>4

LEMMA BothSides ==
    ASSUME NEW S, NEW x \in S, NEW y \in S
    PROVE  /\ [phone |-> x, desk |-> y] \in [Sides -> S]
           /\ [phone |-> x, desk |-> y]["phone"] = x /\ [phone |-> x, desk |-> y]["desk"] = y
BY DEF Sides

LEMMA PairTurned ==
    ASSUME NEW s, NEW r, NEW to, NEW back, PairAgrees(s, r, to, back)
    PROVE  PairAgrees(r, s, back, to)
BY DEF PairAgrees

LEMMA BeginsFacts ==
    ASSUME desks \in [Desks -> Settings], NEW now \in PhoneRecords, now.peer \in Desks,
           NEW offer \in PhoneModes, NEW theirs \in PhoneModes, Begins(now, offer, theirs)
    PROVE  /\ EndTypes' /\ InSessionInv'
           /\ \E b \in BOOLEAN : phone' = [now EXCEPT !.at = "session", !.late = b]
<1> DEFINE mine == PhoneBase(now.set.mode, theirs, now.set.path, Primary)
           other == DeskBase(theirs, offer, desks[now.peer].mode, desks[now.peer].path, Primary)
<1>1. /\ now.set.mode \in PhoneModes /\ now.set.path \in PhonePaths
      /\ desks[now.peer].mode \in PhoneModes /\ desks[now.peer].path \in PhonePaths
      /\ Primary \in PhoneLinks
  BY DEF PhoneRecords, Settings, PhoneModes, PhonePaths, PhoneLinks, Primary
<1>2. PICK s \in SideRecords :
         /\ s = mine
         /\ s.cap.localGeneration = 0 /\ s.cap.remoteGeneration = 0 /\ s.cap.local = now.set.mode
         /\ s.cap.remote = theirs /\ s.cap.ackGeneration = 0
         /\ s.path = now.set.path /\ s.primary = Primary /\ s.said = Nothing /\ s.heard = Nothing
  BY <1>1, PhoneEnd
<1>3. PICK r \in SideRecords :
         /\ r = other
         /\ r.cap.localGeneration = (IF r.cap.local = theirs THEN 0 ELSE 1)
         /\ r.cap.remoteGeneration = 0
         /\ r.cap.remote = offer /\ r.cap.ackGeneration = 0
         /\ r.primary = Primary /\ r.said = Nothing /\ r.heard = Nothing
  <2>1. PICK set \in PhoneModes, path \in PhonePaths, link \in PhoneLinks :
           set = desks[now.peer].mode /\ path = desks[now.peer].path /\ link = Primary
    BY <1>1
  <2>2. other = DeskBase(theirs, offer, set, path, link)
    BY <2>1
  <2> HIDE DEF other
  <2>3. PICK r \in SideRecords :
           /\ r = DeskBase(theirs, offer, set, path, link)
           /\ r.cap.localGeneration = (IF set = theirs THEN 0 ELSE 1)
           /\ r.cap.remoteGeneration = 0 /\ r.cap.local = set
           /\ r.cap.remote = offer /\ r.cap.ackGeneration = 0
           /\ r.path = path /\ r.primary = link /\ r.said = Nothing /\ r.heard = Nothing
    BY DeskEnd
  <2>4. QED  BY <2>1, <2>2, <2>3
<1> HIDE DEF mine, other
<1>4. PICK b \in BOOLEAN : b = (offer # now.set.mode)
  OBVIOUS
<1> DEFINE u == Update(s.cap)
           back == IF IsAcknowledged(r.cap) THEN << >> ELSE <<Update(r.cap)>>
<1>5. /\ <<u>> \in Seq(PhoneFrames) /\ back \in Seq(PhoneFrames) /\ u \in PhoneFrames
      /\ u.kind = "update" /\ u.gen = 0 /\ u.text = now.set.mode
      /\ offer = now.set.mode => PairAgrees(s, r, <<u>>, back)
  BY <1>2, <1>3, BaseAgrees
<1>6. /\ Announced(s) \in SideRecords /\ Announced(r) \in SideRecords
      /\ ToldOf(Announced(s)) /\ ToldOf(Announced(r))
      /\ Announced(s).cap = s.cap /\ Announced(s).path = s.path /\ Announced(r).cap = r.cap
  BY AnnouncedFacts
<1>7. Tells(s) \in Seq(PhoneFrames) /\ Tells(r) \in Seq(PhoneFrames)
  BY TellsFacts
<1>8. /\ phone' = [now EXCEPT !.at = "session", !.late = b]
      /\ ends' = [e \in Sides |-> Announced(IF e = "phone" THEN s ELSE r)]
  BY <1>2, <1>3, <1>4 DEF Begins, Sides, mine, other, PhoneBase, DeskBase, HostEnd
<1>9. ends' \in [Sides -> SideRecords] /\ ends'["phone"] = Announced(s) /\ ends'["desk"] = Announced(r)
  BY <1>6, <1>8 DEF Sides
<1>10. /\ wire' \in [Sides -> Seq(PhoneFrames)]
       /\ wire'["phone"] = back \o Tells(r) /\ wire'["desk"] = <<u>> \o Tells(s)
  <2>1. wire' = [phone |-> back \o <<Frame("links", Announced(r).said.gen, Announced(r).said.text)>>,
                 desk |-> <<u>> \o <<Frame("links", Announced(s).said.gen, Announced(s).said.text)>>]
    BY <1>2, <1>3 DEF Begins, mine, other, PhoneBase, DeskBase, HostEnd
  <2>2. wire' = [phone |-> back \o Tells(r), desk |-> <<u>> \o Tells(s)]
    BY <1>2, <1>3, <2>1, FirstTells
  <2>3. back \o Tells(r) \in Seq(PhoneFrames) /\ <<u>> \o Tells(s) \in Seq(PhoneFrames)
    BY <1>5, <1>7, ConcatProperties
  <2> HIDE DEF back, u
  <2>4. QED  BY <2>2, <2>3, BothSides
<1>11. /\ phone' \in PhoneRecords /\ phone'.at = "session" /\ phone'.late = b /\ phone'.set = now.set
  BY <1>8 DEF PhoneRecords
<1>12. EndTypes'
  BY <1>9, <1>10, <1>11 DEF EndTypes, InSession
<1> HIDE DEF back, u
<1>13. /\ ends'["phone"].cap.local = phone'.set.mode /\ ends'["phone"].path = phone'.set.path
  BY <1>2, <1>6, <1>9, <1>11
<1>14. ASSUME b
       PROVE  Stuck'
  <2>1. wire'["desk"] # << >> /\ Head(wire'["desk"]) = u
    BY <1>5, <1>7, <1>10, HeadStays, OnlyFrame, FrameTaken
  <2>2. ends'["desk"].cap.remoteGeneration = 0 /\ ends'["desk"].cap.remote # u.text
    BY <1>3, <1>4, <1>5, <1>6, <1>9, <1>14
  <2>3. QED  BY <1>5, <2>1, <2>2 DEF Stuck
<1>15. ASSUME ~b
       PROVE  SidesAgree(ends', wire') /\ \A e \in Sides : ToldOf(ends'[e])
  <2>1. PairAgrees(s, r, <<u>>, back)
    BY <1>4, <1>5, <1>15
  <2>2. PairAgrees(Announced(s), r, <<u>> \o Tells(s), back)
    BY <1>5, <2>1, PairAnnounced
  <2>3. PairAgrees(Announced(r), Announced(s), back \o Tells(r), <<u>> \o Tells(s))
    <3>1. <<u>> \o Tells(s) \in Seq(PhoneFrames)
      BY <1>5, <1>7, ConcatProperties
    <3>2. QED  BY <1>5, <1>6, <2>2, <3>1, PairTurned, PairAnnounced
  <2>4. PairAgrees(ends'["phone"], ends'["desk"], wire'["desk"], wire'["phone"])
    BY <1>9, <1>10, <2>3, PairTurned
  <2>5. SidesAgree(ends', wire')
    BY <2>4, PairFacts, FarFacts
  <2>6. QED  BY <1>6, <1>9, <2>5 DEF Sides
<1>16. InSessionInv'
  BY <1>11, <1>13, <1>14, <1>15 DEF InSessionInv
<1>17. QED  BY <1>8, <1>12, <1>16

--------------------------------------------------------------------------------
(* In the session.                                                         *)

EndsInv == EndTypes /\ InSessionInv

LEMMA SidesTyped ==
    ASSUME EndTypes, InSession
    PROVE  /\ ends \in [Sides -> SideRecords] /\ wire \in [Sides -> Seq(PhoneFrames)]
           /\ \A e \in Sides : /\ ends[e] \in SideRecords /\ ends[e].cap \in Caps
                               /\ ends[Far(e)] \in SideRecords
                               /\ wire[e] \in Seq(PhoneFrames) /\ wire[Far(e)] \in Seq(PhoneFrames)
BY FarFacts DEF EndTypes, SideRecords

\* A turn of the loop of e: it becomes end, sends this, and may have taken a frame.
LEMMA TurnInSession ==
    ASSUME EndsInv, InSession, phone'.at = "session", phone'.late = phone.late,
           NEW e \in Sides, NEW end \in SideRecords, NEW sends \in Seq(PhoneFrames),
           NEW frames \in [Sides -> Seq(PhoneFrames)], Turn(e, end, sends, frames),
           ~phone.late => PairAgrees(end, ends[Far(e)], frames[Far(e)] \o sends, frames[e]),
           phone.late => frames["desk"] = wire["desk"],
           phone.late /\ e = "desk" => /\ end.cap.remoteGeneration = ends[e].cap.remoteGeneration
                                       /\ end.cap.remote = ends[e].cap.remote,
           IF e = "phone" THEN end.cap.local = phone'.set.mode /\ end.path = phone'.set.path
           ELSE phone'.set = phone.set
    PROVE  EndsInv'
<1>1. ends \in [Sides -> SideRecords] /\ wire \in [Sides -> Seq(PhoneFrames)]
  BY SidesTyped DEF EndsInv
<1>2. /\ ends' \in [Sides -> SideRecords] /\ wire' \in [Sides -> Seq(PhoneFrames)]
      /\ ends'[e] = Announced(end) /\ ends'[Far(e)] = ends[Far(e)]
      /\ wire'[Far(e)] = (frames[Far(e)] \o sends) \o Tells(end) /\ wire'[e] = frames[e]
  BY <1>1, TurnTypes
<1>3. EndTypes'
  BY <1>2 DEF EndTypes, InSession
<1>4. Announced(end).cap = end.cap /\ Announced(end).path = end.path /\ Tells(end) \in Seq(PhoneFrames)
  BY AnnouncedFacts, TellsFacts
<1>5. ends'["phone"].cap.local = phone'.set.mode /\ ends'["phone"].path = phone'.set.path
  <2>1. CASE e = "phone"
    BY <1>2, <1>4, <2>1
  <2>2. CASE e = "desk"
    <3>1. ends'["phone"] = ends["phone"] /\ phone'.set = phone.set
      BY <1>2, <2>2, FarFacts
    <3>2. QED  BY <3>1 DEF EndsInv, InSessionInv
  <2>3. QED  BY <2>1, <2>2 DEF Sides
<1>6. CASE phone.late
  <2>1. Stuck
    BY <1>6 DEF EndsInv, InSessionInv
  <2>2. frames["desk"] = wire["desk"]
    BY <1>6
  <2>3. /\ ends'["desk"].cap.remoteGeneration = ends["desk"].cap.remoteGeneration
        /\ ends'["desk"].cap.remote = ends["desk"].cap.remote
    <3>1. CASE e = "desk"
      BY <1>2, <1>4, <1>6, <3>1
    <3>2. CASE e = "phone"
      BY <1>2, <3>2, FarFacts
    <3>3. QED  BY <3>1, <3>2 DEF Sides
  <2>4. wire'["desk"] # << >> /\ Head(wire'["desk"]) = Head(wire["desk"])
    <3>1. CASE e = "desk"
      BY <1>2, <2>1, <2>2, <3>1 DEF Stuck
    <3>2. CASE e = "phone"
      <4>1. wire'["desk"] = (wire["desk"] \o sends) \o Tells(end) /\ wire["desk"] \in Seq(PhoneFrames)
        BY <1>1, <1>2, <2>2, <3>2, FarFacts
      <4>2. wire["desk"] # << >>
        BY <2>1 DEF Stuck
      <4>3. /\ wire["desk"] \o sends \in Seq(PhoneFrames) /\ wire["desk"] \o sends # << >>
            /\ Head(wire["desk"] \o sends) = Head(wire["desk"])
        BY <4>1, <4>2, HeadStays
      <4>4. /\ (wire["desk"] \o sends) \o Tells(end) # << >>
            /\ Head((wire["desk"] \o sends) \o Tells(end)) = Head(wire["desk"] \o sends)
        BY <1>4, <4>3, HeadStays
      <4>5. QED  BY <4>1, <4>3, <4>4
    <3>3. QED  BY <3>1, <3>2 DEF Sides
  <2>5. Stuck'
    BY <2>1, <2>3, <2>4 DEF Stuck
  <2>6. QED  BY <1>3, <1>5, <1>6, <2>5 DEF EndsInv, InSessionInv, InSession
<1>7. CASE ~phone.late
  <2>1. PairAgrees(end, ends[Far(e)], frames[Far(e)] \o sends, frames[e])
    BY <1>7
  <2>2. ToldOf(ends[Far(e)])
    BY <1>7, FarFacts DEF EndsInv, InSessionInv
  <2>3. SidesAgree(ends', wire') /\ \A x \in Sides : ToldOf(ends'[x])
    BY <1>1, <2>1, <2>2, TurnAgrees
  <2>4. QED  BY <1>3, <1>5, <1>7, <2>3 DEF EndsInv, InSessionInv, InSession
<1>8. QED  BY <1>6, <1>7

\* What leaves the phone's settings alone and both ends as they are.
LEMMA EndsStay ==
    ASSUME EndsInv, UNCHANGED <<ends, wire>>, phone'.at = "session" <=> phone.at = "session",
           phone.at = "session" => phone'.late = phone.late /\ phone'.set = phone.set
    PROVE  EndsInv'
<1>1. EndTypes'
  BY DEF EndsInv, EndTypes, InSession
<1>2. CASE phone.at = "session"
  <2>1. Stuck => Stuck'
    BY DEF Stuck
  <2>2. (SidesAgree(ends, wire) => SidesAgree(ends', wire')) /\ \A e \in Sides : ToldOf(ends[e]) => ToldOf(ends'[e])
    OBVIOUS
  <2>3. QED  BY <1>1, <1>2, <2>1, <2>2 DEF EndsInv, InSessionInv, InSession
<1>3. CASE phone.at # "session"
  BY <1>1, <1>3 DEF EndsInv, InSessionInv, InSession
<1>4. QED  BY <1>2, <1>3

LEMMA EndsLeft ==
    ASSUME NEW now, now.at # "session", Leaves(now)
    PROVE  EndsInv'
<1>1. NoFrames \in [Sides -> Seq(PhoneFrames)]
  BY EmptySeq DEF NoFrames, Sides
<1>2. QED  BY <1>1 DEF Leaves, EndsInv, EndTypes, InSessionInv, InSession

\* A mode is set, or not again.
LEMMA ResetFacts ==
    ASSUME NEW e \in Sides, ends[e] \in SideRecords, NEW mode \in PhoneModes
    PROVE  LET new == Reset(e, mode) IN
           /\ new.end \in SideRecords /\ new.says \in Seq(PhoneFrames)
           /\ new.end.cap.local = mode /\ new.end.path = ends[e].path
           /\ new.end.cap.remoteGeneration = ends[e].cap.remoteGeneration
           /\ new.end.cap.remote = ends[e].cap.remote
           /\ \A r \in SideRecords : \A to, back \in Seq(PhoneFrames) :
                 PairAgrees(ends[e], r, to, back) => PairAgrees(new.end, r, to \o new.says, back)
<1> DEFINE s == ends[e]
           cap == SetLocal(s.cap, mode)
           end == [s EXCEPT !.cap = cap]
           says == IF cap.localGeneration = s.cap.localGeneration THEN << >> ELSE <<Update(cap)>>
<1>1. Reset(e, mode).end = end /\ Reset(e, mode).says = says
  BY DEF Reset
<1>2. s \in SideRecords /\ s.cap \in Caps
  BY DEF SideRecords
<1> HIDE DEF s
<1>3. CASE mode = s.cap.local
  <2>1. cap = s.cap
    BY <1>3 DEF SetLocal
  <2>2. end = s /\ says = << >>
    BY <1>2, <2>1 DEF SideRecords
  <2>3. \A to \in Seq(PhoneFrames) : to \o << >> = to
    BY ConcatEmptySeq
  <2> HIDE DEF end, says
  <2>4. /\ end \in SideRecords /\ says \in Seq(PhoneFrames) /\ end.cap.local = mode
        /\ end = s
    BY <1>2, <1>3, <2>2, EmptySeq
  <2>5. \A r \in SideRecords : \A to, back \in Seq(PhoneFrames) :
           PairAgrees(s, r, to, back) => PairAgrees(end, r, to \o says, back)
    BY <2>2, <2>3
  <2>6. QED  BY <1>1, <2>4, <2>5 DEF s
<1>4. CASE mode # s.cap.local
  <2>1. cap = [s.cap EXCEPT !.localGeneration = s.cap.localGeneration + 1, !.local = mode]
    BY <1>2, <1>4 DEF SetLocal, Caps
  <2> HIDE DEF cap
  <2>2. /\ cap \in Caps /\ cap.localGeneration = s.cap.localGeneration + 1 /\ cap.local = mode
        /\ cap.remoteGeneration = s.cap.remoteGeneration /\ cap.remote = s.cap.remote
        /\ s.cap.localGeneration \in Nat
    <3>1. PICK c \in Caps : c = s.cap
      BY <1>2
    <3>2. c.localGeneration \in Nat
      BY DEF Caps
    <3>3. PICK n \in Nat : n = c.localGeneration + 1
      BY <3>2
    <3>4. cap = [c EXCEPT !.localGeneration = n, !.local = mode]
      BY <2>1, <3>1, <3>3
    <3>5. QED  BY <3>1, <3>2, <3>3, <3>4 DEF Caps
  <2>3. says = <<Update(cap)>>
    BY <2>2
  <2>4. end \in SideRecords /\ end.cap = cap /\ end.path = s.path
    BY <1>2, <2>2 DEF SideRecords
  <2>5. says \in Seq(PhoneFrames)
    BY <2>2, <2>3, UpdateFacts, OnlyFrame
  <2>6. ASSUME NEW r \in SideRecords, NEW to \in Seq(PhoneFrames), NEW back \in Seq(PhoneFrames),
               PairAgrees(s, r, to, back)
        PROVE  PairAgrees(end, r, to \o says, back)
    BY <1>2, <2>2, <2>3, <2>6, PairSaid
  <2> HIDE DEF end, says
  <2>7. QED  BY <1>1, <2>2, <2>4, <2>5, <2>6 DEF s
<1>5. QED  BY <1>3, <1>4

--------------------------------------------------------------------------------
(* The way to a session.                                                   *)

ClientCore == PhoneTypes /\ EndsInv /\ PeerIsRight

LEMMA PhoneMoves ==
    ASSUME PhoneTypes, phone' \in PhoneRecords, orders' \in Seq(PhoneOrders), wishes' \in Settings,
           UNCHANGED <<desks, where>>, phone'.radio = phone.radio,
           spare' \in [{"wish", "desk", "link", "place", "session"} -> Nat],
           phone'.at \in {"prompt", "asked", "session"} => phone'.peer \in Desks
    PROVE  PhoneTypes'
BY DEF PhoneTypes

LEMMA SpendsFacts ==
    ASSUME PhoneTypes, NEW what \in {"wish", "desk", "link", "place", "session"}, Spends(what)
    PROVE  spare' \in [{"wish", "desk", "link", "place", "session"} -> Nat]
<1>1. spare[what] \in Nat /\ spare[what] > 0 /\ spare' = [spare EXCEPT ![what] = spare[what] - 1]
  BY DEF Spends, PhoneTypes
<1>2. spare[what] - 1 \in Nat
  BY <1>1
<1>3. QED  BY <1>1, <1>2 DEF PhoneTypes

LEMMA EntryFacts ==
    ASSUME PhoneTypes, Entry # NoDesk
    PROVE  /\ Entry \in Desks /\ Entry \in phone.trusted
           /\ phone.id = Entry \/ phone.id = NoDesk
<1>1. phone.trusted \subseteq Desks /\ phone.id \in Desks \cup {NoDesk}
  BY DEF PhoneTypes, PhoneRecords, SomeDesk
<1>2. CASE phone.id \in phone.trusted
  BY <1>1, <1>2 DEF Entry
<1>3. CASE phone.id \notin phone.trusted
  <2>1. /\ phone.id = NoDesk /\ Cardinality(phone.trusted) = 1
        /\ Entry = CHOOSE d \in phone.trusted : TRUE
    BY <1>3 DEF Entry
  <2>2. phone.trusted # {}
    <3>1. Cardinality({}) = 0
      BY FS_EmptySet
    <3>2. QED  BY <2>1, <3>1
  <2>3. QED  BY <1>1, <2>1, <2>2
<1>4. QED  BY <1>2, <1>3

LEMMA DialsFacts ==
    ASSUME PhoneTypes, NEW dialed \in Dials
    PROVE  dialed[1] \in Desks /\ dialed[2] \subseteq Lan
<1>1. /\ phone.addresses \subseteq Lan /\ Lan \subseteq DOMAIN where
      /\ where \in [DOMAIN where -> SomeDesk] /\ phone.id \in Desks \cup {NoDesk}
  BY DEF PhoneTypes, PhoneRecords, SomeDesk
<1>2. RespondersAt(phone.addresses) \subseteq Desks
  <2>1. \A p \in phone.addresses : where[p] \in SomeDesk
    BY <1>1
  <2>2. QED  BY <2>1 DEF RespondersAt, SomeDesk
<1>3. CASE RespondersAt(phone.addresses) # {}
  <2>1. dialed \in RespondersAt(phone.addresses) \X {phone.addresses}
    BY <1>3 DEF Dials
  <2>2. QED  BY <1>1, <1>2, <2>1
<1>4. CASE RespondersAt(phone.addresses) = {}
  <2>1. phone.id # NoDesk /\ dialed = <<phone.id, PlacesOf(phone.id)>>
    BY <1>4 DEF Dials
  <2>2. dialed[1] = phone.id /\ dialed[2] = PlacesOf(phone.id)
    BY <2>1
  <2>3. QED  BY <1>1, <2>1, <2>2 DEF PlacesOf
<1>5. QED  BY <1>3, <1>4

\* From here on: a step that waits elsewhere than in a session, or leaves.
LEMMA WaitsFacts ==
    ASSUME ClientCore, NEW now \in PhoneRecords, now.at # "session", phone.at # "session",
           Waiting(now), now.radio = phone.radio, now.at \in {"prompt", "asked"} => now.peer \in Desks,
           orders' \in Seq(PhoneOrders), UNCHANGED <<wishes, desks, where>>,
           now.wanted \in {NoDesk, now.id}, now.at = "asked" => now.id \in {NoDesk, now.peer}
    PROVE  ClientCore'
<1>1. /\ PhoneTypes /\ EndsInv /\ phone' = now /\ UNCHANGED <<ends, wire, spare>>
  BY DEF ClientCore, Waiting
<1>2. EndsInv'
  BY <1>1, EndsStay
<1>3. PhoneTypes'
  <2>1. spare' \in [{"wish", "desk", "link", "place", "session"} -> Nat] /\ wishes' \in Settings
    BY <1>1 DEF PhoneTypes
  <2>2. QED  BY <1>1, <2>1, PhoneMoves
<1>4. PeerIsRight'
  BY <1>1 DEF PeerIsRight, RightPeer, InSession
<1>5. QED  BY <1>2, <1>3, <1>4 DEF ClientCore

LEMMA LeavesFacts ==
    ASSUME ClientCore, NEW now \in PhoneRecords, now.at \in {"idle", "over"},
           Leaves(now), now.radio = phone.radio,
           orders' \in Seq(PhoneOrders), UNCHANGED <<wishes, desks, where>>,
           now.wanted \in {NoDesk, now.id}
    PROVE  ClientCore'
<1>1. PhoneTypes /\ phone' = now /\ UNCHANGED spare
  BY DEF ClientCore, Leaves
<1>2. EndsInv'
  BY EndsLeft
<1>3. PhoneTypes'
  <2>1. spare' \in [{"wish", "desk", "link", "place", "session"} -> Nat] /\ wishes' \in Settings
    BY <1>1 DEF PhoneTypes
  <2>2. QED  BY <1>1, <2>1, PhoneMoves
<1>4. PeerIsRight'
  BY <1>1 DEF PeerIsRight, RightPeer, InSession
<1>5. QED  BY <1>2, <1>3, <1>4 DEF ClientCore

\* A session begins with a device that is trusted, or wanted, or that a PIN was given for.
LEMMA BeginsStep ==
    ASSUME ClientCore, NEW now \in PhoneRecords, NEW offer \in PhoneModes, NEW theirs \in PhoneModes,
           Begins(now, offer, theirs), now.peer \in Desks, now.radio = phone.radio,
           orders' \in Seq(PhoneOrders), UNCHANGED <<wishes, desks, where>>,
           now.wanted \in {NoDesk, now.id},
           now.how # "pin" => now.wanted \in {NoDesk, now.peer},
           now.how = "trusted" => now.peer \in now.trusted
    PROVE  ClientCore'
<1>1. PhoneTypes /\ desks \in [Desks -> Settings] /\ wishes' \in Settings
  BY DEF ClientCore, PhoneTypes
<1>2. EndsInv' /\ \E b \in BOOLEAN : phone' = [now EXCEPT !.at = "session", !.late = b]
  BY <1>1, BeginsFacts DEF EndsInv
<1>3. PICK b \in BOOLEAN : phone' = [now EXCEPT !.at = "session", !.late = b]
  BY <1>2
<1>4. /\ phone' \in PhoneRecords /\ phone'.at = "session" /\ phone'.radio = phone.radio
      /\ phone'.wanted = now.wanted /\ phone'.id = now.id /\ phone'.peer = now.peer
      /\ phone'.how = now.how /\ phone'.trusted = now.trusted
  BY <1>3 DEF PhoneRecords
<1>5. Spends("session")
  BY DEF Begins
<1>6. PhoneTypes'
  BY <1>1, <1>4, <1>5, SpendsFacts, PhoneMoves
<1>7. PeerIsRight'
  BY <1>4 DEF PeerIsRight, RightPeer, InSession
<1>8. QED  BY <1>2, <1>6, <1>7 DEF ClientCore

\* What every step of the way finds.
LEMMA CoreFacts ==
    ASSUME ClientCore
    PROVE  /\ phone \in PhoneRecords /\ orders \in Seq(PhoneOrders) /\ wishes \in Settings
           /\ desks \in [Desks -> Settings]
           /\ phone.at \in {"prompt", "asked", "session"} => phone.peer \in Desks
           /\ phone.wanted \in {NoDesk, phone.id}
           /\ phone.at = "asked" => phone.id \in {NoDesk, phone.peer}
           /\ phone.set.mode \in PhoneModes /\ phone.offer \in PhoneModes /\ phone.theirs \in PhoneModes
           /\ \A d \in Desks : desks[d].mode \in PhoneModes
           /\ where \in [DOMAIN where -> SomeDesk] /\ phone.radio \in DOMAIN where \cup {NoDesk}
BY DEF ClientCore, PhoneTypes, PeerIsRight, PhoneRecords, Settings, PhoneModes

LEMMA EndedFacts ==
    ASSUME phone \in PhoneRecords
    PROVE  /\ Ended \in PhoneRecords /\ Over \in PhoneRecords
           /\ Ended.at = "idle" /\ Ended.radio = phone.radio
           /\ Ended.wanted = phone.wanted /\ Ended.id = phone.id
           /\ Over.at = "over" /\ Over.radio = phone.radio
           /\ Over.wanted = phone.wanted /\ Over.id = phone.id
           /\ Ended.set = phone.set /\ Over.set = phone.set
<1>1. {} \in PhoneModes /\ NoDesk \in SomeDesk
  BY DEF PhoneModes, SomeDesk
<1>2. /\ Ended \in PhoneRecords /\ Ended.at = "idle" /\ Ended.radio = phone.radio
      /\ Ended.wanted = phone.wanted /\ Ended.id = phone.id /\ Ended.set = phone.set
  BY <1>1 DEF Ended, PhoneRecords
<1>3. PICK last \in PhoneRecords : last = Ended
  BY <1>2
<1>4. QED  BY <1>2, <1>3 DEF Over, PhoneRecords

LEMMA DialTrustedStep ==
    ASSUME ClientCore, DialTrusted
    PROVE  ClientCore'
<1>1. /\ PhoneTypes /\ phone \in PhoneRecords /\ phone.at = "idle"
      /\ UNCHANGED <<orders, wishes, desks, where>> /\ orders' \in Seq(PhoneOrders)
      /\ phone.wanted \in {NoDesk, phone.id} /\ phone.set.mode \in PhoneModes
      /\ \A d \in Desks : desks[d].mode \in PhoneModes
  BY CoreFacts DEF ClientCore, DialTrusted, Elsewhere
<1>2. Entry \in Desks /\ Entry \in phone.trusted /\ (phone.id = Entry \/ phone.id = NoDesk)
  BY <1>1, EntryFacts DEF DialTrusted
<1>3. PICK dialed \in Dials :
         \/ Waiting([[phone EXCEPT !.addresses = dialed[2]] EXCEPT !.at = "bootstrap"])
         \/ Begins([[phone EXCEPT !.addresses = dialed[2]] EXCEPT !.how = "trusted", !.peer = Entry],
                   phone.set.mode, desks[Entry].mode)
  BY DEF DialTrusted
<1>4. dialed[2] \subseteq Lan
  BY <1>1, DialsFacts
<1> DEFINE now == [phone EXCEPT !.addresses = dialed[2]]
<1>5. /\ now \in PhoneRecords /\ now.at = "idle" /\ now.radio = phone.radio
      /\ now.wanted = phone.wanted /\ now.id = phone.id /\ now.trusted = phone.trusted
  BY <1>1, <1>4 DEF PhoneRecords
<1> HIDE DEF now
<1>6. CASE Waiting([now EXCEPT !.at = "bootstrap"])
  <2> DEFINE next == [now EXCEPT !.at = "bootstrap"]
  <2>1. /\ next \in PhoneRecords /\ next.at = "bootstrap" /\ next.radio = phone.radio
        /\ next.wanted = phone.wanted /\ next.id = phone.id
    BY <1>5 DEF PhoneRecords
  <2> HIDE DEF next
  <2>2. QED  BY <1>1, <1>6, <2>1, WaitsFacts DEF next
<1>7. CASE Begins([now EXCEPT !.how = "trusted", !.peer = Entry], phone.set.mode, desks[Entry].mode)
  <2> DEFINE next == [now EXCEPT !.how = "trusted", !.peer = Entry]
  <2>1. /\ next \in PhoneRecords /\ next.peer = Entry /\ next.how = "trusted"
        /\ next.radio = phone.radio /\ next.wanted = phone.wanted /\ next.id = phone.id
        /\ next.trusted = phone.trusted
    BY <1>2, <1>5 DEF PhoneRecords, SomeDesk
  <2> HIDE DEF next
  <2>2. QED  BY <1>1, <1>2, <1>7, <2>1, BeginsStep DEF next
<1>8. QED  BY <1>3, <1>6, <1>7 DEF now

LEMMA DialBootstrapStep ==
    ASSUME ClientCore, DialBootstrap
    PROVE  ClientCore'
<1>1. /\ PhoneTypes /\ phone \in PhoneRecords /\ phone.at \in {"idle", "bootstrap"}
      /\ UNCHANGED <<orders, wishes, desks, where>> /\ orders' \in Seq(PhoneOrders)
      /\ phone.wanted \in {NoDesk, phone.id}
  BY CoreFacts DEF ClientCore, DialBootstrap, Elsewhere
<1>2. CASE Waiting(Ended)
  BY <1>1, <1>2, EndedFacts, WaitsFacts
<1>3. ASSUME NEW dialed \in Dials,
             Waiting([phone EXCEPT !.at = "prompt", !.peer = dialed[1], !.addresses = dialed[2]])
      PROVE  ClientCore'
  <2> DEFINE next == [phone EXCEPT !.at = "prompt", !.peer = dialed[1], !.addresses = dialed[2]]
  <2>1. dialed[1] \in Desks /\ dialed[2] \subseteq Lan
    BY <1>1, DialsFacts
  <2>2. /\ next \in PhoneRecords /\ next.at = "prompt" /\ next.peer \in Desks
        /\ next.radio = phone.radio /\ next.wanted = phone.wanted /\ next.id = phone.id
    BY <1>1, <2>1 DEF PhoneRecords, SomeDesk
  <2> HIDE DEF next
  <2>3. QED  BY <1>1, <1>3, <2>2, WaitsFacts DEF next
<1>4. QED  BY <1>2, <1>3 DEF DialBootstrap

LEMMA DialBluetoothStep ==
    ASSUME ClientCore, DialBluetooth
    PROVE  ClientCore'
<1> DEFINE d == where[phone.radio]
           now == [phone EXCEPT !.peer = d, !.offer = phone.set.mode, !.theirs = desks[d].mode]
<1>1. /\ PhoneTypes /\ phone \in PhoneRecords /\ phone.at = "idle"
      /\ UNCHANGED <<orders, wishes, desks, where>> /\ orders' \in Seq(PhoneOrders)
      /\ phone.wanted \in {NoDesk, phone.id} /\ phone.set.mode \in PhoneModes
      /\ \A x \in Desks : desks[x].mode \in PhoneModes
  BY CoreFacts DEF ClientCore, DialBluetooth, Elsewhere
<1>2. d \in Desks /\ desks[d].mode \in PhoneModes
  <2>1. phone.radio \in DOMAIN where /\ where[phone.radio] # NoDesk
    BY CoreFacts DEF DialBluetooth
  <2>2. QED  BY <1>1, <2>1, CoreFacts DEF SomeDesk
<1>3. /\ now \in PhoneRecords /\ now.at = "idle" /\ now.radio = phone.radio /\ now.peer = d
      /\ now.wanted = phone.wanted /\ now.id = phone.id /\ now.trusted = phone.trusted
      /\ now.offer = phone.set.mode /\ now.theirs = desks[d].mode
  <2> HIDE DEF d
  <2>1. QED  BY <1>1, <1>2 DEF PhoneRecords, SomeDesk
<1>4. \/ Leaves(Over)
      \/ /\ phone.id \in phone.trusted /\ d = phone.id
         /\ Begins([now EXCEPT !.how = "trusted"], now.offer, now.theirs)
      \/ phone.id \notin phone.trusted /\ Rightful(d) /\ Waiting([now EXCEPT !.at = "asked"])
  BY DEF DialBluetooth
<1> HIDE DEF d, now
<1>5. CASE Leaves(Over)
  BY <1>1, <1>5, EndedFacts, LeavesFacts
<1>6. ASSUME phone.id \in phone.trusted, d = phone.id,
             Begins([now EXCEPT !.how = "trusted"], now.offer, now.theirs)
      PROVE  ClientCore'
  <2> DEFINE next == [now EXCEPT !.how = "trusted"]
  <2>1. /\ next \in PhoneRecords /\ next.how = "trusted" /\ next.radio = phone.radio
        /\ next.peer = d /\ next.wanted = phone.wanted /\ next.id = phone.id
        /\ next.trusted = phone.trusted
    BY <1>3 DEF PhoneRecords
  <2> HIDE DEF next
  <2>2. QED  BY <1>1, <1>2, <1>3, <1>6, <2>1, BeginsStep DEF next
<1>7. ASSUME Rightful(d), Waiting([now EXCEPT !.at = "asked"])
      PROVE  ClientCore'
  <2> DEFINE next == [now EXCEPT !.at = "asked"]
  <2>1. /\ next \in PhoneRecords /\ next.at = "asked" /\ next.radio = phone.radio
        /\ next.peer = d /\ next.wanted = phone.wanted /\ next.id = phone.id
    BY <1>3 DEF PhoneRecords
  <2> HIDE DEF next
  <2>2. phone.id \in {NoDesk, d}
    BY <1>7 DEF Rightful
  <2>3. QED  BY <1>1, <1>2, <1>7, <2>1, <2>2, WaitsFacts DEF next
<1>8. QED  BY <1>4, <1>5, <1>6, <1>7

LEMMA OrderFacts ==
    ASSUME NEW q \in Seq(PhoneOrders), q # << >>
    PROVE  /\ Head(q) \in PhoneOrders /\ Tail(q) \in Seq(PhoneOrders)
           /\ Head(q).kind \in {"mode", "path", "trust", "answer"}
           /\ Head(q).kind = "mode" => Head(q).what \in PhoneModes
           /\ Head(q).kind = "path" => Head(q).what \in PhonePaths
           /\ Head(q).kind = "trust" => Head(q).what \in SUBSET Desks
<1>1. Head(q) \in PhoneOrders /\ Tail(q) \in Seq(PhoneOrders)
  BY HeadTailProperties
<1>2. QED  BY <1>1 DEF PhoneOrders

LEMMA ChosenFacts ==
    ASSUME NEW set \in Settings, NEW order,
           order.kind = "mode" => order.what \in PhoneModes,
           order.kind = "path" => order.what \in PhonePaths
    PROVE  /\ order.kind = "mode" => /\ Chosen(set, order) \in Settings
                                     /\ Chosen(set, order).mode = order.what
                                     /\ Chosen(set, order).path = set.path
           /\ order.kind = "path" => /\ Chosen(set, order) \in Settings
                                     /\ Chosen(set, order).path = order.what
                                     /\ Chosen(set, order).mode = set.mode
<1>1. ASSUME order.kind = "mode"
      PROVE  /\ Chosen(set, order) \in Settings /\ Chosen(set, order).mode = order.what
             /\ Chosen(set, order).path = set.path
  <2>1. Chosen(set, order) = [set EXCEPT !.mode = order.what]
    BY <1>1 DEF Chosen
  <2>2. QED  BY <1>1, <2>1 DEF Settings, PhoneModes
<1>2. ASSUME order.kind = "path"
      PROVE  /\ Chosen(set, order) \in Settings /\ Chosen(set, order).path = order.what
             /\ Chosen(set, order).mode = set.mode
  <2>1. Chosen(set, order) = [set EXCEPT !.path = order.what]
    BY <1>2 DEF Chosen
  <2>2. QED  BY <1>2, <2>1 DEF Settings, PhonePaths
<1>3. QED  BY <1>1, <1>2

LEMMA FollowedFacts ==
    ASSUME phone \in PhoneRecords, NEW order, order.kind \in {"mode", "path", "trust"},
           order.kind = "mode" => order.what \in PhoneModes,
           order.kind = "path" => order.what \in PhonePaths,
           order.kind = "trust" => order.what \in SUBSET Desks
    PROVE  /\ Followed(order) \in PhoneRecords
           /\ Followed(order).at = phone.at /\ Followed(order).peer = phone.peer
           /\ Followed(order).how = phone.how /\ Followed(order).late = phone.late
           /\ Followed(order).radio = phone.radio /\ Followed(order).id = phone.id
           /\ Followed(order).wanted = phone.wanted
           /\ Followed(order).trusted = (IF order.kind = "trust" THEN order.what ELSE phone.trusted)
           /\ Followed(order).set = (IF order.kind = "trust" THEN phone.set
                                     ELSE Chosen(phone.set, order))
<1>1. CASE order.kind = "trust"
  <2>1. Followed(order) = [phone EXCEPT !.trusted = order.what]
    BY <1>1 DEF Followed
  <2>2. QED  BY <1>1, <2>1 DEF PhoneRecords
<1>2. CASE order.kind # "trust"
  <2>1. Followed(order) = [phone EXCEPT !.set = Chosen(phone.set, order)]
    BY <1>2 DEF Followed
  <2>2. phone.set \in Settings
    BY DEF PhoneRecords
  <2>3. PICK set \in Settings : set = Chosen(phone.set, order)
    BY <1>2, <2>2, ChosenFacts
  <2>4. QED  BY <1>2, <2>1, <2>3 DEF PhoneRecords
<1>3. QED  BY <1>1, <1>2

LEMMA PromptHearsStep ==
    ASSUME ClientCore, PromptHears
    PROVE  ClientCore'
<1> DEFINE order == Head(orders)
           answers == order = Order("answer", order.what)
<1>1. /\ PhoneTypes /\ phone \in PhoneRecords /\ phone.at \in {"prompt", "asked"}
      /\ phone.peer \in Desks /\ orders \in Seq(PhoneOrders) /\ orders # << >>
      /\ orders' = Tail(orders) /\ UNCHANGED <<wishes, desks, where>>
      /\ phone.wanted \in {NoDesk, phone.id}
      /\ phone.at = "asked" => phone.id \in {NoDesk, phone.peer}
      /\ phone.set.mode \in PhoneModes /\ phone.offer \in PhoneModes /\ phone.theirs \in PhoneModes
      /\ desks[phone.peer].mode \in PhoneModes /\ phone.trusted \in SUBSET Desks
  BY CoreFacts DEF ClientCore, PromptHears, Elsewhere, PhoneRecords
<1>2. /\ orders' \in Seq(PhoneOrders) /\ order.kind \in {"mode", "path", "trust", "answer"}
      /\ order.kind = "mode" => order.what \in PhoneModes
      /\ order.kind = "path" => order.what \in PhonePaths
      /\ order.kind = "trust" => order.what \in SUBSET Desks
  BY <1>1, OrderFacts
<1>3. \/ order.kind # "answer" /\ Waiting(Followed(order))
      \/ phone.at = "asked" /\ Waiting(phone)
      \/ Leaves(Over)
      \/ /\ phone.at = "prompt"
         /\ \E trusts \in BOOLEAN :
               Begins(Paired(trusts, "pin"), phone.set.mode, desks[phone.peer].mode)
      \/ /\ phone.at = "asked"
         /\ Begins([Paired(order.what = "remember", "asked")
                      EXCEPT !.id = phone.peer, !.wanted = IF @ = NoDesk THEN phone.peer ELSE @],
                   phone.offer, phone.theirs)
  BY DEF PromptHears
<1> HIDE DEF order, answers
<1>4. ASSUME order.kind # "answer", Waiting(Followed(order))
      PROVE  ClientCore'
  <2>1. /\ Followed(order) \in PhoneRecords
        /\ Followed(order).at = phone.at /\ Followed(order).peer = phone.peer
        /\ Followed(order).radio = phone.radio /\ Followed(order).id = phone.id
        /\ Followed(order).wanted = phone.wanted
    BY <1>1, <1>2, <1>4, FollowedFacts
  <2>2. QED  BY <1>1, <1>2, <1>4, <2>1, WaitsFacts
<1>5. CASE Waiting(phone)
  BY <1>1, <1>2, <1>5, WaitsFacts
<1>6. CASE Leaves(Over)
  BY <1>1, <1>2, <1>6, EndedFacts, LeavesFacts
<1>7. ASSUME NEW trusts \in BOOLEAN,
             Begins(Paired(trusts, "pin"), phone.set.mode, desks[phone.peer].mode)
      PROVE  ClientCore'
  <2>1. PICK list \in SUBSET Desks : list = IF trusts THEN phone.trusted \cup {phone.peer} ELSE phone.trusted
    BY <1>1
  <2>2. Paired(trusts, "pin") = [phone EXCEPT !.how = "pin", !.trusted = list]
    BY <1>1, <2>1 DEF Paired, PhoneRecords
  <2>3. PICK next \in PhoneRecords :
           /\ next = Paired(trusts, "pin") /\ next.peer = phone.peer /\ next.how = "pin"
           /\ next.radio = phone.radio /\ next.wanted = phone.wanted /\ next.id = phone.id
    BY <1>1, <2>2 DEF PhoneRecords
  <2>4. Begins(next, phone.set.mode, desks[phone.peer].mode)
    BY <1>7, <2>3
  <2>5. QED  BY <1>1, <1>2, <2>3, <2>4, BeginsStep
<1>8. ASSUME phone.at = "asked",
             Begins([Paired(order.what = "remember", "asked")
                       EXCEPT !.id = phone.peer, !.wanted = IF @ = NoDesk THEN phone.peer ELSE @],
                    phone.offer, phone.theirs)
      PROVE  ClientCore'
  <2>1. PICK list \in SUBSET Desks :
           list = IF order.what = "remember" THEN phone.trusted \cup {phone.peer} ELSE phone.trusted
    BY <1>1
  <2>2. PICK first \in SomeDesk : first = IF phone.wanted = NoDesk THEN phone.peer ELSE phone.wanted
    BY <1>1 DEF PhoneRecords
  <2>3. phone.peer \in SomeDesk
    BY <1>1 DEF PhoneRecords
  <2>4. PICK next \in PhoneRecords :
           /\ next = [Paired(order.what = "remember", "asked")
                       EXCEPT !.id = phone.peer, !.wanted = IF @ = NoDesk THEN phone.peer ELSE @]
           /\ next.peer = phone.peer /\ next.how = "asked" /\ next.radio = phone.radio
           /\ next.wanted = first /\ next.id = phone.peer
    <3> DEFINE paired == [phone EXCEPT !.how = "asked", !.trusted = list]
               next == [paired EXCEPT !.id = phone.peer, !.wanted = first]
    <3>1. Paired(order.what = "remember", "asked") = paired
      BY <1>1, <2>1 DEF Paired, PhoneRecords
    <3>2. paired \in PhoneRecords /\ paired.peer = phone.peer /\ paired.how = "asked"
          /\ paired.radio = phone.radio /\ paired.wanted = phone.wanted
      BY <1>1 DEF PhoneRecords
    <3> HIDE DEF paired
    <3>3. [paired EXCEPT !.id = phone.peer, !.wanted = IF @ = NoDesk THEN phone.peer ELSE @] = next
      BY <2>2, <3>2 DEF PhoneRecords
    <3>4. /\ next \in PhoneRecords /\ next.peer = phone.peer /\ next.how = "asked"
          /\ next.radio = phone.radio /\ next.wanted = first /\ next.id = phone.peer
      BY <2>3, <3>2 DEF PhoneRecords
    <3>5. QED  BY <3>1, <3>3, <3>4
  <2>5. first = phone.peer
    BY <1>1, <1>8, <2>2
  <2>6. Begins(next, phone.offer, phone.theirs)
    BY <1>8, <2>4
  <2>7. QED  BY <1>1, <1>2, <2>4, <2>5, <2>6, BeginsStep
<1>9. QED  BY <1>3, <1>4, <1>5, <1>6, <1>7, <1>8

LEMMA FailsStep ==
    ASSUME ClientCore, ClientStops \/ SessionFails
    PROVE  ClientCore'
<1>1. /\ phone \in PhoneRecords /\ UNCHANGED <<wishes, desks, where>> /\ orders' \in Seq(PhoneOrders)
      /\ phone.wanted \in {NoDesk, phone.id} /\ (Leaves(Over) \/ Leaves(Ended))
  BY CoreFacts DEF ClientStops, SessionFails, Elsewhere
<1>2. QED  BY <1>1, EndedFacts, LeavesFacts

--------------------------------------------------------------------------------
(* The steps of a session.                                                 *)

LEMMA SessionMoves ==
    ASSUME ClientCore, InSession, EndsInv', phone' \in PhoneRecords, phone'.at = "session",
           phone'.peer = phone.peer, phone'.how = phone.how, phone'.radio = phone.radio,
           phone'.id = phone.id, phone'.wanted = phone.wanted,
           phone.how = "trusted" => phone.peer \in phone'.trusted,
           orders' \in Seq(PhoneOrders), UNCHANGED <<wishes, desks, where>>,
           spare' \in [{"wish", "desk", "link", "place", "session"} -> Nat]
    PROVE  ClientCore'
<1>1. phone.peer \in Desks /\ wishes' \in Settings
  BY CoreFacts DEF InSession
<1>2. PhoneTypes'
  BY <1>1, PhoneMoves DEF ClientCore
<1>3. PeerIsRight'
  BY DEF ClientCore, PeerIsRight, RightPeer, InSession
<1>4. QED  BY <1>2, <1>3 DEF ClientCore

\* The phone does not change.
LEMMA PhoneStays ==
    ASSUME ClientCore, InSession, EndsInv', UNCHANGED <<phone, orders, wishes, desks, where>>,
           spare' \in [{"wish", "desk", "link", "place", "session"} -> Nat]
    PROVE  ClientCore'
<1>1. phone \in PhoneRecords /\ orders' \in Seq(PhoneOrders)
  BY CoreFacts
<1>2. phone.how = "trusted" => phone.peer \in phone.trusted
  BY DEF ClientCore, PeerIsRight, RightPeer
<1>3. phone'.at = "session"
  BY DEF InSession
<1>4. QED  BY <1>1, <1>2, <1>3, SessionMoves

\* What a turn needs to know of both ends.
LEMMA SessionFacts ==
    ASSUME ClientCore, InSession
    PROVE  /\ EndsInv /\ phone \in PhoneRecords /\ phone.peer \in Desks
           /\ ends \in [Sides -> SideRecords] /\ wire \in [Sides -> Seq(PhoneFrames)]
           /\ \A e \in Sides : /\ ends[e] \in SideRecords /\ ends[e].cap \in Caps
                               /\ Far(e) \in Sides /\ ends[Far(e)] \in SideRecords
                               /\ wire[e] \in Seq(PhoneFrames) /\ wire[Far(e)] \in Seq(PhoneFrames)
                               /\ ~phone.late => PairAgrees(ends[e], ends[Far(e)], wire[Far(e)], wire[e])
           /\ phone.late => Stuck
           /\ ends["phone"].cap.local = phone.set.mode /\ ends["phone"].path = phone.set.path
           /\ spare \in [{"wish", "desk", "link", "place", "session"} -> Nat]
<1>1. /\ EndsInv /\ phone \in PhoneRecords /\ phone.peer \in Desks
      /\ spare \in [{"wish", "desk", "link", "place", "session"} -> Nat]
  BY CoreFacts DEF ClientCore, InSession, PhoneTypes
<1>2. /\ ends \in [Sides -> SideRecords] /\ wire \in [Sides -> Seq(PhoneFrames)]
      /\ \A e \in Sides : /\ ends[e] \in SideRecords /\ ends[e].cap \in Caps
                          /\ Far(e) \in Sides /\ ends[Far(e)] \in SideRecords
                          /\ wire[e] \in Seq(PhoneFrames) /\ wire[Far(e)] \in Seq(PhoneFrames)
  BY <1>1, SidesTyped, FarFacts DEF EndsInv
<1>3. /\ ~phone.late => SidesAgree(ends, wire)
      /\ phone.late => Stuck
      /\ ends["phone"].cap.local = phone.set.mode /\ ends["phone"].path = phone.set.path
  BY <1>1 DEF EndsInv, InSessionInv
<1>4. ~phone.late => \A e \in Sides : PairAgrees(ends[e], ends[Far(e)], wire[Far(e)], wire[e])
  BY <1>3, PairFacts
<1>5. QED  BY <1>1, <1>2, <1>3, <1>4

LEMMA SessionHearsStep ==
    ASSUME ClientCore, SessionHears
    PROVE  ClientCore'
<1> DEFINE order == Head(orders)
           s == ends["phone"]
           r == ends["desk"]
<1>1. /\ InSession /\ orders \in Seq(PhoneOrders) /\ orders # << >> /\ orders' = Tail(orders)
      /\ UNCHANGED <<wishes, desks, where>>
  BY CoreFacts DEF SessionHears, Elsewhere
<1>2. /\ orders' \in Seq(PhoneOrders) /\ order.kind \in {"mode", "path", "trust", "answer"}
      /\ order.kind = "mode" => order.what \in PhoneModes
      /\ order.kind = "path" => order.what \in PhonePaths
      /\ order.kind = "trust" => order.what \in SUBSET Desks
  BY <1>1, OrderFacts
<1>3. /\ EndsInv /\ phone \in PhoneRecords /\ "phone" \in Sides /\ Far("phone") = "desk"
      /\ s \in SideRecords /\ r \in SideRecords
      /\ wire \in [Sides -> Seq(PhoneFrames)]
      /\ wire["phone"] \in Seq(PhoneFrames) /\ wire["desk"] \in Seq(PhoneFrames)
      /\ ~phone.late => PairAgrees(s, r, wire["desk"], wire["phone"])
      /\ s.cap.local = phone.set.mode /\ s.path = phone.set.path
      /\ spare \in [{"wish", "desk", "link", "place", "session"} -> Nat]
      /\ phone.at = "session"
  BY <1>1, SessionFacts, FarFacts DEF InSession
<1>4. phone.how = "trusted" => phone.peer \in phone.trusted
  BY <1>1 DEF ClientCore, PeerIsRight, RightPeer
<1>5. \/ UNCHANGED <<phone, ends, wire, spare>>
      \/ order.kind = "trust" /\ Leaves([Over EXCEPT !.trusted = order.what])
      \/ order.kind = "trust" /\ ~Revokes(order.what) /\ Waiting(Followed(order))
      \/ /\ order.kind = "path" /\ phone' = Followed(order) /\ UNCHANGED spare
         /\ Turn("phone", [s EXCEPT !.path = order.what], << >>, wire)
      \/ /\ order.kind = "mode" /\ phone' = Followed(order) /\ UNCHANGED spare
         /\ Turn("phone", Reset("phone", order.what).end, Reset("phone", order.what).says, wire)
  BY DEF SessionHears
<1> HIDE DEF order, s, r
<1>6. CASE UNCHANGED <<phone, ends, wire, spare>>
  <2>1. EndsInv'
    BY <1>3, <1>6, EndsStay
  <2>2. QED  BY <1>1, <1>2, <1>3, <1>4, <1>6, <2>1, SessionMoves
<1>7. ASSUME order.kind = "trust", Leaves([Over EXCEPT !.trusted = order.what])
      PROVE  ClientCore'
  <2>1. PICK last \in PhoneRecords : last = Over
    BY <1>3, EndedFacts
  <2>2. last.at = "over" /\ last.radio = phone.radio /\ last.wanted = phone.wanted /\ last.id = phone.id
    BY <1>3, <2>1, EndedFacts
  <2>3. PICK list \in SUBSET Desks : list = order.what
    BY <1>2, <1>7
  <2>4. PICK now \in PhoneRecords :
           /\ now = [Over EXCEPT !.trusted = order.what] /\ now.at = "over" /\ now.radio = phone.radio
           /\ now.wanted = phone.wanted /\ now.id = phone.id
    <3>1. [last EXCEPT !.trusted = list] \in PhoneRecords
      BY DEF PhoneRecords
    <3>2. [last EXCEPT !.trusted = list] = [Over EXCEPT !.trusted = order.what]
      BY <2>1, <2>3
    <3>3. QED  BY <2>2, <3>1, <3>2 DEF PhoneRecords
  <2>5. now.wanted \in {NoDesk, now.id}
    BY <2>4, CoreFacts
  <2>6. Leaves(now)
    BY <1>7, <2>4
  <2>7. QED  BY <1>1, <1>2, <2>4, <2>5, <2>6, LeavesFacts
<1>8. ASSUME order.kind \in {"mode", "path", "trust"}
      PROVE  /\ Followed(order) \in PhoneRecords
             /\ Followed(order).at = phone.at /\ Followed(order).peer = phone.peer
             /\ Followed(order).how = phone.how /\ Followed(order).late = phone.late
             /\ Followed(order).radio = phone.radio /\ Followed(order).id = phone.id
             /\ Followed(order).wanted = phone.wanted
             /\ Followed(order).trusted = (IF order.kind = "trust" THEN order.what ELSE phone.trusted)
             /\ Followed(order).set = (IF order.kind = "trust" THEN phone.set
                                       ELSE Chosen(phone.set, order))
  BY <1>2, <1>3, <1>8, FollowedFacts
<1>9. ASSUME order.kind = "trust", ~Revokes(order.what), Waiting(Followed(order))
      PROVE  ClientCore'
  <2>1. phone' = Followed(order) /\ UNCHANGED <<ends, wire, spare>>
    BY <1>9 DEF Waiting
  <2>2. phone.peer \in phone.trusted => phone.peer \in order.what
    BY <1>9 DEF Revokes
  <2>3. EndsInv'
    BY <1>3, <1>8, <1>9, <2>1, EndsStay
  <2>4. phone.how = "trusted" => phone.peer \in phone'.trusted
    BY <1>4, <1>8, <1>9, <2>1, <2>2
  <2>5. QED  BY <1>1, <1>2, <1>3, <1>8, <1>9, <2>1, <2>3, <2>4, SessionMoves
<1>10. ASSUME order.kind = "path", phone' = Followed(order), UNCHANGED spare,
              Turn("phone", [s EXCEPT !.path = order.what], << >>, wire)
       PROVE  ClientCore'
  <2>1. PICK path \in PhonePaths : path = order.what
    BY <1>2, <1>10
  <2>2. PICK end \in SideRecords :
           /\ end = [s EXCEPT !.path = order.what] /\ end.cap = s.cap /\ end.primary = s.primary
           /\ end.said = s.said /\ end.heard = s.heard /\ end.path = order.what
    <3>1. [s EXCEPT !.path = path] \in SideRecords
      BY <1>3 DEF SideRecords
    <3>2. QED  BY <1>3, <2>1, <3>1 DEF SideRecords
  <2>3. /\ << >> \in Seq(PhoneFrames) /\ wire["desk"] \o << >> = wire["desk"]
    BY <1>3, EmptySeq, ConcatEmptySeq
  <2>4. ~phone.late => PairAgrees(end, r, wire["desk"] \o << >>, wire["phone"])
    BY <1>3, <2>2, <2>3, PairSame
  <2>5. Turn("phone", end, << >>, wire)
    BY <1>10, <2>2
  <2>6. /\ phone'.at = "session" /\ phone'.late = phone.late
        /\ end.cap.local = phone'.set.mode /\ end.path = phone'.set.path
    <3>1. phone'.set = Chosen(phone.set, order) /\ phone.set \in Settings
      BY <1>3, <1>8, <1>10 DEF PhoneRecords
    <3>2. phone'.set.mode = phone.set.mode /\ phone'.set.path = order.what
      BY <1>10, <2>1, <3>1, ChosenFacts
    <3>3. QED  BY <1>3, <1>8, <1>10, <2>2, <3>2
  <2>7. EndsInv'
    BY <1>1, <1>3, <2>3, <2>4, <2>5, <2>6, TurnInSession DEF r
  <2>8. QED  BY <1>1, <1>2, <1>3, <1>4, <1>8, <1>10, <2>6, <2>7, SessionMoves
<1>11. ASSUME order.kind = "mode", phone' = Followed(order), UNCHANGED spare,
              Turn("phone", Reset("phone", order.what).end, Reset("phone", order.what).says, wire)
       PROVE  ClientCore'
  <2>1. PICK mode \in PhoneModes : mode = order.what
    BY <1>2, <1>11
  <2>2. PICK end \in SideRecords, says \in Seq(PhoneFrames) :
           /\ end = Reset("phone", mode).end /\ says = Reset("phone", mode).says
           /\ end.cap.local = mode /\ end.path = s.path
           /\ PairAgrees(s, r, wire["desk"], wire["phone"])
              => PairAgrees(end, r, wire["desk"] \o says, wire["phone"])
    BY <1>3, ResetFacts DEF s
  <2>3. Turn("phone", end, says, wire)
    BY <1>11, <2>1, <2>2
  <2>4. ~phone.late => PairAgrees(end, r, wire["desk"] \o says, wire["phone"])
    BY <1>3, <2>2
  <2>5. /\ phone'.at = "session" /\ phone'.late = phone.late
        /\ end.cap.local = phone'.set.mode /\ end.path = phone'.set.path
    <3>1. phone'.set = Chosen(phone.set, order) /\ phone.set \in Settings
      BY <1>3, <1>8, <1>11 DEF PhoneRecords
    <3>2. phone'.set.path = phone.set.path /\ phone'.set.mode = order.what
      BY <1>11, <2>1, <3>1, ChosenFacts
    <3>3. QED  BY <1>3, <1>8, <1>11, <2>1, <2>2, <3>2
  <2>6. EndsInv'
    BY <1>1, <1>3, <2>3, <2>4, <2>5, TurnInSession DEF r
  <2>7. QED  BY <1>1, <1>2, <1>3, <1>4, <1>8, <1>11, <2>5, <2>6, SessionMoves
<1>12. QED  BY <1>5, <1>6, <1>7, <1>9, <1>10, <1>11

LEMMA TurnStep ==
    ASSUME ClientCore, InSession, UNCHANGED <<phone, orders, wishes, desks, where>>,
           spare' \in [{"wish", "desk", "link", "place", "session"} -> Nat],
           NEW e \in Sides, NEW end \in SideRecords, NEW sends \in Seq(PhoneFrames),
           NEW frames \in [Sides -> Seq(PhoneFrames)], Turn(e, end, sends, frames),
           ~phone.late => PairAgrees(end, ends[Far(e)], frames[Far(e)] \o sends, frames[e]),
           phone.late => frames["desk"] = wire["desk"],
           phone.late /\ e = "desk" => /\ end.cap.remoteGeneration = ends[e].cap.remoteGeneration
                                       /\ end.cap.remote = ends[e].cap.remote,
           e = "phone" => end.cap.local = ends[e].cap.local /\ end.path = ends[e].path
    PROVE  ClientCore'
<1>1. EndsInv /\ ends["phone"].cap.local = phone.set.mode /\ ends["phone"].path = phone.set.path
  BY SessionFacts
<1>2. /\ phone'.at = "session" /\ phone'.late = phone.late
      /\ phone'.set = phone.set
  BY DEF InSession
<1>3. IF e = "phone" THEN end.cap.local = phone'.set.mode /\ end.path = phone'.set.path
      ELSE phone'.set = phone.set
  BY <1>1, <1>2
<1>4. EndsInv'
  BY <1>1, <1>2, <1>3, TurnInSession
<1>5. QED  BY <1>4, PhoneStays

LEMMA DeskHearsStep ==
    ASSUME ClientCore, DeskHears
    PROVE  ClientCore'
<1> DEFINE d == ends["desk"]
           set == desks[phone.peer]
<1>1. /\ InSession /\ UNCHANGED <<phone, orders, wishes, desks, where, spare>>
  BY DEF DeskHears, Elsewhere
<1>2. /\ "desk" \in Sides /\ Far("desk") = "phone" /\ d \in SideRecords /\ ends["phone"] \in SideRecords
      /\ wire \in [Sides -> Seq(PhoneFrames)]
      /\ wire["phone"] \in Seq(PhoneFrames) /\ wire["desk"] \in Seq(PhoneFrames)
      /\ ~phone.late => PairAgrees(d, ends["phone"], wire["phone"], wire["desk"])
      /\ spare' \in [{"wish", "desk", "link", "place", "session"} -> Nat]
  BY <1>1, SessionFacts, FarFacts
<1>3. set.mode \in PhoneModes /\ set.path \in PhonePaths
  BY <1>1, SessionFacts, CoreFacts DEF Settings, PhoneModes, PhonePaths
<1>4. \/ Turn("desk", Reset("desk", set.mode).end, Reset("desk", set.mode).says, wire)
      \/ Turn("desk", [d EXCEPT !.path = set.path], << >>, wire)
  BY DEF DeskHears
<1> HIDE DEF d, set
<1>5. ASSUME Turn("desk", Reset("desk", set.mode).end, Reset("desk", set.mode).says, wire)
      PROVE  ClientCore'
  <2>1. PICK mode \in PhoneModes : mode = set.mode
    BY <1>3
  <2>2. PICK end \in SideRecords, says \in Seq(PhoneFrames) :
           /\ end = Reset("desk", mode).end /\ says = Reset("desk", mode).says
           /\ end.cap.remoteGeneration = d.cap.remoteGeneration /\ end.cap.remote = d.cap.remote
           /\ PairAgrees(d, ends["phone"], wire["phone"], wire["desk"])
              => PairAgrees(end, ends["phone"], wire["phone"] \o says, wire["desk"])
    BY <1>2, ResetFacts DEF d
  <2>3. Turn("desk", end, says, wire)
    BY <1>5, <2>1, <2>2
  <2>4. QED  BY <1>1, <1>2, <2>2, <2>3, TurnStep DEF d
<1>6. ASSUME Turn("desk", [d EXCEPT !.path = set.path], << >>, wire)
      PROVE  ClientCore'
  <2>1. PICK path \in PhonePaths : path = set.path
    BY <1>3
  <2>2. PICK end \in SideRecords :
           /\ end = [d EXCEPT !.path = path] /\ end.cap = d.cap /\ end.primary = d.primary
           /\ end.said = d.said /\ end.heard = d.heard
    <3>1. [d EXCEPT !.path = path] \in SideRecords
      BY <1>2 DEF SideRecords
    <3>2. QED  BY <1>2, <3>1 DEF SideRecords
  <2>3. /\ << >> \in Seq(PhoneFrames) /\ wire["phone"] \o << >> = wire["phone"]
    BY <1>2, EmptySeq, ConcatEmptySeq
  <2>4. ~phone.late => PairAgrees(end, ends["phone"], wire["phone"] \o << >>, wire["desk"])
    BY <1>2, <2>2, <2>3, PairSame
  <2>5. Turn("desk", end, << >>, wire)
    BY <1>6, <2>1, <2>2
  <2>6. QED  BY <1>1, <1>2, <2>2, <2>3, <2>4, <2>5, TurnStep DEF d
<1>7. QED  BY <1>4, <1>5, <1>6

LEMMA DeskRestartsStep ==
    ASSUME ClientCore, DeskRestarts
    PROVE  ClientCore'
<1> DEFINE d == ends["desk"]
<1>1. /\ InSession /\ UNCHANGED <<phone, orders, wishes, desks, where>> /\ Spends("desk")
      /\ Turn("desk", [d EXCEPT !.cap = BumpLocal(d.cap)], <<Update(BumpLocal(d.cap))>>, wire)
  BY DEF DeskRestarts, Elsewhere
<1>2. /\ "desk" \in Sides /\ Far("desk") = "phone" /\ d \in SideRecords /\ ends["phone"] \in SideRecords
      /\ d.cap \in Caps /\ wire \in [Sides -> Seq(PhoneFrames)]
      /\ wire["phone"] \in Seq(PhoneFrames) /\ wire["desk"] \in Seq(PhoneFrames)
      /\ ~phone.late => PairAgrees(d, ends["phone"], wire["phone"], wire["desk"])
  BY <1>1, SessionFacts, FarFacts
<1>3. spare' \in [{"wish", "desk", "link", "place", "session"} -> Nat]
  BY <1>1, SpendsFacts DEF ClientCore
<1> HIDE DEF d
<1>4. PICK c \in Caps : c = d.cap
  BY <1>2
<1>5. PICK n \in Nat : n = c.localGeneration + 1
  BY DEF Caps
<1>6. PICK cap \in Caps :
         /\ cap = BumpLocal(d.cap) /\ cap.localGeneration = d.cap.localGeneration + 1
         /\ cap.remoteGeneration = d.cap.remoteGeneration /\ cap.remote = d.cap.remote
  <2>1. [c EXCEPT !.localGeneration = n] \in Caps
    BY DEF Caps
  <2>2. BumpLocal(d.cap) = [c EXCEPT !.localGeneration = n]
    BY <1>4, <1>5 DEF BumpLocal, Caps
  <2>3. QED  BY <1>4, <1>5, <2>1, <2>2 DEF Caps
<1>7. PICK end \in SideRecords : end = [d EXCEPT !.cap = cap] /\ end.cap = cap
  <2>1. [d EXCEPT !.cap = cap] \in SideRecords
    BY <1>2 DEF SideRecords
  <2>2. QED  BY <1>2, <2>1 DEF SideRecords
<1>8. <<Update(cap)>> \in Seq(PhoneFrames)
  BY UpdateFacts, OnlyFrame
<1>9. ~phone.late => PairAgrees(end, ends["phone"], wire["phone"] \o <<Update(cap)>>, wire["desk"])
  BY <1>2, <1>6, <1>7, PairSaid
<1>10. Turn("desk", end, <<Update(cap)>>, wire)
  BY <1>1, <1>6, <1>7
<1>11. QED  BY <1>1, <1>2, <1>3, <1>6, <1>7, <1>8, <1>9, <1>10, TurnStep DEF d

LEMMA LinkTurnsStep ==
    ASSUME ClientCore, NEW e \in Sides, LinkTurns(e)
    PROVE  ClientCore'
<1> DEFINE s == ends[e]
           r == ends[Far(e)]
<1>1. /\ InSession /\ UNCHANGED <<phone, orders, wishes, desks, where>> /\ Spends("link")
      /\ Turn(e, [s EXCEPT !.second = ~@], << >>, wire)
  BY DEF LinkTurns, Elsewhere
<1>2. /\ s \in SideRecords /\ wire \in [Sides -> Seq(PhoneFrames)]
      /\ wire[Far(e)] \in Seq(PhoneFrames)
      /\ ~phone.late => PairAgrees(s, r, wire[Far(e)], wire[e])
  BY <1>1, SessionFacts
<1>3. spare' \in [{"wish", "desk", "link", "place", "session"} -> Nat]
  BY <1>1, SpendsFacts DEF ClientCore
<1> HIDE DEF s, r
<1>4. PICK b \in BOOLEAN : b = ~s.second
  OBVIOUS
<1>5. PICK end \in SideRecords :
         /\ end = [s EXCEPT !.second = ~@] /\ end.cap = s.cap /\ end.primary = s.primary
         /\ end.said = s.said /\ end.heard = s.heard /\ end.path = s.path
  <2>1. [s EXCEPT !.second = ~@] = [s EXCEPT !.second = b]
    BY <1>2, <1>4 DEF SideRecords
  <2>2. [s EXCEPT !.second = b] \in SideRecords
    BY <1>2 DEF SideRecords
  <2>3. QED  BY <1>2, <2>1, <2>2 DEF SideRecords
<1>6. /\ << >> \in Seq(PhoneFrames) /\ wire[Far(e)] \o << >> = wire[Far(e)]
  BY <1>2, EmptySeq, ConcatEmptySeq
<1>7. ~phone.late => PairAgrees(end, r, wire[Far(e)] \o << >>, wire[e])
  BY <1>2, <1>5, <1>6, PairSame
<1>8. Turn(e, end, << >>, wire)
  BY <1>1, <1>5
<1>9. QED  BY <1>1, <1>2, <1>3, <1>5, <1>6, <1>7, <1>8, TurnStep DEF s, r

\* What an end keeps of a frame is of its kind, and says nothing of its own settings.
LEMMA HeardTypes ==
    ASSUME NEW c \in Caps, NEW f \in PhoneFrames
    PROVE  /\ f.kind = "update" => /\ ApplyRemote(c, f.gen, f.text) \in Caps
                                   /\ ApplyRemote(c, f.gen, f.text).local = c.local
                                   /\ Frame("ack", f.gen, {}) \in PhoneFrames
           /\ f.kind = "ack" => /\ ApplyAck(c, f.gen) \in Caps
                                /\ ApplyAck(c, f.gen).local = c.local
           /\ f.kind = "links" => [gen |-> f.gen, text |-> f.text] \in Tellings
<1>1. f.gen \in Nat /\ f.kind \in {"update", "ack", "links"}
  BY FrameTypes
<1>2. ASSUME f.kind = "update"
      PROVE  /\ ApplyRemote(c, f.gen, f.text) \in Caps /\ ApplyRemote(c, f.gen, f.text).local = c.local
             /\ Frame("ack", f.gen, {}) \in PhoneFrames
  <2>1. PICK text \in PhoneModes : text = f.text
    BY <1>2, FrameTypes
  <2>2. PICK n \in Nat : n = f.gen
    BY <1>1
  <2>3. ApplyRemote(c, f.gen, f.text)
          = IF n = c.remoteGeneration THEN c ELSE [c EXCEPT !.remoteGeneration = n, !.remote = text]
    BY <2>1, <2>2 DEF ApplyRemote
  <2>4. /\ [c EXCEPT !.remoteGeneration = n, !.remote = text] \in Caps
        /\ [c EXCEPT !.remoteGeneration = n, !.remote = text].local = c.local
    BY DEF Caps
  <2>5. Frame("ack", f.gen, {}) \in PhoneFrames
    BY <1>1 DEF Frame, PhoneFrames, ModeFrames, PhoneModes
  <2>6. QED  BY <2>3, <2>4, <2>5
<1>3. ASSUME f.kind = "ack"
      PROVE  ApplyAck(c, f.gen) \in Caps /\ ApplyAck(c, f.gen).local = c.local
  <2>1. PICK n \in Nat : n = f.gen
    BY <1>1
  <2>2. ApplyAck(c, f.gen)
          = IF n = c.localGeneration THEN [c EXCEPT !.ackGeneration = n, !.ackLocal = c.local] ELSE c
    BY <2>1 DEF ApplyAck
  <2>3. /\ [c EXCEPT !.ackGeneration = n, !.ackLocal = c.local] \in Caps
        /\ [c EXCEPT !.ackGeneration = n, !.ackLocal = c.local].local = c.local
    BY DEF Caps
  <2>4. QED  BY <2>2, <2>3
<1>4. ASSUME f.kind = "links"
      PROVE  [gen |-> f.gen, text |-> f.text] \in Tellings
  BY <1>1, <1>4, FrameTypes DEF Tellings
<1>5. QED  BY <1>2, <1>3, <1>4

\* An end that takes a frame: what it becomes, and what it sends.
LEMMA AcceptsFacts ==
    ASSUME ClientCore, InSession, NEW e \in Sides, wire[e] # << >>,
           NEW f, f = Head(wire[e]), NEW frames, frames = [wire EXCEPT ![e] = Tail(@)],
           Accepts(e, f)
    PROVE  \E end \in SideRecords, says \in Seq(PhoneFrames) :
              /\ Turn(e, end, says, frames)
              /\ end.cap.local = ends[e].cap.local /\ end.path = ends[e].path
              /\ ~phone.late => PairAgrees(end, ends[Far(e)], wire[Far(e)] \o says, Tail(wire[e]))
<1> DEFINE s == ends[e]
           r == ends[Far(e)]
<1>1. /\ s \in SideRecords /\ r \in SideRecords /\ s.cap \in Caps
      /\ wire[Far(e)] \in Seq(PhoneFrames) /\ wire[e] \in Seq(PhoneFrames)
      /\ ~phone.late => PairAgrees(s, r, wire[Far(e)], wire[e])
  BY SessionFacts
<1>2. f \in PhoneFrames
  BY <1>1, FrameTaken
<1>3. \/ /\ f.kind = "update"
         /\ Turn(e, [s EXCEPT !.cap = ApplyRemote(s.cap, f.gen, f.text)],
                 IF e = "desk" \/ ApplyRemote(s.cap, f.gen, f.text) # s.cap
                 THEN <<Frame("ack", f.gen, {})>> ELSE << >>, frames)
      \/ f.kind = "ack" /\ Turn(e, [s EXCEPT !.cap = ApplyAck(s.cap, f.gen)], << >>, frames)
      \/ /\ f.kind = "links"
         /\ Turn(e, [s EXCEPT !.heard = IF f.gen > s.heard.gen THEN [gen |-> f.gen, text |-> f.text]
                                        ELSE s.heard], << >>, frames)
  <2>1. s.cap = ends[e].cap /\ s.heard = ends[e].heard
    OBVIOUS
  <2>2. /\ [ends[e] EXCEPT !.cap = ApplyAck(@, f.gen)] = [s EXCEPT !.cap = ApplyAck(s.cap, f.gen)]
        /\ [ends[e] EXCEPT !.heard = IF f.gen > @.gen THEN [gen |-> f.gen, text |-> f.text] ELSE @]
             = [s EXCEPT !.heard = IF f.gen > s.heard.gen THEN [gen |-> f.gen, text |-> f.text]
                                   ELSE s.heard]
    BY <1>1 DEF SideRecords
  <2>3. QED  BY <2>2 DEF Accepts
<1> HIDE DEF s, r
<1>4. << >> \in Seq(PhoneFrames) /\ wire[Far(e)] \o << >> = wire[Far(e)]
  BY <1>1, EmptySeq, ConcatEmptySeq
<1>5. ASSUME f.kind = "update",
             Turn(e, [s EXCEPT !.cap = ApplyRemote(s.cap, f.gen, f.text)],
                  IF e = "desk" \/ ApplyRemote(s.cap, f.gen, f.text) # s.cap
                  THEN <<Frame("ack", f.gen, {})>> ELSE << >>, frames)
      PROVE  \E end \in SideRecords, says \in Seq(PhoneFrames) :
                /\ Turn(e, end, says, frames)
                /\ end.cap.local = s.cap.local /\ end.path = s.path
                /\ ~phone.late => PairAgrees(end, r, wire[Far(e)] \o says, Tail(wire[e]))
  <2>1. PICK cap \in Caps : cap = ApplyRemote(s.cap, f.gen, f.text) /\ cap.local = s.cap.local
    BY <1>1, <1>2, <1>5, HeardTypes
  <2>2. PICK says \in Seq(PhoneFrames) :
           /\ says = IF e = "desk" \/ ApplyRemote(s.cap, f.gen, f.text) # s.cap
                     THEN <<Frame("ack", f.gen, {})>> ELSE << >>
    <3>1. <<Frame("ack", f.gen, {})>> \in Seq(PhoneFrames)
      BY <1>1, <1>2, <1>5, HeardTypes, OnlyFrame
    <3>2. QED  BY <1>4, <3>1
  <2>3. (says = << >> /\ cap = s.cap) \/ says = <<Frame("ack", f.gen, {})>>
    BY <2>1, <2>2
  <2>4. PICK end \in SideRecords : end = [s EXCEPT !.cap = cap] /\ end.cap = cap /\ end.path = s.path
    <3>1. [s EXCEPT !.cap = cap] \in SideRecords
      BY <1>1 DEF SideRecords
    <3>2. QED  BY <1>1, <3>1 DEF SideRecords
  <2>5. ASSUME ~phone.late
        PROVE  PairAgrees(end, r, wire[Far(e)] \o says, Tail(wire[e]))
    BY <1>1, <1>5, <2>1, <2>3, <2>4, <2>5, PairHeardUpdate
  <2>6. Turn(e, end, says, frames)
    BY <1>5, <2>1, <2>2, <2>4
  <2>7. QED  BY <2>1, <2>4, <2>5, <2>6
<1>6. ASSUME f.kind = "ack", Turn(e, [s EXCEPT !.cap = ApplyAck(s.cap, f.gen)], << >>, frames)
      PROVE  \E end \in SideRecords, says \in Seq(PhoneFrames) :
                /\ Turn(e, end, says, frames)
                /\ end.cap.local = s.cap.local /\ end.path = s.path
                /\ ~phone.late => PairAgrees(end, r, wire[Far(e)] \o says, Tail(wire[e]))
  <2>1. PICK cap \in Caps : cap = ApplyAck(s.cap, f.gen) /\ cap.local = s.cap.local
    BY <1>1, <1>2, <1>6, HeardTypes
  <2>2. PICK end \in SideRecords : end = [s EXCEPT !.cap = cap] /\ end.cap = cap /\ end.path = s.path
    <3>1. [s EXCEPT !.cap = cap] \in SideRecords
      BY <1>1 DEF SideRecords
    <3>2. QED  BY <1>1, <3>1 DEF SideRecords
  <2>3. ASSUME ~phone.late
        PROVE  PairAgrees(end, r, wire[Far(e)] \o << >>, Tail(wire[e]))
    BY <1>1, <1>4, <1>6, <2>1, <2>2, <2>3, PairHeardAck
  <2>4. Turn(e, end, << >>, frames)
    BY <1>6, <2>1, <2>2
  <2>5. QED  BY <1>4, <2>1, <2>2, <2>3, <2>4
<1>7. ASSUME f.kind = "links",
             Turn(e, [s EXCEPT !.heard = IF f.gen > s.heard.gen THEN [gen |-> f.gen, text |-> f.text]
                                         ELSE s.heard], << >>, frames)
      PROVE  \E end \in SideRecords, says \in Seq(PhoneFrames) :
                /\ Turn(e, end, says, frames)
                /\ end.cap.local = s.cap.local /\ end.path = s.path
                /\ ~phone.late => PairAgrees(end, r, wire[Far(e)] \o says, Tail(wire[e]))
  <2>1. PICK heard \in Tellings :
           heard = IF f.gen > s.heard.gen THEN [gen |-> f.gen, text |-> f.text] ELSE s.heard
    <3>1. [gen |-> f.gen, text |-> f.text] \in Tellings /\ s.heard \in Tellings
      BY <1>1, <1>2, <1>7, HeardTypes DEF SideRecords
    <3>2. QED  BY <3>1
  <2>2. PICK end \in SideRecords :
           end = [s EXCEPT !.heard = heard] /\ end.cap = s.cap /\ end.path = s.path
    <3>1. [s EXCEPT !.heard = heard] \in SideRecords
      BY <1>1 DEF SideRecords
    <3>2. QED  BY <1>1, <3>1 DEF SideRecords
  <2>3. ASSUME ~phone.late
        PROVE  PairAgrees(end, r, wire[Far(e)] \o << >>, Tail(wire[e]))
    BY <1>1, <1>4, <1>7, <2>1, <2>2, <2>3, PairHeardLinks
  <2>4. Turn(e, end, << >>, frames)
    BY <1>7, <2>1, <2>2
  <2>5. QED  BY <1>4, <2>2, <2>3, <2>4
<1>8. QED  BY <1>3, <1>5, <1>6, <1>7 DEF s, r

LEMMA ReceivesStep ==
    ASSUME ClientCore, NEW e \in Sides, Receives(e)
    PROVE  ClientCore'
<1>1. wire[e] # << >> /\ UNCHANGED <<orders, wishes, desks, where>>
  BY DEF Receives, Elsewhere
<1>2. InSession
  <2>1. NoFrames[e] = << >>
    BY DEF NoFrames, Sides
  <2>2. QED  BY <1>1, <2>1 DEF ClientCore, EndsInv, EndTypes
<1> DEFINE f == Head(wire[e])
           frames == [wire EXCEPT ![e] = Tail(@)]
<1>3. /\ ends[e] \in SideRecords /\ Far(e) \in Sides /\ phone \in PhoneRecords
      /\ wire \in [Sides -> Seq(PhoneFrames)] /\ ends \in [Sides -> SideRecords]
      /\ wire[e] \in Seq(PhoneFrames) /\ wire[Far(e)] \in Seq(PhoneFrames)
      /\ spare \in [{"wish", "desk", "link", "place", "session"} -> Nat]
  BY <1>2, SessionFacts
<1>4. Far(e) # e /\ (e = "phone" \/ e = "desk") /\ (e = "phone" => Far(e) = "desk")
  BY FarFacts
<1>5. Tail(wire[e]) \in Seq(PhoneFrames)
  BY <1>1, <1>3, FrameTaken
<1>6. /\ frames \in [Sides -> Seq(PhoneFrames)] /\ frames[e] = Tail(wire[e])
      /\ frames[Far(e)] = wire[Far(e)]
  BY <1>3, <1>4, <1>5
<1>7. \/ ~Refuses(e, f) /\ Accepts(e, f) /\ UNCHANGED <<phone, spare>>
      \/ Refuses(e, f) /\ Leaves(Ended)
      \/ /\ Refuses(e, f) /\ e = "phone" /\ Turn(e, ends[e], << >>, frames)
         /\ UNCHANGED <<phone, spare>>
  BY <1>4 DEF Receives
<1> HIDE DEF f, frames
<1>8. phone.late /\ e = "desk" => Refuses(e, f)
  <2>1. SUFFICES ASSUME phone.late, e = "desk"  PROVE Refuses(e, f)
    OBVIOUS
  <2>2. Stuck
    BY <1>2, <2>1, SessionFacts
  <2>3. f.kind = "update" /\ RemoteRefused(ends[e].cap, f.gen, f.text)
    BY <2>1, <2>2 DEF Stuck, RemoteRefused, f
  <2>4. QED  BY <2>3 DEF Refuses
<1>9. CASE Leaves(Ended)
  <2>1. orders' \in Seq(PhoneOrders) /\ phone.wanted \in {NoDesk, phone.id}
    BY <1>1, CoreFacts
  <2>2. QED  BY <1>1, <1>3, <1>9, <2>1, EndedFacts, LeavesFacts
<1>10. ASSUME ~Refuses(e, f), Accepts(e, f), UNCHANGED <<phone, spare>>
       PROVE  ClientCore'
  <2>1. PICK end \in SideRecords, says \in Seq(PhoneFrames) :
           /\ Turn(e, end, says, frames)
           /\ end.cap.local = ends[e].cap.local /\ end.path = ends[e].path
           /\ ~phone.late => PairAgrees(end, ends[Far(e)], wire[Far(e)] \o says, Tail(wire[e]))
    BY <1>1, <1>2, <1>10, AcceptsFacts DEF f, frames
  <2>2. phone.late => e = "phone" /\ frames["desk"] = wire["desk"]
    BY <1>4, <1>6, <1>8, <1>10
  <2>3. ~phone.late => PairAgrees(end, ends[Far(e)], frames[Far(e)] \o says, frames[e])
    BY <1>6, <2>1
  <2>4. QED  BY <1>1, <1>2, <1>3, <1>6, <1>10, <2>1, <2>2, <2>3, TurnStep
<1>11. ASSUME Refuses(e, f), e = "phone", Turn(e, ends[e], << >>, frames), UNCHANGED <<phone, spare>>
       PROVE  ClientCore'
  <2>1. phone.late
    <3>1. SUFFICES ASSUME ~phone.late  PROVE FALSE
      OBVIOUS
    <3>2. SidesAgree(ends, wire)
      BY <1>2, <3>1 DEF ClientCore, EndsInv, InSessionInv
    <3>3. QED  BY <1>1, <1>3, <1>11, <3>2, PairRefusesNothing DEF f
  <2>2. frames["desk"] = wire["desk"] /\ << >> \in Seq(PhoneFrames) /\ e # "desk"
    BY <1>4, <1>6, <1>11, EmptySeq
  <2>3. QED  BY <1>1, <1>2, <1>3, <1>6, <1>11, <2>1, <2>2, TurnStep
<1>12. QED  BY <1>7, <1>9, <1>10, <1>11

--------------------------------------------------------------------------------
(* The application, the desktops and the network.                          *)

\* Neither the client nor its session moves.
LEMMA OutsideStep ==
    ASSUME ClientCore, UNCHANGED <<phone, ends, wire>>,
           orders' \in Seq(PhoneOrders), wishes' \in Settings, desks' \in [Desks -> Settings],
           where' \in [DOMAIN where' -> SomeDesk], DOMAIN where' = DOMAIN where,
           spare' \in [{"wish", "desk", "link", "place", "session"} -> Nat]
    PROVE  ClientCore'
<1>1. EndsInv'
  BY EndsStay DEF ClientCore
<1>2. PhoneTypes'
  BY DEF ClientCore, PhoneTypes
<1>3. PeerIsRight'
  BY DEF ClientCore, PeerIsRight, RightPeer, InSession
<1>4. QED  BY <1>1, <1>2, <1>3 DEF ClientCore

LEMMA DeskSetStep ==
    ASSUME ClientCore, NEW d \in Desks, NEW settings \in Settings, DeskSet(d, settings)
    PROVE  ClientCore'
<1>1. spare' \in [{"wish", "desk", "link", "place", "session"} -> Nat]
  BY SpendsFacts DEF ClientCore, DeskSet
<1>2. /\ orders' \in Seq(PhoneOrders) /\ wishes' \in Settings /\ desks' \in [Desks -> Settings]
      /\ where' \in [DOMAIN where' -> SomeDesk] /\ DOMAIN where' = DOMAIN where
      /\ UNCHANGED <<phone, ends, wire>>
  BY CoreFacts DEF DeskSet
<1>3. QED  BY <1>1, <1>2, OutsideStep

LEMMA MoveStep ==
    ASSUME ClientCore, NEW place \in DOMAIN where, NEW d \in Desks \cup {NoDesk}, Move(place, d)
    PROVE  ClientCore'
<1>1. spare' \in [{"wish", "desk", "link", "place", "session"} -> Nat]
  BY SpendsFacts DEF ClientCore, Move
<1>2. /\ orders' \in Seq(PhoneOrders) /\ wishes' \in Settings /\ desks' \in [Desks -> Settings]
      /\ where' \in [DOMAIN where' -> SomeDesk] /\ DOMAIN where' = DOMAIN where
      /\ UNCHANGED <<phone, ends, wire>>
  BY CoreFacts DEF Move, SomeDesk
<1>3. QED  BY <1>1, <1>2, OutsideStep

\* The orders the application gives.
LEMMA GivenFacts ==
    ASSUME PhoneTypes
    PROVE  /\ \A mode \in {Both, {}} : Order("mode", mode) \in PhoneOrders
           /\ \A path \in {"auto", "lan"} : Order("path", path) \in PhoneOrders
           /\ \A list \in SUBSET Desks : Order("trust", list) \in PhoneOrders
           /\ \A answer \in {"no", "yes", "remember"} : Order("answer", answer) \in PhoneOrders
           /\ \A kind, what : Order(kind, what).kind = kind /\ Order(kind, what).what = what
<1>1. spare.session \in Nat
  BY DEF PhoneTypes
<1>2. QED  BY <1>1 DEF Order, PhoneOrders, PhoneModes, PhonePaths

LEMMA WishStep ==
    ASSUME ClientCore, NEW order \in PhoneOrders, Wish(order)
    PROVE  ClientCore'
<1>1. spare' \in [{"wish", "desk", "link", "place", "session"} -> Nat]
  <2>1. UNCHANGED spare \/ Spends("wish")
    BY DEF Wish
  <2>2. QED  BY <2>1, SpendsFacts DEF ClientCore, PhoneTypes
<1>2. /\ orders \in Seq(PhoneOrders) /\ wishes \in Settings /\ desks \in [Desks -> Settings]
      /\ where \in [DOMAIN where -> SomeDesk]
  BY CoreFacts
<1>3. orders' \in Seq(PhoneOrders)
  BY <1>2, AppendProperties DEF Wish
<1>4. wishes' \in Settings
  <2>1. /\ order.kind = "mode" => order.what \in PhoneModes
        /\ order.kind = "path" => order.what \in PhonePaths
    BY DEF PhoneOrders
  <2>2. wishes' = IF order.kind \in {"mode", "path"} THEN Chosen(wishes, order) ELSE wishes
    BY DEF Wish
  <2>3. QED  BY <1>2, <2>1, <2>2, ChosenFacts
<1>5. UNCHANGED <<phone, desks, where, ends, wire>>
  BY DEF Wish
<1>6. QED  BY <1>1, <1>2, <1>3, <1>4, <1>5, OutsideStep

--------------------------------------------------------------------------------
(* What was wished arrives.                                                *)

LEMMA CarriedStays ==
    ASSUME UNCHANGED <<orders, wishes>>, phone'.set = phone.set, OrdersCarry
    PROVE  OrdersCarry'
BY DEF OrdersCarry, Carried

LEMMA CarriedTaken ==
    ASSUME NEW kind, Carried(kind), orders \in Seq(PhoneOrders), orders # << >>,
           orders' = Tail(orders), UNCHANGED wishes,
           Head(orders).kind = kind => phone'.set[kind] = Head(orders).what,
           Head(orders).kind # kind => phone'.set[kind] = phone.set[kind]
    PROVE  Carried(kind)'
<1>1. /\ DOMAIN orders = 1 .. Len(orders) /\ DOMAIN orders' = 1 .. Len(orders) - 1
      /\ Len(orders) \in Nat \ {0} /\ Head(orders) = orders[1]
      /\ \A i \in 1 .. Len(orders) - 1 : orders'[i] = orders[i + 1]
  BY HeadTailProperties, EmptySeq, LenProperties
<1>2. ASSUME \A i \in DOMAIN orders : orders[i].kind # kind, phone.set[kind] = wishes[kind]
      PROVE  Carried(kind)'
  <2>1. \A i \in DOMAIN orders' : orders'[i].kind # kind
    BY <1>1, <1>2
  <2>2. phone'.set[kind] = wishes'[kind]
    BY <1>1, <1>2
  <2>3. QED  BY <2>1, <2>2 DEF Carried
<1>3. ASSUME NEW i \in DOMAIN orders, orders[i].kind = kind, orders[i].what = wishes[kind],
             \A j \in DOMAIN orders : i < j => orders[j].kind # kind
      PROVE  Carried(kind)'
  <2>1. CASE i = 1
    <3>1. \A j \in DOMAIN orders' : orders'[j].kind # kind
      BY <1>1, <1>3, <2>1
    <3>2. phone'.set[kind] = wishes'[kind]
      BY <1>1, <1>3, <2>1
    <3>3. QED  BY <3>1, <3>2 DEF Carried
  <2>2. CASE i # 1
    <3>1. i - 1 \in DOMAIN orders' /\ orders'[i - 1] = orders[i]
      BY <1>1, <2>2
    <3>2. \A j \in DOMAIN orders' : i - 1 < j => orders'[j].kind # kind
      BY <1>1, <1>3
    <3>3. QED  BY <1>3, <3>1, <3>2 DEF Carried
  <2>3. QED  BY <2>1, <2>2
<1>4. QED  BY <1>2, <1>3 DEF Carried

LEMMA CarriedGiven ==
    ASSUME NEW kind, Carried(kind), orders \in Seq(PhoneOrders), NEW order \in PhoneOrders,
           orders' = Append(orders, order), UNCHANGED phone,
           order.kind = kind => wishes'[kind] = order.what,
           order.kind # kind => wishes'[kind] = wishes[kind]
    PROVE  Carried(kind)'
<1>1. /\ DOMAIN orders = 1 .. Len(orders) /\ DOMAIN orders' = 1 .. Len(orders) + 1
      /\ Len(orders) \in Nat /\ orders'[Len(orders) + 1] = order
      /\ \A i \in 1 .. Len(orders) : orders'[i] = orders[i]
  BY AppendProperties, LenProperties
<1>2. CASE order.kind = kind
  <2>1. Len(orders) + 1 \in DOMAIN orders'
    BY <1>1
  <2>2. \A j \in DOMAIN orders' : ~(Len(orders) + 1 < j)
    BY <1>1
  <2>3. QED  BY <1>1, <1>2, <2>1, <2>2 DEF Carried
<1>3. CASE order.kind # kind
  <2>1. ASSUME \A i \in DOMAIN orders : orders[i].kind # kind, phone.set[kind] = wishes[kind]
        PROVE  Carried(kind)'
    <3>1. \A i \in DOMAIN orders' : orders'[i].kind # kind
      BY <1>1, <1>3, <2>1
    <3>2. phone'.set[kind] = wishes'[kind]
      BY <1>3, <2>1
    <3>3. QED  BY <3>1, <3>2 DEF Carried
  <2>2. ASSUME NEW i \in DOMAIN orders, orders[i].kind = kind, orders[i].what = wishes[kind],
               \A j \in DOMAIN orders : i < j => orders[j].kind # kind
        PROVE  Carried(kind)'
    <3>1. i \in DOMAIN orders' /\ orders'[i] = orders[i]
      BY <1>1
    <3>2. \A j \in DOMAIN orders' : i < j => orders'[j].kind # kind
      BY <1>1, <1>3, <2>2
    <3>3. QED  BY <1>3, <2>2, <3>1, <3>2 DEF Carried
  <2>3. QED  BY <2>1, <2>2 DEF Carried
<1>4. QED  BY <1>2, <1>3

\* A command that is read is followed, unless it is of another kind.
LEMMA CarriedHeard ==
    ASSUME OrdersCarry, orders \in Seq(PhoneOrders), orders # << >>, phone \in PhoneRecords,
           orders' = Tail(orders), UNCHANGED wishes,
           IF Head(orders).kind \in {"mode", "path"} THEN phone'.set = Chosen(phone.set, Head(orders))
           ELSE phone'.set = phone.set
    PROVE  OrdersCarry'
<1> DEFINE order == Head(orders)
<1>1. /\ order.kind = "mode" => order.what \in PhoneModes
      /\ order.kind = "path" => order.what \in PhonePaths
      /\ phone.set \in Settings
  BY OrderFacts DEF PhoneRecords
<1>2. /\ order.kind = "mode" => /\ Chosen(phone.set, order).mode = order.what
                                /\ Chosen(phone.set, order).path = phone.set.path
      /\ order.kind = "path" => /\ Chosen(phone.set, order).path = order.what
                                /\ Chosen(phone.set, order).mode = phone.set.mode
  BY <1>1, ChosenFacts
<1>3. Carried("mode")'
  <2>1. /\ order.kind = "mode" => phone'.set["mode"] = order.what
        /\ order.kind # "mode" => phone'.set["mode"] = phone.set["mode"]
    BY <1>2
  <2>2. Carried("mode")
    BY DEF OrdersCarry
  <2>3. QED  BY <2>1, <2>2, CarriedTaken
<1>4. Carried("path")'
  <2>1. /\ order.kind = "path" => phone'.set["path"] = order.what
        /\ order.kind # "path" => phone'.set["path"] = phone.set["path"]
    BY <1>2
  <2>2. Carried("path")
    BY DEF OrdersCarry
  <2>3. QED  BY <2>1, <2>2, CarriedTaken
<1>5. QED  BY <1>3, <1>4 DEF OrdersCarry

LEMMA WishCarries ==
    ASSUME ClientCore, OrdersCarry, NEW order \in PhoneOrders, Wish(order)
    PROVE  OrdersCarry'
<1>1. /\ orders' = Append(orders, order) /\ UNCHANGED phone
      /\ wishes' = IF order.kind \in {"mode", "path"} THEN Chosen(wishes, order) ELSE wishes
      /\ orders \in Seq(PhoneOrders) /\ wishes \in Settings
  BY CoreFacts DEF Wish
<1>2. /\ order.kind = "mode" => order.what \in PhoneModes
      /\ order.kind = "path" => order.what \in PhonePaths
  BY DEF PhoneOrders
<1>3. /\ order.kind = "mode" => wishes'.mode = order.what /\ wishes'.path = wishes.path
      /\ order.kind = "path" => wishes'.path = order.what /\ wishes'.mode = wishes.mode
      /\ order.kind \notin {"mode", "path"} => wishes' = wishes
  BY <1>1, <1>2, ChosenFacts
<1>4. Carried("mode")'
  <2>1. /\ order.kind = "mode" => wishes'["mode"] = order.what
        /\ order.kind # "mode" => wishes'["mode"] = wishes["mode"]
    BY <1>3
  <2>2. QED  BY <1>1, <2>1, CarriedGiven DEF OrdersCarry
<1>5. Carried("path")'
  <2>1. /\ order.kind = "path" => wishes'["path"] = order.what
        /\ order.kind # "path" => wishes'["path"] = wishes["path"]
    BY <1>3
  <2>2. QED  BY <1>1, <2>1, CarriedGiven DEF OrdersCarry
<1>6. QED  BY <1>4, <1>5 DEF OrdersCarry

\* What does not follow a command keeps the settings.
LEMMA SetStays ==
    ASSUME phone \in PhoneRecords, NEW now, "set" \in DOMAIN now, now.set = phone.set
    PROVE  /\ Waiting(now) => phone'.set = phone.set
           /\ Leaves(now) => phone'.set = phone.set
           /\ \A offer, theirs : Begins(now, offer, theirs) => phone'.set = phone.set
<1>1. ASSUME NEW offer, NEW theirs, Begins(now, offer, theirs)
      PROVE  phone'.set = phone.set
  <2>1. PICK b : phone' = [now EXCEPT !.at = "session", !.late = b]
    BY <1>1 DEF Begins
  <2>2. QED  BY <2>1
<1>2. QED  BY <1>1 DEF Waiting, Leaves

LEMMA DialsCarry ==
    ASSUME ClientCore, OrdersCarry,
           DialTrusted \/ DialBootstrap \/ DialBluetooth \/ ClientStops \/ SessionFails
    PROVE  OrdersCarry'
<1>1. phone \in PhoneRecords /\ "set" \in DOMAIN phone
  BY CoreFacts DEF PhoneRecords
<1>2. UNCHANGED <<orders, wishes>>
  BY DEF DialTrusted, DialBootstrap, DialBluetooth, ClientStops, SessionFails, Elsewhere
<1>3. /\ "set" \in DOMAIN Ended /\ Ended.set = phone.set /\ "set" \in DOMAIN Over /\ Over.set = phone.set
  BY <1>1, EndedFacts DEF PhoneRecords
<1>4. CASE DialTrusted
  <2>1. PICK dialed \in Dials :
           \/ Waiting([[phone EXCEPT !.addresses = dialed[2]] EXCEPT !.at = "bootstrap"])
           \/ Begins([[phone EXCEPT !.addresses = dialed[2]] EXCEPT !.how = "trusted", !.peer = Entry],
                     phone.set.mode, desks[Entry].mode)
    BY <1>4 DEF DialTrusted
  <2>2. /\ "set" \in DOMAIN [[phone EXCEPT !.addresses = dialed[2]] EXCEPT !.at = "bootstrap"]
        /\ [[phone EXCEPT !.addresses = dialed[2]] EXCEPT !.at = "bootstrap"].set = phone.set
        /\ "set" \in DOMAIN [[phone EXCEPT !.addresses = dialed[2]] EXCEPT !.how = "trusted", !.peer = Entry]
        /\ [[phone EXCEPT !.addresses = dialed[2]] EXCEPT !.how = "trusted", !.peer = Entry].set = phone.set
    BY <1>1
  <2>3. phone'.set = phone.set
    BY <1>1, <2>1, <2>2, SetStays
  <2>4. QED  BY <1>2, <2>3, CarriedStays
<1>5. CASE DialBootstrap
  <2>1. \/ Waiting(Ended)
        \/ \E dialed \in Dials :
              Waiting([phone EXCEPT !.at = "prompt", !.peer = dialed[1], !.addresses = dialed[2]])
    BY <1>5 DEF DialBootstrap
  <2>2. \A d, places : /\ "set" \in DOMAIN [phone EXCEPT !.at = "prompt", !.peer = d, !.addresses = places]
                       /\ [phone EXCEPT !.at = "prompt", !.peer = d, !.addresses = places].set = phone.set
    BY <1>1
  <2>3. phone'.set = phone.set
    BY <1>1, <1>3, <2>1, <2>2, SetStays
  <2>4. QED  BY <1>2, <2>3, CarriedStays
<1>6. CASE DialBluetooth
  <2> DEFINE d == where[phone.radio]
             now == [phone EXCEPT !.peer = d, !.offer = phone.set.mode, !.theirs = desks[d].mode]
  <2>1. \/ Leaves(Over)
        \/ Begins([now EXCEPT !.how = "trusted"], now.offer, now.theirs)
        \/ Waiting([now EXCEPT !.at = "asked"])
    BY <1>6 DEF DialBluetooth
  <2>2. "set" \in DOMAIN now /\ now.set = phone.set
    BY <1>1
  <2> HIDE DEF now
  <2>3. /\ "set" \in DOMAIN [now EXCEPT !.how = "trusted"] /\ [now EXCEPT !.how = "trusted"].set = phone.set
        /\ "set" \in DOMAIN [now EXCEPT !.at = "asked"] /\ [now EXCEPT !.at = "asked"].set = phone.set
    BY <2>2
  <2>4. phone'.set = phone.set
    BY <1>1, <1>3, <2>1, <2>3, SetStays
  <2>5. QED  BY <1>2, <2>4, CarriedStays
<1>7. CASE ClientStops \/ SessionFails
  <2>1. Leaves(Over) \/ Leaves(Ended)
    BY <1>7 DEF ClientStops, SessionFails
  <2>2. phone'.set = phone.set
    BY <1>1, <1>3, <2>1, SetStays
  <2>3. QED  BY <1>2, <2>2, CarriedStays
<1>8. QED  BY <1>4, <1>5, <1>6, <1>7

LEMMA HearsCarry ==
    ASSUME ClientCore, OrdersCarry, PromptHears \/ SessionHears
    PROVE  OrdersCarry'
<1> DEFINE order == Head(orders)
<1>1. /\ phone \in PhoneRecords /\ "set" \in DOMAIN phone /\ orders \in Seq(PhoneOrders)
      /\ orders # << >> /\ orders' = Tail(orders) /\ UNCHANGED wishes
  BY CoreFacts DEF PromptHears, SessionHears, Elsewhere, PhoneRecords
<1>2. /\ order.kind \in {"mode", "path", "trust", "answer"}
      /\ order.kind = "mode" => order.what \in PhoneModes
      /\ order.kind = "path" => order.what \in PhonePaths
      /\ order.kind = "trust" => order.what \in SUBSET Desks
  BY <1>1, OrderFacts
<1>3. /\ "set" \in DOMAIN Over /\ Over.set = phone.set
  BY <1>1, EndedFacts DEF PhoneRecords
<1>4. CASE PromptHears
  <2>1. \/ order.kind # "answer" /\ Waiting(Followed(order))
        \/ /\ order.kind = "answer"
           /\ \/ Waiting(phone)
              \/ Leaves(Over)
              \/ \E trusts \in BOOLEAN : Begins(Paired(trusts, "pin"), phone.set.mode, desks[phone.peer].mode)
              \/ Begins([Paired(order.what = "remember", "asked")
                           EXCEPT !.id = phone.peer, !.wanted = IF @ = NoDesk THEN phone.peer ELSE @],
                        phone.offer, phone.theirs)
    <3>1. order = Order("answer", order.what) => order.kind = "answer"
      BY DEF Order
    <3>2. QED  BY <1>4, <3>1 DEF PromptHears
  <2>2. CASE order.kind # "answer" /\ Waiting(Followed(order))
    <3>1. phone' = Followed(order)
      BY <2>2 DEF Waiting
    <3>2. IF order.kind \in {"mode", "path"} THEN phone'.set = Chosen(phone.set, order)
          ELSE phone'.set = phone.set
      BY <1>1, <1>2, <2>2, <3>1, FollowedFacts
    <3>3. QED  BY <1>1, <3>2, CarriedHeard
  <2>3. ASSUME order.kind = "answer",
               \/ Waiting(phone)
               \/ Leaves(Over)
               \/ \E trusts \in BOOLEAN : Begins(Paired(trusts, "pin"), phone.set.mode, desks[phone.peer].mode)
               \/ Begins([Paired(order.what = "remember", "asked")
                            EXCEPT !.id = phone.peer, !.wanted = IF @ = NoDesk THEN phone.peer ELSE @],
                         phone.offer, phone.theirs)
        PROVE  OrdersCarry'
    <3>1. ASSUME NEW trusts \in BOOLEAN, NEW how
          PROVE  "set" \in DOMAIN Paired(trusts, how) /\ Paired(trusts, how).set = phone.set
      BY <1>1 DEF Paired
    <3>2. PICK b \in BOOLEAN : b = (order.what = "remember")
      OBVIOUS
    <3>3. PICK paired : paired = Paired(b, "asked")
      OBVIOUS
    <3>4. "set" \in DOMAIN paired /\ paired.set = phone.set
      BY <3>1, <3>3
    <3>5. /\ "set" \in DOMAIN [paired EXCEPT !.id = phone.peer, !.wanted = IF @ = NoDesk THEN phone.peer ELSE @]
          /\ [paired EXCEPT !.id = phone.peer, !.wanted = IF @ = NoDesk THEN phone.peer ELSE @].set = phone.set
      BY <3>4
    <3>6. paired = Paired(order.what = "remember", "asked")
      BY <3>2, <3>3
    <3>7. phone'.set = phone.set
      <4>1. CASE Waiting(phone) \/ Leaves(Over)
        BY <1>1, <1>3, <4>1, SetStays
      <4>2. ASSUME NEW trusts \in BOOLEAN,
                   Begins(Paired(trusts, "pin"), phone.set.mode, desks[phone.peer].mode)
            PROVE  phone'.set = phone.set
        BY <1>1, <3>1, <4>2, SetStays
      <4>3. CASE Begins([paired EXCEPT !.id = phone.peer, !.wanted = IF @ = NoDesk THEN phone.peer ELSE @],
                        phone.offer, phone.theirs)
        BY <1>1, <3>5, <4>3, SetStays
      <4>4. QED  BY <2>3, <3>6, <4>1, <4>2, <4>3
    <3>8. QED  BY <1>1, <2>3, <3>7, CarriedHeard
  <2>4. QED  BY <2>1, <2>2, <2>3
<1>5. CASE SessionHears
  <2>1. \/ order.kind = "answer" /\ UNCHANGED phone
        \/ order.kind = "trust" /\ Leaves([Over EXCEPT !.trusted = order.what])
        \/ order.kind \in {"mode", "path", "trust"} /\ phone' = Followed(order)
    BY <1>5 DEF SessionHears, Waiting
  <2>2. CASE order.kind \in {"mode", "path", "trust"} /\ phone' = Followed(order)
    <3>1. IF order.kind \in {"mode", "path"} THEN phone'.set = Chosen(phone.set, order)
          ELSE phone'.set = phone.set
      BY <1>1, <1>2, <2>2, FollowedFacts
    <3>2. QED  BY <1>1, <3>1, CarriedHeard
  <2>3. CASE order.kind = "trust" /\ Leaves([Over EXCEPT !.trusted = order.what])
    <3>1. PICK last : last = Over
      OBVIOUS
    <3>2. /\ "set" \in DOMAIN [last EXCEPT !.trusted = order.what]
          /\ [last EXCEPT !.trusted = order.what].set = phone.set
      BY <1>3, <3>1
    <3>3. phone'.set = phone.set
      BY <1>1, <2>3, <3>1, <3>2, SetStays
    <3>4. QED  BY <1>1, <2>3, <3>3, CarriedHeard
  <2>4. CASE order.kind = "answer" /\ UNCHANGED phone
    BY <1>1, <2>4, CarriedHeard
  <2>5. QED  BY <2>1, <2>2, <2>3, <2>4
<1>6. QED  BY <1>4, <1>5

LEMMA TurnsCarry ==
    ASSUME ClientCore, OrdersCarry, NEW e \in Sides,
           Receives(e) \/ LinkTurns(e) \/ DeskHears \/ DeskRestarts
    PROVE  OrdersCarry'
<1>1. /\ phone \in PhoneRecords /\ "set" \in DOMAIN Ended /\ Ended.set = phone.set
  BY CoreFacts, EndedFacts DEF PhoneRecords
<1>2. /\ UNCHANGED <<orders, wishes>> /\ (UNCHANGED phone \/ Leaves(Ended))
  BY DEF Receives, LinkTurns, DeskHears, DeskRestarts, Elsewhere
<1>3. phone'.set = phone.set
  BY <1>1, <1>2, SetStays
<1>4. QED  BY <1>2, <1>3, CarriedStays

--------------------------------------------------------------------------------
(* The client.                                                             *)

LEMMA ClientBegins ==
    ASSUME ClientInit
    PROVE  ClientInv
<1>1. PICK t \in Targets :
         /\ phone = [at |-> "idle", how |-> "none", peer |-> NoDesk, offer |-> {}, theirs |-> {},
                     late |-> FALSE, set |-> Plain, trusted |-> t.trusted, wanted |-> t.id, id |-> t.id,
                     addresses |-> t.addresses, radio |-> t.radio]
         /\ wishes = Plain /\ orders = << >>
         /\ desks = [d \in Desks |-> Plain] /\ where = t.where
         /\ ends = NoEnds /\ wire = NoFrames
         /\ spare = t.spare
  BY DEF ClientInit
<1>2. Plain \in Settings
  BY DEF Plain, Settings, Both
<1>3. /\ t.id \in Desks \cup {NoDesk} /\ t.trusted \subseteq Desks
      /\ t.addresses \subseteq Lan /\ Lan \subseteq DOMAIN t.where
      /\ t.where \in [DOMAIN t.where -> Desks \cup {NoDesk}]
      /\ t.radio \in DOMAIN t.where \cup {NoDesk}
      /\ t.spare \in [{"wish", "desk", "link", "place", "session"} -> Nat]
  BY ClientSessionAssumption
<1>4. phone \in PhoneRecords
  <2>1. {} \in PhoneModes /\ t.radio \in {x.radio : x \in Targets}
    BY DEF PhoneModes
  <2>2. QED  BY <1>1, <1>2, <1>3, <2>1 DEF PhoneRecords, SomeDesk
<1>5. /\ phone.at = "idle" /\ phone.radio = t.radio /\ phone.set = Plain
      /\ phone.wanted = t.id /\ phone.id = t.id
  BY <1>1
<1>6. PhoneTypes
  BY <1>1, <1>2, <1>3, <1>4, <1>5, EmptySeq DEF PhoneTypes, SomeDesk
<1>7. EndTypes /\ InSessionInv
  <2>1. NoFrames \in [Sides -> Seq(PhoneFrames)]
    BY EmptySeq DEF NoFrames, Sides
  <2>2. QED  BY <1>1, <1>5, <2>1 DEF EndTypes, InSessionInv, InSession
<1>8. OrdersCarry
  <2>1. \A i \in DOMAIN orders : FALSE
    BY <1>1, EmptySeq
  <2>2. QED  BY <1>1, <1>5, <2>1 DEF OrdersCarry, Carried
<1>9. PeerIsRight
  BY <1>5 DEF PeerIsRight, RightPeer, InSession
<1>10. QED  BY <1>6, <1>7, <1>8, <1>9 DEF ClientInv

LEMMA ClientMoves ==
    ASSUME ClientInv, [ClientNext]_clientVars
    PROVE  ClientInv'
<1>1. ClientCore /\ OrdersCarry
  BY DEF ClientInv, ClientCore, EndsInv
<1>2. SUFFICES ClientCore' /\ OrdersCarry'
  BY DEF ClientInv, ClientCore, EndsInv
<1>3. CASE UNCHANGED clientVars
  <2>1. /\ UNCHANGED <<phone, ends, wire, orders, wishes, desks, where, spare>>
    BY <1>3 DEF clientVars
  <2>2. /\ orders' \in Seq(PhoneOrders) /\ wishes' \in Settings /\ desks' \in [Desks -> Settings]
        /\ where' \in [DOMAIN where' -> SomeDesk] /\ DOMAIN where' = DOMAIN where
        /\ spare' \in [{"wish", "desk", "link", "place", "session"} -> Nat]
    BY <1>1, <2>1, CoreFacts DEF ClientCore, PhoneTypes
  <2>3. QED  BY <1>1, <2>1, <2>2, OutsideStep, CarriedStays
<1>4. ASSUME NEW order \in PhoneOrders, Wish(order)
      PROVE  ClientCore' /\ OrdersCarry'
  BY <1>1, <1>4, WishStep, WishCarries
<1>5. ASSUME NEW d \in Desks, NEW settings \in Settings, DeskSet(d, settings)
      PROVE  ClientCore' /\ OrdersCarry'
  <2>1. UNCHANGED <<phone, orders, wishes>>
    BY <1>5 DEF DeskSet
  <2>2. QED  BY <1>1, <1>5, <2>1, DeskSetStep, CarriedStays
<1>6. ASSUME NEW place \in DOMAIN where, NEW d \in Desks \cup {NoDesk}, Move(place, d)
      PROVE  ClientCore' /\ OrdersCarry'
  <2>1. UNCHANGED <<phone, orders, wishes>>
    BY <1>6 DEF Move
  <2>2. QED  BY <1>1, <1>6, <2>1, MoveStep, CarriedStays
<1>7. CASE DialTrusted \/ DialBootstrap \/ DialBluetooth \/ ClientStops \/ SessionFails
  BY <1>1, <1>7, DialsCarry, DialTrustedStep, DialBootstrapStep, DialBluetoothStep, FailsStep
<1>8. CASE PromptHears \/ SessionHears
  BY <1>1, <1>8, HearsCarry, PromptHearsStep, SessionHearsStep
<1>9. ASSUME NEW e \in Sides, Receives(e) \/ LinkTurns(e) \/ DeskHears \/ DeskRestarts
      PROVE  ClientCore' /\ OrdersCarry'
  BY <1>1, <1>9, TurnsCarry, ReceivesStep, LinkTurnsStep, DeskHearsStep, DeskRestartsStep
<1>10. ASSUME ClientNext
       PROVE  ClientCore' /\ OrdersCarry'
  <2>1. \/ \E order \in PhoneOrders : Wish(order)
        \/ \E d \in Desks, settings \in Settings : DeskSet(d, settings)
        \/ \E place \in DOMAIN where, d \in Desks \cup {NoDesk} : Move(place, d)
        \/ (DialTrusted \/ DialBootstrap \/ DialBluetooth \/ ClientStops \/ SessionFails)
        \/ (PromptHears \/ SessionHears)
        \/ \E e \in Sides : (Receives(e) \/ LinkTurns(e) \/ DeskHears \/ DeskRestarts)
    BY <1>1, <1>10, GivenFacts DEF ClientNext, ClientCore, Sides
  <2>2. QED  BY <1>4, <1>5, <1>6, <1>7, <1>8, <1>9, <2>1
<1>11. QED  BY <1>3, <1>10

\* The invariant holds of every target and every number of desktops.
LEMMA ClientInvHolds == ClientSpec => []ClientInv
<1>1. ClientInit => ClientInv
  BY ClientBegins
<1>2. ClientInv /\ [ClientNext]_clientVars => ClientInv'
  BY ClientMoves
<1>3. QED  BY <1>1, <1>2, PTL DEF ClientSpec

LEMMA PhoneArrives ==
    ASSUME ClientInv
    PROVE  PhoneIsTrue
<1>1. /\ phone \in PhoneRecords /\ PhoneTypes /\ EndTypes /\ InSessionInv /\ OrdersCarry /\ RightPeer
  BY DEF ClientInv, PhoneTypes, PeerIsRight
<1>2. NothingRefused
  <2>1. SUFFICES ASSUME InSession, ~phone.late, NEW e \in DOMAIN wire, wire[e] # << >>
                 PROVE  ~Refuses(e, Head(wire[e]))
    BY DEF NothingRefused
  <2>2. /\ ends \in [Sides -> SideRecords] /\ wire \in [Sides -> Seq(PhoneFrames)] /\ e \in Sides
    BY <1>1, <2>1 DEF EndTypes
  <2>3. SidesAgree(ends, wire)
    BY <1>1, <2>1 DEF InSessionInv
  <2>4. QED  BY <2>1, <2>2, <2>3, PairRefusesNothing
<1>3. SettingsArrive
  <2>1. SUFFICES ASSUME InSession, orders = << >>, wire = NoFrames
                 PROVE  /\ ends["phone"].cap.local = wishes.mode /\ ends["phone"].path = wishes.path
                        /\ \A e \in DOMAIN ends :
                              /\ ends[e].cap.remote = ends[Far(e)].cap.local
                              /\ IsAcknowledged(ends[e].cap)
                              /\ ends[e].heard.text = [links |-> Available(ends[Far(e)]),
                                                       path |-> ends[Far(e)].path]
    BY DEF SettingsArrive
  <2>2. \A e \in Sides : wire[e] = << >>
    BY <2>1 DEF NoFrames, Sides
  <2>3. ends \in [Sides -> SideRecords] /\ ~phone.late
    BY <1>1, <2>1, <2>2 DEF EndTypes, InSessionInv, Stuck, Sides
  <2>4. /\ SidesAgree(ends, wire) /\ \A e \in Sides : ToldOf(ends[e])
        /\ ends["phone"].cap.local = phone.set.mode /\ ends["phone"].path = phone.set.path
    BY <1>1, <2>1, <2>3 DEF InSessionInv
  <2>5. phone.set.mode = wishes.mode /\ phone.set.path = wishes.path
    <3>1. \A i \in DOMAIN orders : FALSE
      BY <2>1, EmptySeq
    <3>2. QED  BY <1>1, <3>1 DEF OrdersCarry, Carried
  <2>6. ASSUME NEW e \in Sides
        PROVE  /\ ends[e].cap.remote = ends[Far(e)].cap.local /\ IsAcknowledged(ends[e].cap)
               /\ ends[e].heard.text = [links |-> Available(ends[Far(e)]), path |-> ends[Far(e)].path]
    <3> DEFINE s == ends[e]
               r == ends[Far(e)]
    <3>1. /\ s \in SideRecords /\ r \in SideRecords /\ Far(e) \in Sides
      BY <2>3, FarFacts
    <3>2. PairAgrees(s, r, << >>, << >>) /\ ToldOf(r)
      BY <2>2, <2>4, <3>1, PairFacts
    <3> HIDE DEF s, r
    <3>3. \A kind : \A i \in Of(kind, << >>) : FALSE
      BY EmptySeq DEF Of
    <3>4. /\ s.cap.localGeneration \in Nat /\ s.cap.remoteGeneration \in Nat
          /\ r.cap.localGeneration \in Nat /\ r.cap.remoteGeneration \in Nat
          /\ s.heard.gen \in Nat /\ r.said.gen \in Nat
      BY <3>1 DEF SideRecords, Caps, Tellings
    <3>5. ModeWay(r.cap, s.cap, << >>, << >>) /\ ModeWay(s.cap, r.cap, << >>, << >>) /\ LinkWay(r, s, << >>)
      BY <3>2 DEF PairAgrees
    <3>6. s.cap.remote = r.cap.local
      BY <3>3, <3>4, <3>5 DEF ModeWay
    <3>7. s.cap.ackGeneration = s.cap.localGeneration
      BY <3>3, <3>4, <3>5 DEF ModeWay
    <3>8. s.heard.text = r.said.text
      BY <3>3, <3>4, <3>5 DEF LinkWay
    <3>9. QED  BY <3>2, <3>6, <3>7, <3>8 DEF ToldOf, IsAcknowledged, s, r
  <2>7. QED  BY <2>3, <2>4, <2>5, <2>6
<1>4. QED  BY <1>1, <1>2, <1>3 DEF PhoneIsTrue

\* Whatever the application, the desktops and the network do, neither end of a session of the
\* phone (client.rs, app.rs) refuses what the other one says of its modes, links and policies;
\* when nothing is on its way both have what was set last, and the session is with the device
\* that was wanted and lasts no longer than the trust it began by.
THEOREM PhoneStaysTrue == ClientSpec => []PhoneIsTrue
<1>1. ClientInv => PhoneIsTrue
  BY PhoneArrives
<1>2. QED  BY <1>1, ClientInvHolds, PTL

\* The client is somewhere, knows no device but the desktops, and trusts no other.
THEOREM ClientTyped == ClientSpec => []ClientTypeOK
<1>1. ClientInv => ClientTypeOK
  BY DEF ClientInv, PhoneTypes, PhoneRecords, ClientTypeOK, SomeDesk
<1>2. QED  BY <1>1, ClientInvHolds, PTL
=============================================================================
