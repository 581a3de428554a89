---------------------------- MODULE InputService ----------------------------
(***************************************************************************)
(* The service of Windows that starts input agents as SYSTEM               *)
(* (src/input/platform/windows/service/): its process with the one pipe it *)
(* serves, the commands that install, restart and uninstall it with        *)
(* elevated rights, and the program that asks for agents and orders those  *)
(* commands, from a click and from the automatic recovery at once.  The    *)
(* service manager, the console sessions and the prompts for elevation are *)
(* outside the program.  How an agent and the program introduce themselves *)
(* is in AgentHandshake.                                                   *)
(***************************************************************************)
EXTENDS Naturals

CONSTANT Situations \* what the program may find when it starts, with its bounds

Requesters == {"user", "auto"}
Askers == Requesters \cup {"button"}
Here == "here"      \* the path of the program's own executable
AppSession == 1

\* Requests of the user, uninstalls, changes of the console, faults, and waits that end.
Bounded == {"requests", "uninstalls", "switches", "faults", "timeouts"}

ASSUME ServiceAssumption ==
    Situations \subseteq [path : STRING, running : BOOLEAN, stale : BOOLEAN, landed : BOOLEAN,
                         shared : BOOLEAN, spare : [Bounded -> Nat]]

VARIABLES
    scm,      \* the service manager: the path registered, and the state reported
    proc,     \* the process of the service, and what its one pipe is doing
    agents,   \* the agents that run as SYSTEM
    console,  \* the session at the console, 0 for none
    app,      \* the flags of the program, and its agent
    request,  \* request_elevation, by who asked
    elevated, \* the command run with elevated rights, by who asked
    spare     \* what remains of the bounds

serviceVars == <<scm, proc, agents, console, app, request, elevated, spare>>

Draw(what) == spare[what] > 0 /\ spare' = [spare EXCEPT ![what] = @ - 1]

NoProc == [at |-> "none", gen |-> 0, path |-> "none", stale |-> FALSE, stop |-> FALSE,
           session |-> 0, client |-> "none"]
NoCommand == [cmd |-> "none", at |-> "none", was |-> 0, ok |-> FALSE]
NoRequest == [at |-> "idle", reply |-> "none", answered |-> 0, again |-> FALSE]

Installed == scm.path # "none"
Available == Installed /\ scm.state = "running"

-----------------------------------------------------------------------------
(* The process of the service: service_main and service_accept_loop.       *)

ProcUnchanged == UNCHANGED <<app, request, elevated>>

\* StartServiceW, as the service manager does it: never beside an older process.
Starts == scm.state = "stopped" /\ proc.at = "none"

ServiceRuns ==
    /\ proc.at = "starting"
    /\ proc' = [proc EXCEPT !.at = "top"] /\ scm' = [scm EXCEPT !.state = "running"]
    /\ UNCHANGED <<agents, console, spare>> /\ ProcUnchanged

\* A round of the loop: the console session is read, and a pipe is made for its user.
Listen ==
    /\ proc.at = "top" /\ ~proc.stop /\ console # 0
    /\ proc' = [proc EXCEPT !.at = "listening", !.session = console]
    /\ UNCHANGED <<scm, agents, console, spare>> /\ ProcUnchanged

\* Mutant: the agents are left to the end of the process.
EndLoopLeaving ==
    /\ proc.at = "top" /\ proc.stop
    /\ proc' = [proc EXCEPT !.at = "leaving"]
    /\ scm' = [scm EXCEPT !.state = "stopped"]
    /\ UNCHANGED <<agents, console, spare>> /\ ProcUnchanged

\* The loop ends when stop was asked for; the jobs are closed before that is reported.
EndLoop ==
    /\ proc.at = "top" /\ proc.stop
    /\ proc' = [proc EXCEPT !.at = "leaving"]
    /\ agents' = {a \in agents : ~a.job} /\ scm' = [scm EXCEPT !.state = "stopped"]
    /\ UNCHANGED <<console, spare>> /\ ProcUnchanged

ProcessGone ==
    /\ proc.at = "leaving" /\ proc' = [proc EXCEPT !.at = "none"]
    /\ agents' = {a \in agents : ~a.job}
    /\ UNCHANGED <<scm, console, spare>> /\ ProcUnchanged

\* Nobody connected within three seconds; one who did at the last moment is dropped.
ListenEnds ==
    /\ proc.at \in {"listening", "serving"}
    /\ proc.at = "serving" => request[proc.client].at = "connected"
    /\ proc' = [proc EXCEPT !.at = "top", !.client = "none"]
    /\ UNCHANGED <<scm, agents, console, spare>> /\ ProcUnchanged

\* validate_client: the same executable, in the session the pipe was made for.
Refusal == IF proc.path # Here THEN "path" ELSE IF proc.session # AppSession THEN "session" ELSE "none"

Answer(reply) ==
    /\ proc' = [proc EXCEPT !.at = "closing"]
    /\ request' = IF request[proc.client].at = "waiting"
                  THEN [request EXCEPT ![proc.client].reply = reply, ![proc.client].answered = proc.gen]
                  ELSE request

Refuse ==
    /\ proc.at = "serving" /\ request[proc.client].at # "connected"
    /\ Refusal # "none" /\ Answer(Refusal)
    /\ UNCHANGED <<scm, agents, console, app, elevated, spare>>

\* Mutant: the agent is started in the session that is at the console now.
AgentSessionNow == console

\* spawn_system_input_agent works in the session of the pipe.
AgentSession == proc.session

\* The agent is put into a job, or that fails and is only logged.
SpawnAgent(job) ==
    /\ proc.at = "serving" /\ request[proc.client].at # "connected" /\ Refusal = "none"
    /\ IF job THEN UNCHANGED spare ELSE Draw("faults")
    /\ agents' = agents \cup {[by |-> proc.client, session |-> AgentSession, job |-> job]}
    /\ Answer("ok")
    /\ UNCHANGED <<scm, console, app, elevated>>

SpawnFails ==
    /\ proc.at = "serving" /\ request[proc.client].at # "connected" /\ Refusal = "none"
    /\ Draw("faults") /\ Answer("other")
    /\ UNCHANGED <<scm, agents, console, app, elevated>>

\* Mutant: the pipe is closed as soon as the response is written.
CloseAtOnce ==
    /\ proc.at = "closing"
    /\ proc' = [proc EXCEPT !.at = "top", !.client = "none"]
    /\ UNCHANGED <<scm, agents, console, spare>> /\ ProcUnchanged

\* wait_for_client_close, five seconds at most, when the client waits four.
Close ==
    /\ proc.at = "closing" /\ request[proc.client].at # "waiting"
    /\ proc' = [proc EXCEPT !.at = "top", !.client = "none"]
    /\ UNCHANGED <<scm, agents, console, spare>> /\ ProcUnchanged

\* The process dies.
Crash ==
    /\ proc.at \notin {"none", "leaving"} /\ Draw("faults")
    /\ proc' = [proc EXCEPT !.at = "none", !.client = "none"]
    /\ scm' = [scm EXCEPT !.state = "stopped"] /\ agents' = {a \in agents : ~a.job}
    /\ UNCHANGED console /\ ProcUnchanged

Switch(session) ==
    /\ Draw("switches") /\ session # console /\ console' = session
    /\ UNCHANGED <<scm, proc, agents>> /\ ProcUnchanged

\* An agent ends; when it is the program's the monitor asks for another by itself.
AgentEnds(a) ==
    /\ agents' = agents \ {a}
    /\ UNCHANGED <<scm, proc, console, app, request, elevated, spare>>

LoseAgent ==
    /\ app.agent # "none"
    /\ app.agent = "system" => \A a \in agents : ~(a.by = app.owner)
    /\ IF app.agent = "legacy" THEN Draw("faults") ELSE UNCHANGED spare
    /\ app' = [app EXCEPT !.agent = "none", !.lost = TRUE]
    /\ UNCHANGED <<scm, proc, agents, console, request, elevated>>

-----------------------------------------------------------------------------
(* The commands with elevated rights: install, restart and uninstall.      *)

CommandUnchanged == UNCHANGED <<agents, console, app, request>>

At(asker, cmd, at) == elevated[asker].cmd \in cmd /\ elevated[asker].at = at
Go(asker, at) == elevated' = [elevated EXCEPT ![asker].at = at]
Done(asker, ok) == elevated' = [elevated EXCEPT ![asker].at = "done", ![asker].ok = ok]

NewProc == [NoProc EXCEPT !.at = "starting", !.gen = proc.gen + 1, !.path = scm.path]

\* install registers the path, of a new service or of the one there is.
Register(asker) ==
    /\ At(asker, {"install"}, "open") /\ scm' = [scm EXCEPT !.path = Here] /\ Go(asker, "look")
    /\ UNCHANGED <<proc, spare>> /\ CommandUnchanged

\* registered_bin_path_matches, asked after the path was set.
PathChanged == scm.path # Here

\* query_current_state: every state but running counts as stopped.
RunningNow == scm.state = "running"

LookAtService(asker) ==
    /\ At(asker, {"install"}, "look")
    /\ Go(asker, IF RunningNow /\ PathChanged THEN "stop" ELSE "start")
    /\ UNCHANGED <<scm, proc, spare>> /\ CommandUnchanged

OpenToRestart(asker) ==
    /\ At(asker, {"restart"}, "open")
    /\ elevated' = [elevated EXCEPT ![asker] =
          IF ~Installed THEN [@ EXCEPT !.cmd = "install"]
          ELSE [@ EXCEPT !.was = IF RunningNow THEN proc.gen ELSE 0,
                         !.at = IF RunningNow THEN "stop" ELSE "start"]]
    /\ UNCHANGED <<scm, proc, spare>> /\ CommandUnchanged

\* stop_service: the control is sent, and it waits until the service is not running.
StopService(asker) ==
    /\ At(asker, {"install", "restart"}, "stop")
    /\ IF RunningNow
       THEN /\ scm' = [scm EXCEPT !.state = "stopping"] /\ proc' = [proc EXCEPT !.stop = TRUE]
            /\ Go(asker, "start")
       ELSE Done(asker, FALSE) /\ UNCHANGED <<scm, proc>>
    /\ UNCHANGED spare /\ CommandUnchanged

StartService(asker) ==
    /\ At(asker, {"install", "restart"}, "start") /\ Installed /\ Starts
    /\ proc' = NewProc /\ scm' = [scm EXCEPT !.state = "starting"] /\ Done(asker, TRUE)
    /\ UNCHANGED spare /\ CommandUnchanged

\* Mutant: a service that is busy has been started.
AlreadyRunsAnyway(asker) ==
    /\ At(asker, {"install", "restart"}, "start") /\ Installed /\ ~Starts
    /\ Done(asker, TRUE)
    /\ UNCHANGED <<scm, proc, spare>> /\ CommandUnchanged

\* ERROR_SERVICE_ALREADY_RUNNING: fine, unless restart has stopped the process that is there.
AlreadyRuns(asker) ==
    /\ At(asker, {"install", "restart"}, "start") /\ Installed /\ ~Starts
    /\ elevated[asker].was = 0 /\ Done(asker, TRUE)
    /\ UNCHANGED <<scm, proc, spare>> /\ CommandUnchanged

StartFails(asker) ==
    /\ At(asker, {"install", "restart"}, "start")
    /\ IF Installed THEN Draw("faults") ELSE UNCHANGED spare
    /\ Done(asker, FALSE)
    /\ UNCHANGED <<scm, proc>> /\ CommandUnchanged

\* uninstall stops the service if it can, waits until it has stopped, and deletes it.
OpenToUninstall(asker) ==
    /\ At(asker, {"uninstall"}, "open")
    /\ IF ~Installed THEN Done(asker, TRUE) /\ UNCHANGED <<scm, proc>>
       ELSE IF RunningNow
       THEN /\ scm' = [scm EXCEPT !.state = "stopping"] /\ proc' = [proc EXCEPT !.stop = TRUE]
            /\ Go(asker, "wait")
       ELSE Go(asker, "delete") /\ UNCHANGED <<scm, proc>>
    /\ UNCHANGED spare /\ CommandUnchanged

HasStopped(asker) ==
    /\ At(asker, {"uninstall"}, "wait") /\ scm.state = "stopped" /\ Go(asker, "delete")
    /\ UNCHANGED <<scm, proc, spare>> /\ CommandUnchanged

Delete(asker) ==
    /\ At(asker, {"uninstall"}, "delete") /\ Done(asker, Installed)
    /\ scm' = [scm EXCEPT !.path = "none"]
    /\ UNCHANGED <<proc, spare>> /\ CommandUnchanged

-----------------------------------------------------------------------------
(* The program.                                                            *)

AppUnchanged == UNCHANGED <<scm, proc, agents, console>>

Stands(r, at) == request[r].at = at
Goes(r, at) == request' = [request EXCEPT ![r].at = at]

\* is_installed and is_available keep in mind what they saw: a service that was there and is
\* gone was uninstalled by hand.
Noticed == [app EXCEPT !.seen = @ \/ Installed, !.removed = @ \/ (~Installed /\ app.seen)]

\* run_elevated: the user agrees to the prompt, and the command starts; or refuses.
Prompt(asker, cmd) ==
    elevated' = [elevated EXCEPT ![asker] = [NoCommand EXCEPT !.cmd = cmd, !.at = "open"]]
Refused(asker) == elevated' = [elevated EXCEPT ![asker] = [NoCommand EXCEPT !.at = "refused"]]

\* The end of the command, or of the thirty seconds the program waits for it.
Verdict(asker) ==
    IF elevated[asker].at = "refused" THEN "no"
    ELSE IF At(asker, {"install", "restart", "uninstall"}, "done")
         THEN IF elevated[asker].ok THEN "yes" ELSE "error"
    ELSE "error"

HearsOf(asker) ==
    \/ elevated[asker].at \in {"done", "refused"} /\ UNCHANGED spare
    \/ elevated[asker].at \notin {"done", "refused"} /\ Draw("timeouts")

Click ==
    /\ Stands("user", "idle") /\ Draw("requests") /\ Goes("user", "aligning")
    /\ UNCHANGED <<app, elevated>> /\ AppUnchanged

\* ensure_input_service_current: whether an older image of the program still runs, told by the
\* mark of the update or by the file that cannot be removed.
Stale == IF app.landed THEN scm.state = "running" ELSE proc.at # "none" /\ proc.stale

Align ==
    /\ Stands("user", "aligning")
    /\ app' = IF app.aligned THEN app
              ELSE [Noticed EXCEPT !.aligned = Installed /\ Stale]
    /\ IF ~app.aligned /\ Installed /\ Stale
       THEN Goes("user", "restarting") /\ (Prompt("user", "restart") \/ Refused("user"))
       ELSE Goes("user", "checking") /\ UNCHANGED elevated
    /\ UNCHANGED spare /\ AppUnchanged

Aligned ==
    /\ Stands("user", "restarting") /\ HearsOf("user") /\ Goes("user", "checking")
    /\ app' = [app EXCEPT !.aligned = Verdict("user") = "yes"]
    /\ UNCHANGED elevated /\ AppUnchanged

Recover ==
    /\ Stands("auto", "idle") /\ app.lost /\ app.requested
    /\ app' = [Noticed EXCEPT !.lost = FALSE]
    /\ Goes("auto", IF app.removed /\ ~Available THEN "idle" ELSE "checking")
    /\ UNCHANGED <<elevated, spare>> /\ AppUnchanged

\* An agent of the service is kept; another one is kept while there is no service.
CheckAgent(r) ==
    /\ Stands(r, "checking")
    /\ \/ app.agent = "system" /\ Goes(r, "idle") /\ UNCHANGED app
       \/ app.agent = "legacy" /\ ~Available /\ Goes(r, "idle") /\ app' = Noticed
       \/ app.agent = "none" /\ Goes(r, IF Available THEN "connecting" ELSE "missing") /\ app' = Noticed
       \/ app.agent = "legacy" /\ Available /\ Goes(r, "connecting")
             /\ app' = [Noticed EXCEPT !.agent = "none", !.lost = TRUE]
    /\ UNCHANGED <<elevated, spare>> /\ AppUnchanged

\* spawn_agent_via_service without a service.
NoService(r) ==
    /\ Stands(r, "missing") /\ Goes(r, IF app.removed THEN "legacy" ELSE "once")
    /\ UNCHANGED <<app, elevated, spare>> /\ AppUnchanged

\* try_install_service_once reads the flag, and sets it in another step.
Once(r) ==
    /\ Stands(r, "once") /\ app' = Noticed
    /\ Goes(r, IF ~app.attempted THEN "marking" ELSE IF Available THEN "connecting" ELSE "legacy")
    /\ UNCHANGED <<elevated, spare>> /\ AppUnchanged

InstallService(r) ==
    /\ Stands(r, "marking") /\ elevated[r].at \in {"none", "done", "refused"}
    /\ app' = [app EXCEPT !.attempted = TRUE] /\ Goes(r, "installing")
    /\ (Prompt(r, "install") \/ Refused(r))
    /\ UNCHANGED spare /\ AppUnchanged

InstallHeard(r) ==
    /\ Stands(r, "installing") /\ HearsOf(r)
    /\ Goes(r, IF Verdict(r) = "yes" THEN "connecting" ELSE "legacy")
    /\ app' = IF Verdict(r) = "yes" THEN [app EXCEPT !.seen = TRUE] ELSE app
    /\ UNCHANGED elevated /\ AppUnchanged

\* spawn_agent: connect_client tries for three seconds; the pipe of another user refuses.
ConnectPipe(r) ==
    /\ Stands(r, "connecting") /\ proc.at = "listening" /\ proc.session \in app.sessions
    /\ proc' = [proc EXCEPT !.at = "serving", !.client = r] /\ Goes(r, "connected")
    /\ UNCHANGED <<scm, agents, console, app, elevated, spare>>

CannotConnect(r) ==
    /\ Stands(r, "connecting") /\ ~(proc.at = "listening" /\ proc.session \in app.sessions)
    /\ Goes(r, "legacy") /\ UNCHANGED <<app, elevated, spare>> /\ AppUnchanged

WriteRequest(r) ==
    /\ Stands(r, "connected")
    /\ request' = [request EXCEPT ![r].at = IF proc.client = r THEN "waiting" ELSE "legacy",
                                  ![r].reply = "none", ![r].answered = 0]
    /\ UNCHANGED <<app, elevated, spare>> /\ AppUnchanged

\* The response; or the pipe broke; or four seconds have passed.
ReadResponse(r) ==
    /\ Stands(r, "waiting") /\ proc.client = r /\ request[r].reply # "none"
    /\ Goes(r, IF request[r].reply = "ok" THEN "starting"
               ELSE IF request[r].reply = "path" /\ ~request[r].again THEN "mismatch" ELSE "legacy")
    /\ UNCHANGED <<app, elevated, spare>> /\ AppUnchanged

NoResponse(r) ==
    /\ Stands(r, "waiting") /\ (proc.client # r \/ request[r].reply = "none")
    /\ IF proc.client # r THEN UNCHANGED spare ELSE Draw("timeouts")
    /\ Goes(r, "legacy") /\ UNCHANGED <<app, elevated>> /\ AppUnchanged

\* The service is of another path: it is registered anew, once, and asked again.
Repair(r) ==
    /\ Stands(r, "mismatch") /\ elevated[r].at \in {"none", "done", "refused"}
    /\ IF app.repaired THEN Goes(r, "legacy") /\ UNCHANGED <<app, elevated>>
       ELSE /\ app' = [app EXCEPT !.repaired = TRUE] /\ Goes(r, "repairing")
            /\ (Prompt(r, "install") \/ Refused(r))
    /\ UNCHANGED spare /\ AppUnchanged

RepairHeard(r) ==
    /\ Stands(r, "repairing") /\ HearsOf(r)
    /\ request' = [request EXCEPT ![r].again = Verdict(r) = "yes",
                                  ![r].at = IF Verdict(r) = "yes" THEN "connecting" ELSE "legacy"]
    /\ app' = IF Verdict(r) = "yes" THEN [app EXCEPT !.seen = TRUE] ELSE app
    /\ UNCHANGED elevated /\ AppUnchanged

\* The agent is there, or did not come (AgentHandshake).
Got(r, kind) ==
    /\ request' = [request EXCEPT ![r] = NoRequest]
    /\ app' \in {[app EXCEPT !.agent = kind, !.owner = r, !.requested = TRUE, !.lost = FALSE], app}

AgentReady(r) ==
    /\ Stands(r, "starting") /\ Got(r, "system")
    /\ UNCHANGED <<elevated, spare>> /\ AppUnchanged

\* The agent of before the service, started with a prompt of its own.
Legacy(r) ==
    /\ Stands(r, "legacy")
    /\ IF r = "auto" /\ app.removed THEN request' = [request EXCEPT ![r] = NoRequest] /\ UNCHANGED app
       ELSE Got(r, "legacy")
    /\ UNCHANGED <<elevated, spare>> /\ AppUnchanged

\* The settings page.
Uninstall ==
    /\ elevated["button"].at = "none" /\ Draw("uninstalls")
    /\ (Prompt("button", "uninstall") \/ Refused("button"))
    /\ UNCHANGED <<app, request>> /\ AppUnchanged

Uninstalled ==
    /\ elevated["button"].at # "none" /\ HearsOf("button")
    /\ app' = IF Verdict("button") = "yes"
              THEN [Noticed EXCEPT !.attempted = TRUE, !.removed = TRUE] ELSE Noticed
    /\ elevated' = IF elevated["button"].at \in {"done", "refused"}
                   THEN [elevated EXCEPT !["button"] = NoCommand] ELSE elevated
    /\ UNCHANGED request /\ AppUnchanged

-----------------------------------------------------------------------------
ServiceInit ==
    /\ \E s \in Situations :
          /\ scm = [path |-> s.path, state |-> IF s.running THEN "running" ELSE "stopped"]
          /\ proc = IF s.running
                    THEN [NoProc EXCEPT !.at = "top", !.gen = 1, !.path = s.path, !.stale = s.stale]
                    ELSE NoProc
          /\ app = [seen |-> FALSE, removed |-> FALSE, attempted |-> FALSE, repaired |-> FALSE,
                    aligned |-> FALSE, landed |-> s.landed, requested |-> FALSE, lost |-> FALSE,
                    agent |-> "none", owner |-> "user",
                    sessions |-> IF s.shared THEN {1, 2} ELSE {AppSession}]
          /\ spare = s.spare
    /\ agents = {} /\ console = AppSession
    /\ request = [r \in Requesters |-> NoRequest]
    /\ elevated = [a \in Askers |-> NoCommand]

ProcNext ==
    \/ ServiceRuns \/ Listen \/ EndLoop \/ ProcessGone \/ ListenEnds \/ Refuse \/ SpawnFails
    \/ Close \/ Crash \/ LoseAgent
    \/ \E job \in BOOLEAN : SpawnAgent(job)
    \/ \E session \in 0 .. 2 : Switch(session)
    \/ \E a \in agents : AgentEnds(a)

CommandNext == \E asker \in Askers :
    \/ Register(asker) \/ LookAtService(asker) \/ OpenToRestart(asker) \/ StopService(asker)
    \/ StartService(asker) \/ AlreadyRuns(asker) \/ StartFails(asker)
    \/ OpenToUninstall(asker) \/ HasStopped(asker) \/ Delete(asker)

AppNext ==
    \/ Click \/ Align \/ Aligned \/ Recover \/ Uninstall \/ Uninstalled
    \/ \E r \in Requesters :
          \/ CheckAgent(r) \/ NoService(r) \/ Once(r) \/ InstallService(r) \/ InstallHeard(r)
          \/ ConnectPipe(r) \/ CannotConnect(r) \/ WriteRequest(r) \/ ReadResponse(r) \/ NoResponse(r)
          \/ Repair(r) \/ RepairHeard(r) \/ AgentReady(r) \/ Legacy(r)

ServiceNext == ProcNext \/ CommandNext \/ AppNext

ServiceSpec == ServiceInit /\ [][ServiceNext]_serviceVars

-----------------------------------------------------------------------------
\* A response that was written can be read until its client has read it or given up.
ResponseIsRead ==
    \A r \in Requesters :
       request[r].at = "waiting" /\ request[r].answered = proc.gen /\ proc.at # "none"
          => proc.client = r

\* A restart that succeeded has not taken the process it had to stop for the new one.
RestartedIsNew ==
    \A a \in Askers :
       elevated[a].at = "done" /\ elevated[a].ok /\ elevated[a].was # 0 => proc.gen # elevated[a].was

\* An agent is in the session of the program that asked for it, whoever is at the console now.
AgentIsWithItsClient == \A a \in agents : a.session = AppSession

\* A service that reports it has stopped has taken its agents with it.
AgentsGoToo == scm.state = "stopped" => \A a \in agents : ~a.job

ServiceIsTrue == ResponseIsRead /\ RestartedIsNew /\ AgentIsWithItsClient /\ AgentsGoToo

\* docs/windows-input-ipc.md promises one prompt for a service that is missing.  Refuted: the
\* recovery and a click read the flag before either sets it.
AsksOnce == \A r \in Requesters : request[r].at = "marking" => ~app.attempted

\* A service registered anew with the path of the program accepts the program.  Refuted: the
\* process of the other path is left running, because the path is compared after it was changed.
RepairWorks == \A r \in Requesters : request[r].again => request[r].reply # "path" \/ request[r].at # "legacy"
=============================================================================
