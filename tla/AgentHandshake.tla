--------------------------- MODULE AgentHandshake ---------------------------
(***************************************************************************)
(* How the desktop program on Windows gets an elevated input agent         *)
(* (src/input/platform/windows/agent/): it opens two named pipes, has the  *)
(* agent started by the service or by a prompt of the system, and two      *)
(* threads on each side, one per pipe, introduce the processes to each     *)
(* other.  Every wait has a time limit of its own, and the caller's may    *)
(* end first.                                                              *)
(***************************************************************************)
EXTENDS Naturals, Sequences, SequencesExt

VARIABLES
    caller,   \* request_elevation, which waits for its two pipes and then for the agent
    ready,    \* what the threads sent it that it has not read
    opened,   \* GuiTransportStart.created: the pipes that exist
    gui,      \* the two threads of the program, by pipe
    alive,    \* AgentClient.alive
    named,    \* whether the event thread has told the command thread who the agent is
    agent,    \* the agent process and its two threads, by pipe
    startup,  \* what its command thread tells its event thread
    pipe      \* the packet under way, by pipe

handshakeVars == <<caller, ready, opened, gui, alive, named, agent, startup, pipe>>
agentSide == <<agent, startup>>
guiSide == <<opened, gui, alive, named>>

Pipes == {"command", "event"}
Ended == {"failed", "closed"}

HandshakeInit ==
    /\ caller = "creating" /\ ready = <<>> /\ opened = {} /\ alive = TRUE /\ named = FALSE
    /\ gui = [p \in Pipes |-> "create"]
    /\ agent = [main |-> "none", command |-> "none", event |-> "none"]
    /\ startup = "none" /\ pipe = [p \in Pipes |-> "nothing"]

\* The receiver of the channel is dropped when request_elevation returns.
Listens == caller \notin {"ok", "error"}
GuiHolds(p) == gui[p] \notin Ended
AgentHolds(p) == agent[p] \notin Ended

-----------------------------------------------------------------------------
(* The caller.                                                             *)

CallerUnchanged == UNCHANGED <<guiSide, pipe>>

\* wait_until_created.
AwaitCreated ==
    /\ caller = "creating" /\ UNCHANGED <<ready, agentSide>> /\ CallerUnchanged
    /\ \/ opened = Pipes /\ caller' = "launching"
       \/ caller' = "error"

\* The agent is started, which a prompt may hold up as long as it likes, or not.
Launch ==
    /\ caller = "launching" /\ UNCHANGED <<ready, startup>> /\ CallerUnchanged
    /\ \/ /\ caller' = "waiting"
          /\ agent' = [main |-> "starting", command |-> "connect", event |-> "connect"]
       \/ caller' = "error" /\ UNCHANGED agent

\* wait_until_ready: the first word counts; a wait in vain ends in two steps,
\* the time limit and the drop of the receiver.
AwaitReady ==
    /\ \/ caller = "waiting" /\ ready # <<>> /\ caller' = Head(ready) /\ ready' = Tail(ready)
       \/ caller = "waiting" /\ ready = <<>> /\ caller' = "leaving" /\ UNCHANGED ready
       \/ caller = "leaving" /\ caller' = "error" /\ UNCHANGED ready
    /\ UNCHANGED agentSide /\ CallerUnchanged

-----------------------------------------------------------------------------
(* The threads of the program.                                             *)

\* A thread ends with an error, and with it the whole transport.
FailGui(p) ==
    /\ gui' = [gui EXCEPT ![p] = "failed"] /\ alive' = FALSE
    /\ ready' = IF Listens THEN Append(ready, "error") ELSE ready

GuiFails(p) ==
    /\ gui[p] \in {"create", "connect", "hello", "ready"}
    /\ FailGui(p) /\ UNCHANGED <<caller, opened, named, agentSide, pipe>>

GuiCreates(p) ==
    /\ gui[p] = "create" /\ gui' = [gui EXCEPT ![p] = "connect"] /\ opened' = opened \cup {p}
    /\ UNCHANGED <<caller, ready, alive, named, agentSide, pipe>>

\* Both ends of a pipe get on with the handshake once the agent has opened it.
Connected(p) ==
    /\ gui[p] = "connect" /\ agent[p] = "connect"
    /\ gui' = [gui EXCEPT ![p] = "hello"] /\ agent' = [agent EXCEPT ![p] = "hello"]
    /\ UNCHANGED <<caller, ready, opened, alive, named, startup, pipe>>

\* The event thread reads who the agent is and lets the command thread know.
GuiReadsHello ==
    /\ gui["event"] = "hello" /\ pipe["event"] = "Hello" /\ pipe' = [pipe EXCEPT !["event"] = "nothing"]
    /\ IF GuiHolds("command")
       THEN /\ gui' = [gui EXCEPT !["event"] = "ready"] /\ named' = TRUE
            /\ UNCHANGED <<ready, alive>>
       ELSE FailGui("event") /\ UNCHANGED named
    /\ UNCHANGED <<caller, opened, agentSide>>

\* The command thread answers it and serves requests from here on.
GuiAcks ==
    /\ gui["command"] = "hello" /\ named /\ AgentHolds("command")
    /\ gui' = [gui EXCEPT !["command"] = "loop"] /\ pipe' = [pipe EXCEPT !["command"] = "HelloAck"]
    /\ UNCHANGED <<caller, ready, opened, alive, named, agentSide>>

\* Mutant: it does not matter whether anybody still listens.
ReadyUnheard ==
    /\ gui["event"] = "ready" /\ pipe["event"] = "Ready" /\ pipe' = [pipe EXCEPT !["event"] = "nothing"]
    /\ gui' = [gui EXCEPT !["event"] = "loop"]
    /\ ready' = (IF Listens THEN Append(ready, "ok") ELSE ready) /\ UNCHANGED alive
    /\ UNCHANGED <<caller, opened, named, agentSide>>

\* The agent is ready, which the caller is told if it still listens.
GuiReadsReady ==
    /\ gui["event"] = "ready" /\ pipe["event"] = "Ready" /\ pipe' = [pipe EXCEPT !["event"] = "nothing"]
    /\ IF Listens
       THEN /\ gui' = [gui EXCEPT !["event"] = "loop"] /\ ready' = Append(ready, "ok")
            /\ UNCHANGED alive
       ELSE FailGui("event")
    /\ UNCHANGED <<caller, opened, named, agentSide>>

\* The loops end with the client, or when the other end of the pipe is closed.
GuiLeaves(p) ==
    /\ gui[p] = "loop" /\ UNCHANGED <<caller, opened, named, agentSide, pipe>>
    /\ \/ ~alive /\ gui' = [gui EXCEPT ![p] = "closed"] /\ UNCHANGED <<alive, ready>>
       \/ ~AgentHolds(p) /\ FailGui(p)

-----------------------------------------------------------------------------
(* The agent.                                                              *)

AgentUnchanged == UNCHANGED <<caller, ready, guiSide>>

\* A thread reaches no pipe, or waits in vain; either way the process leaves.
AgentFails(p) ==
    /\ agent[p] \in {"connect", "hello", "startup"}
    /\ agent' = [agent EXCEPT ![p] = "failed", !.main = "leaving"]
    /\ startup' = IF p = "command" /\ startup = "none" THEN "error" ELSE startup
    /\ UNCHANGED pipe /\ AgentUnchanged

AgentSaysHello ==
    /\ agent.event = "hello" /\ GuiHolds("event")
    /\ agent' = [agent EXCEPT !.event = "startup"] /\ pipe' = [pipe EXCEPT !["event"] = "Hello"]
    /\ UNCHANGED startup /\ AgentUnchanged

\* HelloAck names the session of the program, which must be the agent's.
AgentReadsAck ==
    /\ agent.command = "hello" /\ pipe["command"] = "HelloAck"
    /\ pipe' = [pipe EXCEPT !["command"] = "nothing"]
    /\ \/ agent' = [agent EXCEPT !.command = "loop"] /\ startup' = "ok"
       \/ agent' = [agent EXCEPT !.command = "failed"] /\ startup' = "error"
    /\ AgentUnchanged

AgentSaysReady ==
    /\ agent.event = "startup" /\ startup # "none"
    /\ IF startup = "ok" /\ GuiHolds("event")
       THEN /\ pipe' = [pipe EXCEPT !["event"] = "Ready"]
            /\ agent' = [agent EXCEPT !.event = "loop", !.main = IF @ = "starting" THEN "running" ELSE @]
       ELSE agent' = [agent EXCEPT !.event = "failed", !.main = "leaving"] /\ UNCHANGED pipe
    /\ UNCHANGED startup /\ AgentUnchanged

\* The command loop reads an error when the program has closed its end; the
\* main loop then loses its requests, and the process leaves.
AgentLosesPipe ==
    /\ agent.command = "loop" /\ ~GuiHolds("command")
    /\ agent' = [agent EXCEPT !.command = "failed", !.main = "leaving"]
    /\ UNCHANGED <<startup, pipe>> /\ AgentUnchanged

AgentGone == agent' = [main |-> "gone", command |-> "closed", event |-> "closed"]

AgentExits == agent.main = "leaving" /\ AgentGone /\ UNCHANGED <<startup, pipe>> /\ AgentUnchanged

AgentDies == agent.main \in {"starting", "running"} /\ AgentGone /\ UNCHANGED <<startup, pipe>> /\ AgentUnchanged

-----------------------------------------------------------------------------
Caller == AwaitCreated \/ Launch \/ AwaitReady
GuiThread(p) == GuiCreates(p) \/ Connected(p) \/ GuiFails(p) \/ GuiLeaves(p)
GuiHandshake == GuiReadsHello \/ GuiReadsReady \/ GuiAcks
AgentThread == AgentSaysHello \/ AgentReadsAck \/ AgentSaysReady \/ AgentLosesPipe \/ AgentExits

HandshakeNext ==
    \/ Caller \/ GuiHandshake \/ AgentThread \/ AgentDies
    \/ \E p \in Pipes : GuiThread(p) \/ AgentFails(p)

\* Every thread runs on, and a wait that is not answered ends by its time limit.
HandshakeFairness ==
    /\ WF_handshakeVars(AgentThread) /\ WF_handshakeVars(GuiHandshake)
    /\ \A p \in Pipes : WF_handshakeVars(GuiThread(p)) /\ WF_handshakeVars(AgentFails(p))

HandshakeSpec == HandshakeInit /\ [][HandshakeNext]_handshakeVars /\ HandshakeFairness

-----------------------------------------------------------------------------
\* request_elevation has failed. Its time limit may be over a moment before the
\* event thread reports the agent: the report is then left in the channel, and the
\* thread, who cannot tell, keeps the agent (see the findings).
GivenUp == caller = "error"
LeftUnread == Contains(ready, "ok")

\* An agent whose program has given it up before it reported, or has lost one of
\* its pipes at any time, does not stay: it has hooks in the input of the machine,
\* and nobody could stop it.
LoneAgentLeaves == (((GivenUp /\ ~LeftUnread) \/ ~alive) /\ agent.main # "none") ~> agent.main = "gone"

\* No agent stays that its program has given up, reported or not (client.rs:840:
\* the thread ends when nobody receives its report). One does: see the findings.
GivenUpAgentLeaves == (GivenUp /\ agent.main # "none") ~> agent.main = "gone"
=============================================================================
