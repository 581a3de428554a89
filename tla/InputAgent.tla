----------------------------- MODULE InputAgent -----------------------------
(***************************************************************************)
(* The calls between the desktop program on Windows and its input agent    *)
(* (src/input/platform/windows/agent/client.rs, server.rs): backends of    *)
(* successive sessions share one client, whose writer thread takes their   *)
(* requests from a short queue and has one at a time under way; an event   *)
(* thread hands the responses out by number.  A caller that gives up       *)
(* leaves its request in the queue, and a response may come after the      *)
(* writer has stopped waiting for it.                                      *)
(***************************************************************************)
EXTENDS Naturals, Sequences

CONSTANTS QueueLimit, \* the requests the queue holds
          MaxCalls,   \* bound: calls that are ever made
          MaxMoves,   \* bound: positions of the cursor
          MaxHangs    \* bound: responses that come too late

ASSUME AgentAssumption == {QueueLimit, MaxCalls, MaxMoves, MaxHangs} \subseteq Nat

VARIABLES
    clientUp,  \* AgentClient.alive
    calls,     \* the calls made: request, backend, position aimed at, how far it is
    lifecycle, \* the call or 0 that holds AgentClient.lifecycle
    lease,     \* the backend (named by its Start) of active_lease, 0 if none
    items,     \* the queue to the writer
    cursor,    \* ClientCursorState, and the last position and the backend that gave it
    writing,   \* the writer thread: what it is about to write, what it waits for
    awaited,   \* PendingResponses: request number -> its call, if one waits
    requests,  \* the command pipe
    responses, \* the event pipe
    runtime,   \* the agent's runtime, named by the Start that made it, 0 if none
    pointer,   \* where the agent's cursor is
    acted      \* what the agent did for a call: the runtime and the cursor it met

agentVars == <<clientUp, calls, lifecycle, lease, items, cursor, writing, awaited, requests,
               responses, runtime, pointer, acted>>
agentState == <<runtime, pointer, acted>>

CallIds == 1..MaxCalls
NoCall == [kind |-> "none", of |-> 0, aim |-> 0, at |-> "new"]
Waiting == {"queued", "sent"}
Settled == {"done", "failed"}

\* What travels: a call's request, a cursor position, or the Stop of a backend.
CallItem(c, kind) == [kind |-> kind, call |-> c, point |-> 0]
CursorItem == [kind |-> "Cursor", call |-> 0, point |-> 0]
PointItem(point) == [kind |-> "Cursor", call |-> 0, point |-> point]
StopItem == [kind |-> "Stop", call |-> 0, point |-> 0]

AgentInit ==
    /\ clientUp = TRUE /\ calls = [c \in CallIds |-> NoCall] /\ lifecycle = 0 /\ lease = 0
    /\ items = <<>> /\ cursor = [latest |-> 0, queued |-> FALSE, last |-> 0, by |-> 0]
    /\ writing = [at |-> "idle", rest |-> <<>>, id |-> 0, hangs |-> 0] /\ awaited = <<>>
    /\ requests = <<>> /\ responses = <<>>
    /\ runtime = 0 /\ pointer = 0 /\ acted = [c \in CallIds |-> [on |-> 0, at |-> 0]]

HasRoom == Len(items) < QueueLimit
WriterHolds == writing.at # "gone"

-----------------------------------------------------------------------------
(* The callers.                                                            *)

\* AgentClient::request, for start_client, for a backend that is current, or
\* for ensure_ready, which takes no lock.
Request(c, kind, of) ==
    /\ clientUp /\ WriterHolds /\ HasRoom
    /\ calls[c] = NoCall /\ \A d \in CallIds : d < c => calls[d] # NoCall
    /\ kind = "Health" \/ lifecycle = 0
    /\ kind = "Button" <=> of # 0
    /\ of = 0 \/ of = lease
    /\ calls' = [calls EXCEPT ![c] = [kind |-> kind, of |-> of, at |-> "queued",
           aim |-> IF cursor.by = of THEN cursor.last ELSE 0]]
    /\ lifecycle' = IF kind = "Health" THEN lifecycle ELSE c
    /\ items' = Append(items, CallItem(c, kind))
    /\ UNCHANGED <<clientUp, lease, cursor, writing, awaited, requests, responses, agentState>>

\* The call returns; an answered Start makes its backend the current one, a
\* failed Health gives the client up.
Return(c, well) ==
    /\ calls' = [calls EXCEPT ![c].at = IF well THEN "done" ELSE "failed"]
    /\ lifecycle' = IF lifecycle = c THEN 0 ELSE lifecycle
    /\ lease' = IF calls[c].kind = "Start" /\ well THEN c ELSE lease
    /\ clientUp' = (clientUp /\ (well \/ calls[c].kind # "Health"))

\* The dispatch takes too long, or the writer is gone; the item stays queued.
DispatchFails(c) ==
    /\ calls[c].at = "queued" /\ Return(c, FALSE)
    /\ UNCHANGED <<items, cursor, writing, awaited, requests, responses, agentState>>

CallReturns(c) ==
    /\ calls[c].at \in {"answered", "refused"} /\ Return(c, calls[c].at = "answered")
    /\ UNCHANGED <<items, cursor, writing, awaited, requests, responses, agentState>>

\* AgentBackend::inject_cursor: only the latest position counts; with a full
\* queue it waits for the writer to come by.
Move ==
    /\ clientUp /\ lifecycle = 0 /\ lease # 0 /\ cursor.last < MaxMoves
    /\ LET hand == ~cursor.queued /\ HasRoom /\ WriterHolds
       IN  /\ cursor' = [latest |-> cursor.last + 1, queued |-> cursor.queued \/ hand,
                         last |-> cursor.last + 1, by |-> lease]
           /\ items' = IF hand THEN Append(items, CursorItem) ELSE items
    /\ UNCHANGED <<clientUp, calls, lifecycle, lease, writing, awaited, requests, responses, agentState>>

\* Mutant: any backend that is dropped stops what runs.
DropAnyBackend(b) ==
    /\ lifecycle = 0 /\ calls[b].kind = "Start" /\ calls[b].at = "done"
    /\ calls' = [calls EXCEPT ![b].at = "dropped"] /\ lease' = (IF lease = b THEN 0 ELSE lease)
    /\ items' = (IF clientUp /\ HasRoom /\ WriterHolds THEN Append(items, StopItem) ELSE items)
    /\ UNCHANGED <<clientUp, lifecycle, cursor, writing, awaited, requests, responses, agentState>>

\* Drop for AgentBackend: the current one stops the runtime if the queue takes it.
DropBackend(b) ==
    /\ lifecycle = 0 /\ calls[b].kind = "Start" /\ calls[b].at = "done"
    /\ calls' = [calls EXCEPT ![b].at = "dropped"] /\ lease' = (IF lease = b THEN 0 ELSE lease)
    /\ items' = (IF lease = b /\ clientUp /\ HasRoom /\ WriterHolds THEN Append(items, StopItem) ELSE items)
    /\ UNCHANGED <<clientUp, lifecycle, cursor, writing, awaited, requests, responses, agentState>>

-----------------------------------------------------------------------------
(* The writer thread.                                                      *)

Flush == IF cursor.latest = 0 THEN <<>> ELSE <<PointItem(cursor.latest)>>
Flushed == [cursor EXCEPT !.latest = 0, !.queued = FALSE]

\* Mutant: a button does not wait for the cursor.
TakeUnflushed ==
    /\ writing.at = "idle" /\ writing.rest = <<>> /\ clientUp /\ items # <<>>
    /\ items' = Tail(items)
    /\ IF Head(items).kind = "Cursor"
       THEN writing' = [writing EXCEPT !.rest = Flush] /\ cursor' = Flushed
       ELSE writing' = [writing EXCEPT !.rest = <<Head(items)>>] /\ UNCHANGED cursor
    /\ UNCHANGED <<clientUp, calls, lifecycle, lease, awaited, requests, responses, agentState>>

\* command_writer_loop: a button goes behind the latest position.
Take ==
    /\ writing.at = "idle" /\ writing.rest = <<>> /\ clientUp /\ items # <<>>
    /\ items' = Tail(items)
    /\ LET item == Head(items)
           mine == IF item.kind = "Cursor" THEN <<>> ELSE <<item>>
       IN  IF item.kind \in {"Cursor", "Button"}
           THEN writing' = [writing EXCEPT !.rest = Flush \o mine] /\ cursor' = Flushed
           ELSE writing' = [writing EXCEPT !.rest = mine] /\ UNCHANGED cursor
    /\ UNCHANGED <<clientUp, calls, lifecycle, lease, awaited, requests, responses, agentState>>

\* The queue has been quiet for 50 ms.
Tick ==
    /\ writing.at = "idle" /\ writing.rest = <<>> /\ clientUp /\ items = <<>> /\ cursor.latest # 0
    /\ writing' = [writing EXCEPT !.rest = Flush] /\ cursor' = Flushed
    /\ UNCHANGED <<clientUp, calls, lifecycle, lease, items, awaited, requests, responses, agentState>>

\* write_client_command, up to the wait for the response.
Write ==
    /\ writing.at = "idle" /\ writing.rest # <<>>
    /\ LET item == Head(writing.rest)
           waits == item.call # 0 /\ calls[item.call].at = "queued"
       IN  /\ writing' = [writing EXCEPT !.at = "waits", !.rest = Tail(@), !.id = @ + 1]
           /\ awaited' = Append(awaited, item.call)
           /\ requests' = Append(requests, [id |-> writing.id + 1, item |-> item])
           /\ calls' = IF waits THEN [calls EXCEPT ![item.call].at = "sent"] ELSE calls
    /\ UNCHANGED <<clientUp, lifecycle, lease, items, cursor, responses, agentState>>

\* Complete(id, how): the entry goes, and with it the wait of its caller.
Completed == MaxCalls + 1
Tell(c, how) == IF c \in CallIds /\ calls[c].at = "sent" THEN [calls EXCEPT ![c].at = how] ELSE calls
Complete(id, how) == awaited' = [awaited EXCEPT ![id] = Completed] /\ calls' = Tell(awaited[id], how)
TooLate == /\ writing.at = "waits" /\ (writing.hangs < MaxHangs \/ ~clientUp)
           /\ writing' = [writing EXCEPT !.at = "idle", !.hangs = IF clientUp THEN @ + 1 ELSE @]

\* Mutant: the writer goes on, and its caller is not told.
StopWaitingAlone ==
    /\ TooLate /\ awaited' = [awaited EXCEPT ![writing.id] = Completed]
    /\ UNCHANGED <<clientUp, calls, lifecycle, lease, items, cursor, requests, responses, agentState>>

\* No response within four seconds: the caller hears an error, the connection stays.
StopWaiting ==
    /\ TooLate /\ Complete(writing.id, "refused")
    /\ UNCHANGED <<clientUp, lifecycle, lease, items, cursor, requests, responses, agentState>>

\* The queue and the pipes go with the thread, and then the agent.
WriterGone ==
    /\ writing' = [writing EXCEPT !.at = "gone", !.rest = <<>>]
    /\ items' = <<>> /\ requests' = <<>> /\ responses' = <<>>

\* The loop ends with the client; what is queued is dropped unanswered.
WriterLeaves ==
    /\ writing.at = "idle" /\ ~clientUp
    /\ WriterGone /\ UNCHANGED <<clientUp, calls, lifecycle, lease, cursor, awaited, agentState>>

\* fail_gui_transport: a pipe breaks, and every wait ends.
TransportFails ==
    /\ clientUp /\ clientUp' = FALSE
    /\ awaited' = [id \in DOMAIN awaited |-> Completed]
    /\ calls' = [c \in CallIds |-> IF calls[c].at = "sent" THEN [calls[c] EXCEPT !.at = "refused"] ELSE calls[c]]
    /\ WriterGone /\ UNCHANGED <<lifecycle, lease, cursor, agentState>>

-----------------------------------------------------------------------------
(* The event thread and the agent.                                         *)

\* client_event_reader_loop: a response nobody waits for any more is passed over.
Read ==
    /\ clientUp /\ responses # <<>> /\ responses' = Tail(responses)
    /\ LET r == Head(responses) IN
       IF awaited[r.id] = Completed THEN UNCHANGED <<awaited, calls, writing>>
       ELSE /\ Complete(r.id, IF r.well THEN "answered" ELSE "refused")
            /\ writing' = IF r.id = writing.id THEN [writing EXCEPT !.at = "idle"] ELSE writing
    /\ UNCHANGED <<clientUp, lifecycle, lease, items, cursor, requests, agentState>>

\* run_agent_loop: one request after the other; a Start that fails leaves no runtime.
Serve ==
    /\ requests # <<>> /\ requests' = Tail(requests)
    /\ LET id == Head(requests).id
           item == Head(requests).item
           Respond(well) == responses' = Append(responses, [id |-> id, well |-> well])
       IN  \/ /\ item.kind = "Start" /\ UNCHANGED <<pointer, acted>>
              /\ \/ runtime' = item.call /\ Respond(TRUE)
                 \/ runtime' = 0 /\ Respond(FALSE)
           \/ item.kind = "Stop" /\ runtime' = 0 /\ Respond(TRUE) /\ UNCHANGED <<pointer, acted>>
           \/ item.kind = "Health" /\ Respond(TRUE) /\ UNCHANGED agentState
           \/ /\ item.kind = "Cursor" /\ Respond(runtime # 0) /\ UNCHANGED <<runtime, acted>>
              /\ pointer' = IF runtime # 0 THEN item.point ELSE pointer
           \/ /\ item.kind = "Button" /\ Respond(runtime # 0) /\ UNCHANGED <<runtime, pointer>>
              /\ acted' = [acted EXCEPT ![item.call] = [on |-> runtime, at |-> pointer + 1]]
    /\ UNCHANGED <<clientUp, calls, lifecycle, lease, items, cursor, writing, awaited>>

-----------------------------------------------------------------------------
Writer == Take \/ Tick \/ Write \/ WriterLeaves
CallEnds(c) == DispatchFails(c) \/ CallReturns(c)

AgentNext ==
    \/ \E c \in CallIds : CallEnds(c) \/ DropBackend(c)
    \/ \E c \in CallIds, kind \in {"Start", "Button", "Health"}, of \in {0} \cup CallIds : Request(c, kind, of)
    \/ Move \/ Writer \/ StopWaiting \/ TransportFails \/ Read \/ Serve

\* The threads of the program run on; the agent answers in the end, or breaks.
AgentFairness ==
    /\ WF_agentVars(Writer) /\ WF_agentVars(Serve \/ StopWaiting) /\ WF_agentVars(Read)
    /\ \A c \in CallIds : WF_agentVars(CallEnds(c))

AgentSpec == AgentInit /\ [][AgentNext]_agentVars /\ AgentFairness

-----------------------------------------------------------------------------
\* A button goes down where the pointer was meant to be: every position given
\* before the click has reached the agent's runtime, also those the full queue refused.
ButtonAtCursor ==
    \A c \in CallIds : acted[c].on = calls[c].of /\ acted[c].at # 0 => acted[c].at > calls[c].aim

\* A request of a backend meets the runtime that was started for it, though the
\* backends of an ended and of a new session use one client; only a Start that
\* failed for its caller may have come between.
RightRuntime ==
    \A c \in CallIds : acted[c].at # 0 =>
        \/ acted[c].on = calls[c].of
        \/ \E s \in CallIds : /\ calls[s].kind = "Start" /\ calls[s].at = "failed"
                              /\ calls[c].of < s /\ acted[c].on \in {0, s}

\* Events reach the receiver in the order and for the session they were meant for:
\* a button is pressed where the cursor is, by the runtime of its own session.
EventsInOrder == ButtonAtCursor /\ RightRuntime

\* Every call returns, though the response is awaited without a time limit and
\* the lock of all backends is held meanwhile.
CallersAnswered == \A c \in CallIds : calls[c].at \in Waiting ~> calls[c].at \in Settled
=============================================================================
