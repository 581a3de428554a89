------------------------------ MODULE HostSessions ------------------------------
(***************************************************************************)
(* The host: one loop that owns the sessions, pairings that run beside it, *)
(* a task per session, and the active slot they share.                     *)
(*                                                                         *)
(* A pairing holds the only pairing permit and the lock of the             *)
(* configuration for as long as it runs.  It reserves the slot, which      *)
(* fixes what its session may do; the loop learns of it through a queue,   *)
(* and claims the slot when it gets there.  Between the two, other         *)
(* pairings reserve, sessions end and the user switches.                   *)
(*                                                                         *)
(* One disjunct is one turn of the loop, one step of the pairing or one    *)
(* step of a session task.  A turn that needs the configuration half-way   *)
(* is two steps: the loop does nothing else until no pairing holds it.     *)
(***************************************************************************)
EXTENDS ActiveSlot, Naturals, Sequences, FiniteSets

CONSTANTS
    Devices,          \* the clients
    Saved,            \* those whose trust is on file
    Remembered,       \* the preferred device on file, or Nobody
    MaxSessions,      \* MAX_HOST_SESSIONS
    MaxInstances,     \* bound: sessions started
    MaxPairings,      \* bound: pairings started
    MaxCommands       \* bound: commands of the user

ASSUME HostAssumption ==
    /\ Nobody \notin Devices /\ Saved \subseteq Devices
    /\ Remembered \in Devices \cup {Nobody}
    /\ MaxSessions \in Nat \ {0}
    /\ MaxInstances \in Nat /\ MaxPairings \in Nat /\ MaxCommands \in Nat

VARIABLES
    loop,        \* what the loop is in the middle of, and of which device
    slot,        \* the active slot
    pairing,     \* the pairing that holds the permit, or NoPairing
    queue,       \* HostEvents on their way to the loop
    sessions,    \* the loop's table: the instance of a device's session, or 0
    tasks,       \* the session tasks that run, by instance
    trusted,     \* the devices whose trust is on file
    count        \* [instances, pairings, commands] so far

vars == <<loop, slot, pairing, queue, sessions, tasks, trusted, count>>

NoPairing == [device |-> Nobody]
Profiles == {"Full", "ClipboardOnly"}
Instances == 1 .. MaxInstances
NoTask == [device |-> Nobody]
Ready == [step |-> "ready", device |-> Nobody]
Waits(step, d) == [step |-> step, device |-> d]

(* A pairing: "seen" is the device's session in the snapshot taken when the*)
(* connection was accepted, "profile" is "none" until it reserves.         *)
Pairings ==
    [device : Devices, reconnect : BOOLEAN, only : BOOLEAN, seen : 0 .. MaxInstances,
     profile : Profiles \cup {"none"}]
Tasks ==
    [device : Devices, profile : Profiles, open : BOOLEAN, told : BOOLEAN, second : BOOLEAN]
Events ==
    [kind : {"Complete"}, device : Devices, reconnect : BOOLEAN, only : BOOLEAN, profile : Profiles]
        \cup [kind : {"Finished"}, device : Devices, instance : Instances]

Init ==
    /\ loop = Ready
    /\ slot = WithPreferred(Remembered)
    /\ pairing = NoPairing /\ queue = <<>>
    /\ sessions = [d \in Devices |-> 0]
    /\ tasks = [i \in Instances |-> NoTask]
    /\ trusted = Saved
    /\ count = [instances |-> 0, pairings |-> 0, commands |-> 0]

--------------------------------------------------------------------------------
Running == {i \in Instances : tasks[i] # NoTask}

(* A session that is neither closed nor told to end.                       *)
Alive(i) == i \in Running /\ tasks[i].open /\ ~tasks[i].told
Online(d) == Alive(sessions[d])

(* Shutting a session down: cancel its token; it is a no-op on a session   *)
(* that is not in the table.                                               *)
Told(all, d) ==
    IF d # Nobody /\ sessions[d] \in Running
    THEN [all EXCEPT ![sessions[d]].told = TRUE] ELSE all

(* The oldest trusted session of the table, as a device.                   *)
Candidate ==
    LET able == {d \in trusted : sessions[d] # 0}
    IN IF able = {} THEN Nobody
       ELSE CHOOSE d \in able : \A e \in able : sessions[d] <= sessions[e]

ConfigIsFree == pairing = NoPairing

--------------------------------------------------------------------------------
(* A connection is accepted and its pairing takes permit and lock; whether *)
(* its device is online is looked up now.                                  *)
PairingStarts(d, reconnect) ==
    /\ loop = Ready /\ ConfigIsFree /\ count.pairings < MaxPairings
    /\ pairing' = [device |-> d, reconnect |-> reconnect, only |-> FALSE,
                   seen |-> IF Online(d) THEN sessions[d] ELSE 0, profile |-> "none"]
    /\ count' = [count EXCEPT !.pairings = @ + 1]
    /\ UNCHANGED <<loop, slot, queue, sessions, tasks, trusted>>

(* The device has proved who it is.  A PIN pairing needs no trust, a       *)
(* reconnection rests on the file or, to join a session only, on that      *)
(* session being open.  The slot is reserved now.                          *)
PairingReserves(only) ==
    /\ pairing # NoPairing /\ pairing.profile = "none"
    /\ IF only
       THEN pairing.reconnect /\ pairing.seen \in Running /\ tasks[pairing.seen].open
       ELSE pairing.reconnect => pairing.device \in trusted
    /\ pairing' = [pairing EXCEPT
           !.only = only,
           !.profile = IF GrantsFull(slot, pairing.device) THEN "Full" ELSE "ClipboardOnly"]
    /\ slot' = Reserve(slot, pairing.device)
    /\ UNCHANGED <<loop, queue, sessions, tasks, trusted, count>>

(* The pairing is refused, fails or times out; its reservation is dropped, *)
(* and a reservation that was not granted holds nothing to drop.           *)
PairingFails ==
    /\ pairing # NoPairing
    /\ slot' = IF pairing.profile = "none" THEN slot ELSE Release(slot, pairing.device)
    /\ pairing' = NoPairing
    /\ UNCHANGED <<loop, queue, sessions, tasks, trusted, count>>

(* The pairing is complete: session and reservation go to the loop.        *)
PairingEnds ==
    /\ pairing # NoPairing /\ pairing.profile # "none"
    /\ queue' = Append(queue, [kind |-> "Complete", device |-> pairing.device,
                               reconnect |-> pairing.reconnect, only |-> pairing.only,
                               profile |-> pairing.profile])
    /\ pairing' = NoPairing
    /\ UNCHANGED <<loop, slot, sessions, tasks, trusted, count>>

--------------------------------------------------------------------------------
(* The event the loop finds in its queue.                                  *)
Arrived == IF queue = <<>> THEN {} ELSE {Head(queue)}

Completes(event) == event.kind = "Complete"

(* mutant HasRoomForOneMore: the limit is compared one too late.           *)
HasRoomForOneMore(d) == Cardinality({e \in Devices \ {d} : sessions[e] # 0}) <= MaxSessions

(* The table has room for a session of this device.                        *)
HasRoom(d) == Cardinality({e \in Devices \ {d} : sessions[e] # 0}) < MaxSessions

(* The loop's turn on a finished pairing.  Trust is looked up again, which *)
(* waits for the configuration.                                            *)
TakesUp(event) ==
    /\ loop = Ready /\ event = Head(queue) /\ Completes(event)
    /\ event.reconnect /\ ~event.only => ConfigIsFree
    /\ queue' = Tail(queue)

(* The trust or the session it relied on is gone.                          *)
Lapsed(event) ==
    \/ event.reconnect /\ ~event.only /\ event.device \notin trusted
    \/ event.only /\ ~Online(event.device)

(* It is turned away, as are a second connection of one transport and a    *)
(* session too many.                                                       *)
TurnAway ==
    \E event \in Arrived :
        LET d == event.device
        IN /\ TakesUp(event)
           /\ \/ Lapsed(event) \/ Online(d)
              \/ ~HasRoom(d)
           /\ slot' = Release(slot, d)
           /\ sessions' = IF Lapsed(event) \/ Online(d) THEN sessions
                          ELSE [sessions EXCEPT ![d] = 0]
           /\ UNCHANGED <<loop, pairing, tasks, trusted, count>>

(* A second connection of a device that is online joins its session.       *)
JoinSession ==
    \E event \in Arrived :
        LET d == event.device
        IN /\ TakesUp(event) /\ ~Lapsed(event) /\ Online(d)
           /\ ~tasks[sessions[d]].second
           /\ tasks' = [tasks EXCEPT ![sessions[d]].second = TRUE]
           /\ slot' = Release(slot, d)
           /\ UNCHANGED <<loop, pairing, sessions, trusted, count>>

(* A new session.  One of the same device that is on its way out is        *)
(* dropped from the table first (its task gets three seconds); then the    *)
(* slot is claimed, the session that lost it is told to end, and the new   *)
(* one runs with the profile its pairing was promised.                     *)
StartSession ==
    \E event \in Arrived :
        LET d == event.device
            i == count.instances + 1
        IN /\ TakesUp(event) /\ ~Lapsed(event) /\ ~Online(d)
           /\ HasRoom(d) /\ i <= MaxInstances
           /\ slot' = Claim(slot, d)
           /\ tasks' = [Told(tasks, Demoted(slot, d)) EXCEPT
                  ![i] = [device |-> d, profile |-> event.profile, open |-> TRUE,
                          told |-> FALSE, second |-> FALSE]]
           /\ sessions' = [sessions EXCEPT ![d] = i]
           /\ count' = [count EXCEPT !.instances = i]
           /\ UNCHANGED <<loop, pairing, trusted>>

(* mutant ForgetAny: the finished task is not compared with the table.     *)
ForgetAny(event) == sessions[event.device] # 0

(* Only the instance in the table is forgotten: an older one was replaced. *)
IsCurrent(event) == sessions[event.device] = event.instance

(* The loop's turn on a finished session: out of the table, ...            *)
CloseSession ==
    \E event \in Arrived :
        /\ loop = Ready /\ ~Completes(event)
        /\ queue' = Tail(queue)
        /\ sessions' = IF IsCurrent(event) THEN [sessions EXCEPT ![event.device] = 0] ELSE sessions
        /\ loop' = IF IsCurrent(event) THEN Waits("close", event.device) ELSE Ready
        /\ UNCHANGED <<slot, pairing, tasks, trusted, count>>

(* ... and, with the trusted devices at hand, the slot hears of it and may *)
(* be kept for another device, which is told to reconnect.                 *)
SlotHearsEnd ==
    /\ loop.step = "close" /\ ConfigIsFree
    /\ slot' = OnSessionEnd(slot, loop.device, Candidate)
    /\ tasks' = Told(tasks, Promotes(slot, loop.device, Candidate))
    /\ loop' = Ready
    /\ UNCHANGED <<pairing, queue, sessions, trusted, count>>

--------------------------------------------------------------------------------
(* The user's commands.                                                    *)
Commanded ==
    /\ loop = Ready /\ count.commands < MaxCommands
    /\ count' = [count EXCEPT !.commands = @ + 1]

(* Close the logical session and cancel its token.                         *)
Shut(d) ==
    IF sessions[d] \in Running
    THEN [tasks EXCEPT ![sessions[d]].told = TRUE, ![sessions[d]].open = FALSE] ELSE tasks

Disconnect(d) ==
    /\ Commanded /\ sessions[d] # 0
    /\ tasks' = Shut(d)
    /\ UNCHANGED <<loop, slot, pairing, queue, sessions, trusted>>

Revoke(d) ==
    /\ Commanded /\ d \in trusted
    /\ tasks' = Shut(d)
    /\ loop' = Waits("revoke", d)
    /\ UNCHANGED <<slot, pairing, queue, sessions, trusted>>

TrustIsGone ==
    /\ loop.step = "revoke" /\ ConfigIsFree
    /\ trusted' = trusted \ {loop.device}
    /\ loop' = Ready
    /\ UNCHANGED <<slot, pairing, queue, sessions, tasks, count>>

SwitchActive(d) ==
    /\ Commanded /\ slot.active # d /\ sessions[d] # 0
    /\ slot' = RequestSwitch(slot, d)
    /\ tasks' = Told(tasks, d)
    /\ UNCHANGED <<loop, pairing, queue, sessions, trusted>>

ForgetPreferred ==
    /\ Commanded
    /\ slot' = ClearPreferred(slot)
    /\ UNCHANGED <<loop, pairing, queue, sessions, tasks, trusted>>

(* The promotion ticker finds the wait over; a stand-in is told to come    *)
(* back when it was the preferred device that did not return.              *)
WaitExpires ==
    /\ loop = Ready /\ slot.pending # Nobody
    /\ slot' = Expire(slot)
    /\ loop' = IF PromotesStandIn(slot) THEN Waits("promote", Nobody) ELSE Ready
    /\ UNCHANGED <<pairing, queue, sessions, tasks, trusted, count>>

StandInIsTold ==
    /\ loop.step = "promote" /\ ConfigIsFree
    /\ tasks' = Told(tasks, Candidate)
    /\ loop' = Ready
    /\ UNCHANGED <<slot, pairing, queue, sessions, trusted, count>>

--------------------------------------------------------------------------------
(* A session's connection ends; its task cleans up and reports.            *)
SessionBreaks(i) ==
    /\ i \in Running /\ tasks[i].open
    /\ tasks' = [tasks EXCEPT ![i].open = FALSE]
    /\ UNCHANGED <<loop, slot, pairing, queue, sessions, trusted, count>>

SessionEnds(i) ==
    /\ i \in Running /\ ~tasks[i].open
    /\ tasks' = [tasks EXCEPT ![i] = NoTask]
    /\ queue' = Append(queue, [kind |-> "Finished", device |-> tasks[i].device, instance |-> i])
    /\ UNCHANGED <<loop, slot, pairing, sessions, trusted, count>>

Next ==
    \/ \E d \in Devices, reconnect \in BOOLEAN : PairingStarts(d, reconnect)
    \/ \E only \in BOOLEAN : PairingReserves(only)
    \/ PairingFails \/ PairingEnds
    \/ TurnAway \/ JoinSession \/ StartSession \/ CloseSession \/ SlotHearsEnd
    \/ \E d \in Devices : Disconnect(d) \/ Revoke(d) \/ SwitchActive(d)
    \/ TrustIsGone \/ ForgetPreferred \/ WaitExpires \/ StandInIsTold
    \/ \E i \in Instances : SessionBreaks(i) \/ SessionEnds(i)

Spec == Init /\ [][Next]_vars

--------------------------------------------------------------------------------
(* Every variable has its type, and the table keeps to its limit.          *)
TypeOK ==
    /\ loop \in [step : {"ready", "close", "revoke", "promote"}, device : Devices \cup {Nobody}]
    /\ slot \in Slots(Devices)
    /\ pairing \in Pairings \cup {NoPairing}
    /\ queue \in Seq(Events)
    /\ sessions \in [Devices -> 0 .. MaxInstances]
    /\ Cardinality({d \in Devices : sessions[d] # 0}) <= MaxSessions
    /\ tasks \in [Instances -> Tasks \cup {NoTask}]
    /\ trusted \subseteq Saved

(* A promise of the slot is always in somebody's hands, a pairing or a     *)
(* completed pairing in the queue: one that leaked would keep every other  *)
(* device out for good (SlotReservation's drop).                           *)
ReservationIsHeld ==
    slot.reserved # Nobody =>
        \/ pairing # NoPairing /\ pairing.device = slot.reserved /\ pairing.profile = "Full"
        \/ \E k \in DOMAIN queue :
               /\ Completes(queue[k]) /\ queue[k].device = slot.reserved
               /\ queue[k].profile = "Full"

(* The slot is never held by a device that has no session, except while    *)
(* the loop is handling the end of it: nobody would give it back.          *)
NoGhostHolder ==
    slot.active # Nobody => sessions[slot.active] # 0 \/ loop = Waits("close", slot.active)

(* Whoever loses the slot to another device, one that comes back or one    *)
(* the user switches to, is told to end its session: claim decides anew    *)
(* whom it demotes, long after reserve, and must come to the same end.     *)
(* Except where what the promise rested on was taken back in between.      *)
HolderIsDisplaced == slot.active # Nobody /\ slot'.active \notin {slot.active, Nobody}
HolderHears ==
    LET i == sessions[slot.active] IN i \in Running => tasks'[i] = NoTask \/ tasks'[i].told

HolderIsTold == [][HolderIsDisplaced /\ ~slot.withdrawn => HolderHears]_vars

(* Whoever loses the slot is told, always (active_slot.rs:142: the claim   *)
(* demotes the old session). It is not: see the findings.                  *)
HolderAlwaysTold == [][HolderIsDisplaced => HolderHears]_vars

(* A session leaves the table only when it is closed or told to end, never *)
(* because an older session of the same device reports its end late.       *)
LiveSessionStays == [][\A d \in Devices : Online(d) => sessions'[d] = sessions[d]]_vars

(* Audio and input have one session: no two sessions run with the full     *)
(* profile unless all but one are told to end.                             *)
OneFullSession ==
    \A i, j \in Running :
        Alive(i) /\ Alive(j) /\ tasks[i].profile = "Full" /\ tasks[j].profile = "Full" => i = j
================================================================================
