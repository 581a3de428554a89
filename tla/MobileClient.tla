---------------------------- MODULE MobileClient ----------------------------
(***************************************************************************)
(* The Android application's engine (SynlyEngine.kt) over the client of    *)
(* the core library (client.rs, ffi.rs).  The engine keeps the handle of   *)
(* at most one client and counts generations; stopped clients end in the   *)
(* background while new ones start.  A client reads its commands only at a *)
(* prompt and in a session; what is sent in between waits in its queue.    *)
(* MobileDevices are the host ("peer") and any other; lists of trusted devices   *)
(* are sets of them.                                                       *)
(***************************************************************************)
EXTENDS Naturals, Sequences, FiniteSets, SequencesExt

CONSTANTS MaxClients, \* bound: clients started
          MaxTaps,    \* bound: actions of the user
          MaxQueue    \* bound: commands waiting at one client

ASSUME MobileAssumption == {MaxClients, MaxTaps, MaxQueue} \subseteq Nat

VARIABLES
    engine,  \* generation, handle (0: none), whether there is a target, whether a start is queued
    ui,      \* what is shown: the state and the prompt, each with the client it came from
    store,   \* the trusted devices on disk
    reading, \* updates being sent: <<client, list read from the store>>
    clients, \* the client tasks
    taps

mobileVars == <<engine, ui, store, reading, clients, taps>>

Clients == 1..MaxClients
MobileDevices == {"peer", "other"}

Unborn == [stage |-> "unborn", gen |-> 0, trusted |-> {}, told |-> FALSE, queue |-> <<>>]
Blank == [connected |-> 0, prompt |-> 0]

MobileInit ==
    /\ engine = [gen |-> 0, handle |-> 0, target |-> FALSE, starts |-> {}]
    /\ ui = Blank
    /\ store \in SUBSET MobileDevices /\ reading = {}
    /\ clients = [c \in Clients |-> Unborn]
    /\ taps = 0

-----------------------------------------------------------------------------
(* The engine.  Its lock makes each operation, and each callback, atomic.  *)

Pin == [kind |-> "pin"]
Cancel == [kind |-> "cancel"]
Trust(list) == [kind |-> "trust", list |-> list]

Push(c, command) == [c EXCEPT !.queue = Append(@, command)]

\* The handle is let go and its client told to stop, in the background.
Retired(cs) ==
    IF engine.handle = 0 THEN cs ELSE [cs EXCEPT ![engine.handle].told = TRUE]

Retire(again, cs) ==
    /\ engine' = [gen |-> engine.gen + 1, handle |-> 0, target |-> again,
                  starts |-> engine.starts \cup (IF again THEN {engine.gen + 1} ELSE {})]
    /\ ui' = Blank
    /\ clients' = Retired(cs)

Tap == taps < MaxTaps /\ taps' = taps + 1

\* connect, reconnect, reloadConfiguration and settings that need a new client.
TapConnect == Tap /\ Retire(TRUE, clients) /\ UNCHANGED <<store, reading>>

\* stop and disconnect.
TapStop == Tap /\ Retire(FALSE, clients) /\ UNCHANGED <<store, reading>>

\* The queued start runs, unless a later generation began.
RunStart(g) ==
    /\ g \in engine.starts
    /\ \/ /\ g # engine.gen
          /\ engine' = [engine EXCEPT !.starts = @ \ {g}]
          /\ UNCHANGED <<ui, clients>>
       \/ /\ g = engine.gen \* the configuration or the library refuses
          /\ engine' = [gen |-> g + 1, handle |-> 0, target |-> FALSE, starts |-> engine.starts \ {g}]
          /\ ui' = Blank /\ UNCHANGED clients
       \/ /\ g = engine.gen
          /\ \E c \in Clients :
                /\ \A d \in Clients : clients[d].stage = "unborn" <=> d >= c
                /\ engine' = [engine EXCEPT !.starts = @ \ {g}, !.handle = c]
                /\ clients' = [clients EXCEPT ![c] = [Unborn EXCEPT !.stage = "connect", !.gen = g,
                                                                   !.trusted = store]]
          /\ UNCHANGED ui
    /\ UNCHANGED <<store, reading, taps>>

SendTo(c, command) ==
    /\ Len(clients[c].queue) < MaxQueue
    /\ clients' = [clients EXCEPT ![c] = Push(@, command)]

\* The PIN goes to the client of this moment; the dialog may be dismissed or not.
TapPin(command) ==
    /\ Tap /\ ui.prompt # 0 /\ engine.handle # 0 /\ SendTo(engine.handle, command)
    /\ ui' \in {ui, [ui EXCEPT !.prompt = 0]}
    /\ UNCHANGED <<engine, store, reading>>

\* The user removes a device; the handle and the new list are read, and the list is
\* sent, without the lock.
TapForget(device) ==
    /\ Tap /\ device \in store
    /\ store' = store \ {device}
    /\ reading' = IF engine.handle = 0 THEN reading ELSE reading \cup {<<engine.handle, store'>>}
    /\ UNCHANGED <<engine, ui, clients>>

ClientRuns(c) == clients[c].stage \in {"connect", "prompt", "pairing", "session", "wait"}

SendTrust(read) ==
    /\ read \in reading /\ reading' = reading \ {read}
    /\ IF ClientRuns(read[1]) THEN SendTo(read[1], Trust(read[2])) ELSE UNCHANGED clients
    /\ UNCHANGED <<engine, ui, store, taps>>

-----------------------------------------------------------------------------
(* A client and the callbacks it makes.  A callback of an old generation   *)
(* changes nothing.                                                        *)

Current(c) == clients[c].gen = engine.gen
\* Mutant: the generation of a callback is not compared.
ShowsLate(c, shown) == ui' = shown

Shows(c, shown) == ui' = IF Current(c) THEN shown ELSE ui

At(c, stage) == clients' = [clients EXCEPT ![c].stage = stage]
MobileRest == UNCHANGED <<engine, store, reading, taps>>

\* A terminal failure: Disconnected, then PairingFailed, which retires the client.
EndsFor(c, why) ==
    /\ IF Current(c)
       THEN Retire(FALSE, [clients EXCEPT ![c].stage = why, ![c].queue = <<>>])
       ELSE /\ clients' = [clients EXCEPT ![c].stage = why, ![c].queue = <<>>]
            /\ UNCHANGED <<engine, ui>>
    /\ UNCHANGED <<store, reading, taps>>

\* connect_and_run: a trusted peer by mutual TLS, otherwise, or when that fails, the
\* prompt of a pairing.  Without a connection the attempt has failed.
ConnectStep(c) ==
    /\ clients[c].stage = "connect"
    /\ \/ "peer" \in clients[c].trusted /\ At(c, "session") /\ Shows(c, [connected |-> c, prompt |-> 0])
       \/ At(c, "prompt") /\ Shows(c, [ui EXCEPT !.prompt = c])
       \/ At(c, "wait") /\ Shows(c, Blank)
    /\ MobileRest

\* At the prompt the commands are read, old ones first.
PromptReads(c) ==
    /\ clients[c].stage = "prompt" /\ clients[c].queue # <<>>
    /\ LET command == Head(clients[c].queue)
           rest == [clients[c] EXCEPT !.queue = Tail(@)] IN
       \/ /\ command = Pin
          /\ clients' = [clients EXCEPT ![c] = [rest EXCEPT !.stage = "pairing"]]
          /\ UNCHANGED ui /\ MobileRest
       \/ command = Cancel /\ EndsFor(c, "failed")
       \/ /\ command.kind = "trust"
          /\ clients' = [clients EXCEPT ![c] = [rest EXCEPT !.trusted = command.list]]
          /\ UNCHANGED ui /\ MobileRest

\* The wait for the user is over after 90 seconds, or the client was told to stop.
PromptEnds(c) == clients[c].stage = "prompt" /\ EndsFor(c, "failed")

\* The pairing succeeds, with trust or without, or fails for good.
PairingStep(c) ==
    /\ clients[c].stage = "pairing"
    /\ \/ EndsFor(c, "failed")
       \/ At(c, "session") /\ Shows(c, [connected |-> c, prompt |-> 0]) /\ MobileRest
       \/ /\ "peer" \notin clients[c].trusted
          /\ LET mine == [clients EXCEPT ![c].stage = "session", ![c].trusted = @ \cup {"peer"}] IN
             IF Current(c)
             THEN /\ store' = store \cup {"peer"}
                  /\ Len(clients[c].queue) < MaxQueue
                  /\ clients' = [mine EXCEPT ![c] = Push(@, Trust(store'))]
             ELSE clients' = mine /\ UNCHANGED store
          /\ Shows(c, [connected |-> c, prompt |-> 0])
          /\ UNCHANGED <<engine, reading, taps>>

\* In a session a PIN means nothing, and a list without the peer revokes it.
SessionReads(c) ==
    /\ clients[c].stage = "session" /\ clients[c].queue # <<>>
    /\ LET command == Head(clients[c].queue)
           rest == [clients[c] EXCEPT !.queue = Tail(@)] IN
       IF command.kind # "trust"
       THEN clients' = [clients EXCEPT ![c] = rest] /\ UNCHANGED ui /\ MobileRest
       ELSE IF "peer" \in clients[c].trusted \ command.list
       THEN EndsFor(c, "revoked")
       ELSE /\ clients' = [clients EXCEPT ![c] = [rest EXCEPT !.trusted = command.list]]
            /\ UNCHANGED ui /\ MobileRest

SessionEnd(c) ==
    /\ clients[c].stage = "session"
    /\ At(c, "wait") /\ Shows(c, Blank)
    /\ MobileRest

\* The retry delay; a told client leaves the loop here, or before an attempt.
WaitEnds(c) ==
    /\ clients[c].stage = "wait"
    /\ At(c, IF clients[c].told THEN "done" ELSE "connect")
    /\ UNCHANGED ui /\ MobileRest

ClientLeaves(c) ==
    /\ clients[c].stage = "connect" /\ clients[c].told
    /\ At(c, "done")
    /\ UNCHANGED ui /\ MobileRest

-----------------------------------------------------------------------------
ClientStep(c) ==
    \/ ConnectStep(c) \/ PromptReads(c) \/ PairingStep(c) \/ SessionReads(c) \/ WaitEnds(c) \/ ClientLeaves(c)

MobileNext ==
    \/ TapConnect \/ TapStop
    \/ \E command \in {Pin, Cancel} : TapPin(command)
    \/ \E device \in MobileDevices : TapForget(device)
    \/ \E g \in engine.starts : RunStart(g)
    \/ \E read \in reading : SendTrust(read)
    \/ \E c \in Clients : ClientStep(c) \/ PromptEnds(c) \/ SessionEnd(c)

\* Every client goes on, and its handshakes end one way or the other: the network
\* answers or fails.  A client that is told leaves a prompt and a session.  Queued
\* coroutines run.  Users and hosts promise nothing.
MobileFairness ==
    /\ \A c \in Clients :
          /\ WF_mobileVars(ClientStep(c))
          /\ WF_mobileVars(clients[c].told /\ (PromptEnds(c) \/ SessionEnd(c)))
    /\ WF_mobileVars(\E g \in engine.starts : RunStart(g))
    /\ WF_mobileVars(\E read \in reading : SendTrust(read))

MobileSpec == MobileInit /\ [][MobileNext]_mobileVars /\ MobileFairness

-----------------------------------------------------------------------------
MobileTypeOK ==
    /\ engine.handle \in 0..MaxClients /\ engine.starts \subseteq 1..engine.gen
    /\ ui \in [connected : 0..MaxClients, prompt : 0..MaxClients]
    /\ store \subseteq MobileDevices /\ taps \in 0..MaxTaps

\* The screen shows the client that runs, as it is: no late callback of an older
\* client shows a connection or a prompt.
ScreenIsTrue ==
    /\ ui.connected # 0 => ui.connected = engine.handle /\ clients[ui.connected].stage = "session"
    /\ ui.prompt # 0 => ui.prompt = engine.handle

\* A session ends as revoked only when its peer was removed from the store.
RevokedMeansRemoved ==
    [][\A c \in Clients :
          clients'[c].stage = "revoked" /\ clients[c].stage # "revoked" => "peer" \notin store]_mobileVars
=============================================================================
