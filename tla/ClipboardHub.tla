------------------------------ MODULE ClipboardHub ------------------------------
(***************************************************************************)
(* The host's clipboard hub: one task that applies what the sessions       *)
(* receive to the clipboard of the system, one payload at a time, and      *)
(* passes everything on to the sessions that may receive.                  *)
(*                                                                         *)
(* Sessions talk to it through one bounded queue that drops what does not  *)
(* fit.  The watcher of the system's clipboard reports every change, also  *)
(* the ones the hub made: those must not travel back (an echo).  A payload *)
(* that comes within the rest after an application waits in one slot, and  *)
(* gives it up to a newer one.                                             *)
(*                                                                         *)
(* A payload is a transfer's number, its content one of a few values.  What*)
(* the system gives back need not be the content that was put there: text  *)
(* beside files is left out, a file of the same name is stored under       *)
(* another, files leave the cache, an image is encoded anew (OsClipboard). *)
(* Times are events: the rest ends, a signature or a rate entry expires.   *)
(***************************************************************************)
EXTENDS Naturals, Sequences, TLAPS

CONSTANTS
    Devices, Contents,
    ReadsAs,          \* what a content on the clipboard may be read as, or Nothing
    Sessions,         \* the sessions, 1 .. n, in the order they start
    Owner,            \* the device of each
    Nothing,          \* no content, no event, no subscriber
    QueueLimit,       \* INGEST_CAPACITY
    RateLimit,        \* PER_SOURCE_MAX_EVENTS
    Scenarios         \* bounds: see Kinds

(* Bounds of the model: sessions that start, payloads they receive, changes*)
(* the user makes to the clipboard and to a session's direction.           *)
Kinds == {"sessions", "transfers", "copies", "toggles"}

ASSUME HubAssumption ==
    /\ Nothing \notin Contents /\ ReadsAs \in [Contents -> SUBSET (Contents \cup {Nothing}) \ {{}}]
    /\ Sessions \subseteq Nat \ {0}
    /\ Owner \in [Sessions -> Devices]
    /\ QueueLimit \in Nat \ {0} /\ RateLimit \in Nat \ {0}
    /\ Scenarios \subseteq [Kinds -> Nat]

VARIABLES
    os,          \* the system's clipboard: what was put there, by whom, and whether the watcher has yet to read it
    watcher,     \* the watcher runs
    local,       \* what it reported (local_rx)
    events,      \* the hub's bounded queue
    subscribers, \* by device: [session, receive_enabled, snapshot_sent]
    policy,      \* signatures seen lately, and recent events of each source
    sync,        \* ClipboardSyncState: [last, suppress]
    pending,     \* the payload that waits for the rest to end
    resting,     \* next_allowed has not come
    applying,    \* the transfer that is being applied, or 0
    stage,       \* of each session: "new", "open", "leaving", "gone"
    transfers,   \* the payloads received: [session, content, tracked]
    receipt,     \* what is known of each
    shared,      \* the last thing passed on
    left         \* left[k]: how many of each kind may still come

hub == <<subscribers, policy, sync, pending, resting, applying, shared>>
vars == <<os, watcher, local, events, subscribers, policy, sync, pending, resting, applying,
          stage, transfers, receipt, shared, left>>

Transfers == UNION {1 .. scenario["transfers"] : scenario \in Scenarios}
Outcomes == {"Applied", "Failed", "RateLimited", "Superseded", "Closed", "QueueFull"}
Local == "local"                                \* SourceKey::Local
Sources == Devices \cup {Local}
Authors == {"user", "remote", "altered"}        \* altered: see Author

Ingest(t) == [kind |-> "Ingest", transfer |-> t]
LocalChange(c, by) == [kind |-> "Local", content |-> c, by |-> by]
Payloads == [kind : {"Ingest"}, transfer : Transfers]
                \cup [kind : {"Local"}, content : Contents, by : Authors]
Subscription(kind, i) == [kind |-> kind, session |-> i]
Enabled(i, on) == [kind |-> "SetReceiveEnabled", session |-> i, on |-> on]

Init ==
    /\ \E c \in Contents : os = [content |-> c, by |-> "user", unread |-> FALSE]
    /\ watcher = FALSE /\ local = <<>> /\ events = <<>>
    /\ subscribers = [d \in Devices |-> Nothing]
    /\ policy = [seen |-> {}, used |-> [s \in Sources |-> 0]]
    /\ sync = [last |-> Nothing, suppress |-> Nothing]
    /\ pending = Nothing /\ resting = FALSE /\ applying = 0
    /\ stage = [i \in Sessions |-> "new"]
    /\ transfers = <<>> /\ receipt = <<>>
    /\ shared = Nothing
    /\ left \in Scenarios

--------------------------------------------------------------------------------
(* mutant SendBeyond: the capacity is compared one too late.               *)
SendBeyond(queue, event) == IF Len(queue) <= QueueLimit THEN Append(queue, event) ELSE queue

(* try_send: an event that does not fit is dropped.                        *)
Send(queue, event) == IF Len(queue) < QueueLimit THEN Append(queue, event) ELSE queue

Spend(kind) ==
    /\ left[kind] > 0
    /\ left' = [left EXCEPT ![kind] = @ - 1]

(* A session subscribes as it starts.  The host waits for the one it       *)
(* replaces, but three seconds at most, so the two may overlap.            *)
Open(i) ==
    /\ stage[i] = "new" /\ Spend("sessions")
    /\ \A j \in Sessions : j < i => stage[j] # "new"
    /\ stage' = [stage EXCEPT ![i] = "open"]
    /\ events' = Send(events, Subscription("Subscribe", i))
    /\ UNCHANGED <<os, watcher, local, hub, transfers, receipt>>

Toggle(i, on) ==
    /\ stage[i] = "open" /\ Spend("toggles")
    /\ events' = Send(events, Enabled(i, on))
    /\ UNCHANGED <<os, watcher, local, hub, stage, transfers, receipt>>

(* A payload arrives: one that wants a receipt, only when none is being    *)
(* waited for, or one of an older sender.                                  *)
Receive(i, c, tracked) ==
    /\ stage[i] = "open" /\ Spend("transfers")
    /\ tracked => \A t \in DOMAIN transfers : transfers[t].session = i => receipt[t] # "waiting"
    /\ transfers' = Append(transfers, [session |-> i, content |-> c, tracked |-> tracked])
    /\ receipt' = Append(receipt, CASE ~tracked -> "none"
                                    [] Len(events) < QueueLimit -> "waiting"
                                    [] OTHER -> "QueueFull")
    /\ events' = Send(events, Ingest(Len(transfers) + 1))
    /\ UNCHANGED <<os, watcher, local, hub, stage>>

(* The session's loop is over; its tasks are stopped after that.  On an    *)
(* error the hub is not told.                                              *)
BreakOff(i) ==
    /\ stage[i] = "open"
    /\ stage' = [stage EXCEPT ![i] = "leaving"]
    /\ UNCHANGED <<os, watcher, local, events, hub, transfers, receipt, left>>

Leave(i) ==
    /\ stage[i] = "open"
    /\ stage' = [stage EXCEPT ![i] = "leaving"]
    /\ events' = Send(Send(events, Enabled(i, FALSE)), Subscription("Unsubscribe", i))
    /\ UNCHANGED <<os, watcher, local, hub, transfers, receipt, left>>

(* ... and the receipt it waited for is dropped.                           *)
Vanish(i) ==
    /\ stage[i] = "leaving"
    /\ stage' = [stage EXCEPT ![i] = "gone"]
    /\ receipt' = [t \in DOMAIN receipt |->
           IF transfers[t].session = i /\ receipt[t] = "waiting" THEN "dropped" ELSE receipt[t]]
    /\ UNCHANGED <<os, watcher, local, events, hub, transfers, left>>

--------------------------------------------------------------------------------
(* The user copies; the watcher reads the clipboard and reports it.        *)
Copy(c) ==
    /\ Spend("copies")
    /\ os' = [content |-> c, by |-> "user", unread |-> watcher]
    /\ UNCHANGED <<watcher, local, events, hub, stage, transfers, receipt>>

(* capture_clipboard: something, or nothing when no file is left or the    *)
(* system refuses.                                                         *)
Readings == ReadsAs[os.content]

(* The hub's own content as the system gives it back: "remote" when it is  *)
(* the one that was put there, "altered" when it is not.                   *)
Author(c) == IF os.by = "remote" /\ c # os.content THEN "altered" ELSE os.by

Report ==
    /\ watcher /\ os.unread
    /\ \E c \in Readings :
           local' = IF c = Nothing THEN local ELSE Append(local, LocalChange(c, Author(c)))
    /\ os' = [os EXCEPT !.unread = FALSE]
    /\ UNCHANGED <<watcher, events, hub, stage, transfers, receipt, left>>

--------------------------------------------------------------------------------
Answer(t, outcome) ==
    IF receipt[t] = "waiting" THEN [receipt EXCEPT ![t] = outcome] ELSE receipt

(* mutant Unrecorded: what was applied is not remembered.                  *)
Unrecorded(source, c) == [policy EXCEPT !.used[source] = @ + 1]

(* HubPolicy::record.                                                      *)
Record(source, c) == [seen |-> policy.seen \cup {c}, used |-> [policy.used EXCEPT ![source] = @ + 1]]

(* broadcast: whoever is enabled, except the source; a subscriber whose    *)
(* session is gone is forgotten.                                           *)
Reached(source) ==
    {d \in Devices \ {source} : subscribers[d] # Nothing /\ subscribers[d].receive_enabled}
Standing(source) ==
    [d \in Devices |-> IF d \in Reached(source) /\ stage[subscribers[d].session] = "gone"
                       THEN Nothing ELSE subscribers[d]]
Broadcast(source, c, by, applied) ==
    /\ shared' = [content |-> c, by |-> by, applied |-> applied]
    /\ subscribers' = Standing(source)

(* note_local_payload: an echo and a repetition are not passed on.         *)
IsNews(c) == c \notin {sync.suppress, sync.last}
NoteLocal(c) ==
    [last |-> c, suppress |-> IF sync.suppress = c THEN Nothing ELSE sync.suppress]

(* The hub takes a change of the local clipboard.                          *)
TakeLocal(event) ==
    LET c == event.content
        dropped == c \in policy.seen \/ policy.used[Local] >= RateLimit
    IN /\ UNCHANGED <<applying, receipt>>
       /\ sync' = IF dropped THEN sync ELSE NoteLocal(c)
       /\ IF ~dropped /\ IsNews(c)
          THEN /\ policy' = Record(Local, c)
               /\ Broadcast(Local, c, event.by, TRUE)
               /\ resting' = TRUE
          ELSE UNCHANGED <<policy, shared, subscribers, resting>>

(* mutant RefuseRepeated: transfers are told apart by content only.        *)
RefuseRepeated(t) ==
    LET d == Owner[transfers[t].session]
    IN CASE transfers[t].tracked /\ subscribers[d] = Nothing -> "Closed"
         [] transfers[t].content \in policy.seen -> "Applied"
         [] policy.used[d] >= RateLimit -> "RateLimited"
         [] OTHER -> "none"

(* Why the hub does not apply a transfer, or "none".  A transfer that      *)
(* wants a receipt is not compared with what was seen.                     *)
Refuse(t) ==
    LET d == Owner[transfers[t].session]
    IN CASE transfers[t].tracked /\ subscribers[d] = Nothing -> "Closed"
         [] ~transfers[t].tracked /\ transfers[t].content \in policy.seen -> "Superseded"
         [] policy.used[d] >= RateLimit -> "RateLimited"
         [] OTHER -> "none"

(* The hub takes a transfer: it answers at once or starts to apply it.     *)
TakeTransfer(t) ==
    /\ UNCHANGED <<sync, policy, shared, subscribers, resting>>
    /\ \/ /\ receipt[t] = "dropped"
          /\ UNCHANGED <<applying, receipt>>
       \/ /\ receipt[t] # "dropped" /\ Refuse(t) # "none"
          /\ receipt' = Answer(t, Refuse(t))
          /\ UNCHANGED applying
       \/ /\ receipt[t] # "dropped" /\ Refuse(t) = "none"
          /\ applying' = t
          /\ UNCHANGED receipt

Process(event) ==
    IF event.kind = "Local" THEN TakeLocal(event) ELSE TakeTransfer(event.transfer)

Superseded(event) ==
    IF event.kind = "Ingest" THEN Answer(event.transfer, "Superseded") ELSE receipt

(* A payload takes the slot of an older one, waits, or is processed.       *)
TakePayload(event) ==
    \/ /\ pending # Nothing
       /\ pending' = event /\ receipt' = Superseded(pending)
       /\ UNCHANGED <<subscribers, policy, sync, resting, applying, shared>>
    \/ /\ pending = Nothing /\ resting
       /\ pending' = event
       /\ UNCHANGED <<subscribers, policy, sync, resting, applying, shared, receipt>>
    \/ /\ pending = Nothing /\ ~resting
       /\ Process(event)
       /\ UNCHANGED pending

TakeEvent ==
    /\ applying = 0 /\ events # <<>> /\ Head(events).kind = "Ingest"
    /\ events' = Tail(events)
    /\ TakePayload(Head(events))
    /\ UNCHANGED <<os, watcher, local, stage, transfers, left>>

TakeReport ==
    /\ applying = 0 /\ local # <<>>
    /\ local' = Tail(local)
    /\ TakePayload(Head(local))
    /\ UNCHANGED <<os, watcher, events, stage, transfers, left>>

(* mutant DueWithEvent: nothing wakes the hub but the next event.          *)
DueWithEvent == pending # Nothing /\ ~resting /\ events # <<>>

(* The select's deadline: the rest of the payload that waits is over.      *)
Due == pending # Nothing /\ ~resting

TimerFires ==
    /\ applying = 0 /\ Due
    /\ pending' = Nothing
    /\ Process(pending)
    /\ UNCHANGED <<os, watcher, local, events, stage, transfers, left>>

--------------------------------------------------------------------------------
Control(kind) ==
    /\ applying = 0 /\ events # <<>> /\ Head(events).kind = kind
    /\ events' = Tail(events)
    /\ UNCHANGED <<local, policy, sync, resting, applying, stage, transfers, left>>

(* A subscription replaces the one of an older session.  The watcher is    *)
(* started with the first, if the system allows it.                        *)
Subscribe ==
    LET i == Head(events).session
    IN /\ Control("Subscribe")
       /\ subscribers' = [subscribers EXCEPT ![Owner[i]] =
              [session |-> i, receive_enabled |-> FALSE, snapshot_sent |-> FALSE]]
       /\ watcher' \in {watcher, TRUE}
       /\ UNCHANGED <<os, pending, receipt, shared>>

IsPendingOf(d) ==
    pending # Nothing /\ pending.kind = "Ingest" /\ Owner[transfers[pending.transfer].session] = d

(* What waits for the device that leaves is refused, not applied.          *)
Withdraw(d) ==
    IF IsPendingOf(d)
    THEN pending' = Nothing /\ receipt' = Answer(pending.transfer, "Closed")
    ELSE UNCHANGED <<pending, receipt>>

Unsubscribe ==
    LET d == Owner[Head(events).session]
    IN /\ Control("Unsubscribe")
       /\ subscribers' = [subscribers EXCEPT ![d] = Nothing]
       /\ Withdraw(d)
       /\ watcher' = (watcher /\ \E e \in Devices : subscribers'[e] # Nothing)
       /\ os' = [os EXCEPT !.unread = @ /\ watcher']
       /\ UNCHANGED shared

(* The first time a session may receive it gets the clipboard as it is     *)
(* read.                                                                   *)
SetReceiveEnabled ==
    LET d == Owner[Head(events).session]
        on == Head(events).on
        first == subscribers[d] # Nothing /\ on /\ ~subscribers[d].receive_enabled
                    /\ ~subscribers[d].snapshot_sent
    IN /\ Control("SetReceiveEnabled")
       /\ subscribers' = IF subscribers[d] = Nothing THEN subscribers
                         ELSE [subscribers EXCEPT ![d].receive_enabled = on,
                                                  ![d].snapshot_sent = @ \/ on]
       /\ \E c \in Readings :
              shared' = IF first /\ c # Nothing
                        THEN [content |-> c, by |-> "snapshot", applied |-> TRUE] ELSE shared
       /\ UNCHANGED <<os, watcher, pending, receipt>>

--------------------------------------------------------------------------------
(* The system has the payload: the clipboard changes unless it was read as *)
(* that very payload, and the receipt is answered after everybody else was *)
(* served.                                                                 *)
Applied ==
    LET c == transfers[applying].content
        d == Owner[transfers[applying].session]
    IN /\ applying # 0 /\ applying' = 0
       /\ \E found \in Readings :
              /\ os' = IF found = c THEN os
                       ELSE [content |-> c, by |-> "remote", unread |-> watcher]
              /\ sync' = [last |-> c, suppress |-> IF found = c THEN Nothing ELSE c]
       /\ policy' = Record(d, c)
       /\ Broadcast(d, c, "transfer", TRUE)
       /\ receipt' = Answer(applying, "Applied")
       /\ resting' = TRUE
       /\ UNCHANGED <<watcher, local, events, pending, stage, transfers, left>>

(* The system refused it: the others are still served.                     *)
NotApplied ==
    LET c == transfers[applying].content
        d == Owner[transfers[applying].session]
    IN /\ applying # 0 /\ applying' = 0
       /\ policy' = Record(d, c)
       /\ Broadcast(d, c, "transfer", FALSE)
       /\ receipt' = Answer(applying, "Failed")
       /\ UNCHANGED <<os, watcher, local, events, pending, sync, resting, stage, transfers, left>>

(* Time passes: the rest (MIN_APPLY_INTERVAL), the life of a signature and *)
(* of a rate entry.  The hub keeps up: no change of the clipboard waits for*)
(* it, and no application takes, the ten seconds a signature lives.        *)
RestEnds ==
    /\ resting /\ resting' = FALSE
    /\ UNCHANGED <<os, watcher, local, events, subscribers, policy, sync, pending, applying,
                   stage, transfers, receipt, shared, left>>

KeepsUp == ~os.unread /\ local = <<>> /\ pending = Nothing /\ ~resting /\ applying = 0

SignatureExpires(c) ==
    /\ c \in policy.seen /\ KeepsUp
    /\ policy' = [policy EXCEPT !.seen = @ \ {c}]
    /\ UNCHANGED <<os, watcher, local, events, subscribers, sync, pending, resting, applying,
                   stage, transfers, receipt, shared, left>>

RateExpires(s) ==
    /\ policy.used[s] > 0 /\ KeepsUp
    /\ policy' = [policy EXCEPT !.used[s] = @ - 1]
    /\ UNCHANGED <<os, watcher, local, events, subscribers, sync, pending, resting, applying,
                   stage, transfers, receipt, shared, left>>

Next ==
    \/ \E i \in Sessions :
           \/ Open(i) \/ Leave(i) \/ BreakOff(i) \/ Vanish(i)
           \/ \E on \in BOOLEAN : Toggle(i, on)
           \/ \E c \in Contents, tracked \in BOOLEAN : Receive(i, c, tracked)
    \/ \E c \in Contents : Copy(c) \/ SignatureExpires(c)
    \/ \E s \in Sources : RateExpires(s)
    \/ Report \/ TakeEvent \/ TakeReport \/ TimerFires
    \/ Subscribe \/ Unsubscribe \/ SetReceiveEnabled
    \/ Applied \/ NotApplied \/ RestEnds

Spec == Init /\ [][Next]_vars

(* The hub's task runs, the system answers, and time passes.               *)
Fairness ==
    /\ WF_vars(TakeEvent) /\ WF_vars(TakeReport) /\ WF_vars(TimerFires)
    /\ WF_vars(Subscribe) /\ WF_vars(Unsubscribe) /\ WF_vars(SetReceiveEnabled)
    /\ WF_vars(Applied \/ NotApplied) /\ WF_vars(RestEnds)

FairSpec == Spec /\ Fairness

--------------------------------------------------------------------------------
(* Every variable has its type, and the queue keeps to its capacity.       *)
TypeOK ==
    /\ os \in [content : Contents, by : Authors, unread : BOOLEAN]
    /\ watcher \in BOOLEAN /\ resting \in BOOLEAN
    /\ local \in Seq(Payloads) /\ pending \in Payloads \cup {Nothing}
    /\ Len(events) <= QueueLimit
    /\ subscribers \in [Devices -> {Nothing} \cup
           [session : Sessions, receive_enabled : BOOLEAN, snapshot_sent : BOOLEAN]]
    /\ policy.seen \subseteq Contents /\ policy.used \in [Sources -> 0 .. RateLimit]
    /\ sync \in [last : Contents \cup {Nothing}, suppress : Contents \cup {Nothing}]
    /\ applying \in 0 .. Len(transfers)
    /\ stage \in [Sessions -> {"new", "open", "leaving", "gone"}]
    /\ transfers \in Seq([session : Sessions, content : Contents, tracked : BOOLEAN])
    /\ receipt \in [DOMAIN transfers -> Outcomes \cup {"none", "waiting", "dropped"}]

(* A receipt says Applied only when the system has that very transfer, or  *)
(* was found to read as it, not because it is queued or because its content*)
(* was seen before.                                                        *)
Holds(board, c) == board.content = c \/ (board = os /\ c \in ReadsAs[os.content])
ConfirmedIsOnClipboard ==
    [][\A t \in DOMAIN receipt : receipt'[t] = "Applied" /\ receipt[t] # "Applied" =>
           applying = t /\ Holds(os', transfers[t].content)]_vars

(* What the hub wrote to the clipboard and the system gives back as it was *)
(* written is never passed on as a change of the local user, to be sent to *)
(* the device it came from: however late the watcher reads it, whatever is *)
(* applied, copied or refused meanwhile, and whenever signatures expire.   *)
(* What comes back altered is passed on: see NothingReturns.               *)
NoEcho == shared # Nothing => shared.by # "remote"

(* Nothing the hub wrote comes back, altered or not (clipboard_hub.rs:26). *)
(* It does: see EchoIsHeld among the findings.                             *)
NothingReturns == shared # Nothing => shared.by \notin {"remote", "altered"}

IsWaiting(t) == t \in DOMAIN receipt /\ receipt[t] = "waiting"

(* Every reliable transfer is answered, or its session ends: who waits does*)
(* not wait for ever, and nobody begins to wait a second time.             *)
Answered == \A t \in Transfers : []<>~IsWaiting(t)

(* A payload the system refused is passed on to nobody.                    *)
FailureIsNotShared == shared # Nothing => shared.applied

--------------------------------------------------------------------------------
(* Proofs.  What a message, a change and a payload that waits may be.      *)
Changes == [kind : {"Local"}, content : Contents, by : Authors]
Taken(n) == [kind : {"Ingest"}, transfer : 1 .. n]
Letters(n) ==
    Taken(n) \cup [kind : {"Subscribe", "Unsubscribe"}, session : Sessions]
             \cup [kind : {"SetReceiveEnabled"}, session : Sessions, on : BOOLEAN]
Subscribers == [session : Sessions, receive_enabled : BOOLEAN, snapshot_sent : BOOLEAN]
Received == [session : Sessions, content : Contents, tracked : BOOLEAN]
Receipts == Outcomes \cup {"none", "waiting", "dropped"}

(* The budget a behaviour started with.                                    *)
WithinBudget == \E scenario \in Scenarios : left["transfers"] + Len(transfers) = scenario["transfers"]

(* A transfer is only applied while its device may send one more.          *)
MayApply ==
    applying # 0 => policy.used[Owner[transfers[applying].session]] < RateLimit

HubTypes ==
    /\ os \in [content : Contents, by : Authors, unread : BOOLEAN]
    /\ watcher \in BOOLEAN /\ resting \in BOOLEAN
    /\ local \in Seq(Changes)
    /\ pending # Nothing => pending \in Changes \cup Taken(Len(transfers))
    /\ events \in Seq(Letters(Len(transfers))) /\ Len(events) <= QueueLimit
    /\ subscribers \in [Devices -> {Nothing} \cup Subscribers]
    /\ policy \in [seen : SUBSET Contents, used : [Sources -> 0 .. RateLimit]]
    /\ sync \in [last : Contents \cup {Nothing}, suppress : Contents \cup {Nothing}]
    /\ applying \in 0 .. Len(transfers)
    /\ stage \in [Sessions -> {"new", "open", "leaving", "gone"}]
    /\ transfers \in Seq(Received)
    /\ receipt \in Seq(Receipts) /\ Len(receipt) = Len(transfers)
    /\ left \in [Kinds -> Nat]

(* What the hub wrote and has not heard back is among the contents it has  *)
(* seen, wherever the change is on its way: in the system, in the queue of *)
(* the watcher, or in the slot.                                            *)
KnownIfOwn(c, by) == by = "remote" => c \in policy.seen
EchoIsKnown ==
    /\ os.unread => KnownIfOwn(os.content, os.by)
    /\ \A n \in DOMAIN local : KnownIfOwn(local[n].content, local[n].by)
    /\ pending # Nothing /\ pending.kind = "Local" => KnownIfOwn(pending.content, pending.by)

HubInv == HubTypes /\ WithinBudget /\ MayApply /\ EchoIsKnown /\ NoEcho

(* What ConfirmedIsOnClipboard says of one step.                           *)
ConfirmsWell ==
    \A t \in DOMAIN receipt : receipt'[t] = "Applied" /\ receipt[t] # "Applied" =>
        applying = t /\ Holds(os', transfers[t].content)

(* try_send keeps the capacity.                                            *)
LEMMA SendFits ==
    ASSUME NEW S, NEW q \in Seq(S), Len(q) <= QueueLimit, NEW e \in S
    PROVE  Send(q, e) \in Seq(S) /\ Len(Send(q, e)) <= QueueLimit
BY HubAssumption DEF Send

LEMMA LettersGrow ==
    ASSUME NEW n \in Nat
    PROVE  /\ Letters(n) \subseteq Letters(n + 1) /\ Taken(n) \subseteq Taken(n + 1)
           /\ \A q \in Seq(Letters(n)) : q \in Seq(Letters(n + 1))
           /\ [kind |-> "Ingest", transfer |-> n + 1] \in Letters(n + 1)
<1>1. Taken(n) \subseteq Taken(n + 1) /\ [kind |-> "Ingest", transfer |-> n + 1] \in Taken(n + 1)
  BY DEF Taken
<1>2. Letters(n) \subseteq Letters(n + 1) /\ [kind |-> "Ingest", transfer |-> n + 1] \in Letters(n + 1)
  BY <1>1 DEF Letters
<1> DEFINE L == Letters(n)
           M == Letters(n + 1)
<1> HIDE DEF L, M
<1>3. L \subseteq M
  BY <1>2 DEF L, M
<1>4. \A q \in Seq(L) : q \in Seq(M)
  BY <1>3
<1>5. QED  BY <1>1, <1>2, <1>4 DEF L, M

LEMMA SpendTypes ==
    ASSUME HubTypes, NEW kind \in Kinds, Spend(kind)
    PROVE  /\ left' \in [Kinds -> Nat]
           /\ kind # "transfers" => left'["transfers"] = left["transfers"]
           /\ kind = "transfers" => left'["transfers"] + 1 = left["transfers"]
BY DEF HubTypes, Spend, Kinds

(* The sessions open, speak, take payloads and leave.                      *)
LEMMA SessionsKeepHub ==
    ASSUME HubInv, NEW i \in Sessions,
           \/ Open(i) \/ Leave(i) \/ BreakOff(i) \/ Vanish(i)
           \/ \E on \in BOOLEAN : Toggle(i, on)
           \/ \E c \in Contents, tracked \in BOOLEAN : Receive(i, c, tracked)
    PROVE  HubInv' /\ ConfirmsWell
<1>0. HubTypes /\ WithinBudget /\ MayApply /\ EchoIsKnown /\ NoEcho
  BY DEF HubInv
<1> DEFINE n == Len(transfers)
<1>1. n \in Nat /\ events \in Seq(Letters(n)) /\ Len(events) <= QueueLimit
      /\ {"sessions", "transfers", "copies", "toggles"} = Kinds
  BY <1>0 DEF HubTypes, Kinds
<1>K. ASSUME UNCHANGED <<os, watcher, local, hub, transfers>>, left' \in [Kinds -> Nat],
             left'["transfers"] = left["transfers"],
             stage' \in [Sessions -> {"new", "open", "leaving", "gone"}],
             events' \in Seq(Letters(n)) /\ Len(events') <= QueueLimit,
             receipt' \in Seq(Receipts) /\ Len(receipt') = n,
             \A t \in DOMAIN receipt : receipt'[t] # "Applied" \/ receipt'[t] = receipt[t]
      PROVE  HubInv' /\ ConfirmsWell
  <2>1. HubTypes'
    BY <1>0, <1>K DEF HubTypes, hub
  <2>2. WithinBudget' /\ MayApply' /\ EchoIsKnown' /\ NoEcho'
    BY <1>0, <1>K DEF WithinBudget, MayApply, EchoIsKnown, KnownIfOwn, NoEcho, hub
  <2>3. ConfirmsWell
    BY <1>K DEF ConfirmsWell
  <2>4. QED  BY <2>1, <2>2, <2>3 DEF HubInv
<1>S. ASSUME NEW s \in {"new", "open", "leaving", "gone"}
      PROVE  [stage EXCEPT ![i] = s] \in [Sessions -> {"new", "open", "leaving", "gone"}]
  BY <1>0 DEF HubTypes
<1>R. receipt \in Seq(Receipts) /\ Len(receipt) = n /\ left \in [Kinds -> Nat]
      /\ stage \in [Sessions -> {"new", "open", "leaving", "gone"}]
  BY <1>0 DEF HubTypes
<1>L. ASSUME NEW on \in BOOLEAN
      PROVE  /\ Enabled(i, on) \in Letters(n) /\ Subscription("Subscribe", i) \in Letters(n)
             /\ Subscription("Unsubscribe", i) \in Letters(n)
  BY DEF Letters, Enabled, Subscription
<1>T. TRUE \in BOOLEAN /\ FALSE \in BOOLEAN
  OBVIOUS
<1> HIDE DEF n
<1>2. CASE Open(i)
  <2>1. left' \in [Kinds -> Nat] /\ left'["transfers"] = left["transfers"]
    BY <1>0, <1>1, <1>2, SpendTypes DEF Open
  <2>2. events' \in Seq(Letters(n)) /\ Len(events') <= QueueLimit
    BY <1>1, <1>2, <1>L, <1>T, SendFits DEF Open
  <2>3. stage' \in [Sessions -> {"new", "open", "leaving", "gone"}]
    BY <1>2, <1>S DEF Open
  <2>4. QED  BY <1>2, <1>K, <1>R, <2>1, <2>2, <2>3 DEF Open
<1>3. CASE Leave(i)
  <2> DEFINE e == Enabled(i, FALSE)
             q == Send(events, e)
  <2>0. e \in Letters(n)
    BY <1>L, <1>T
  <2> HIDE DEF e
  <2>1. q \in Seq(Letters(n)) /\ Len(q) <= QueueLimit
    BY <1>1, <2>0, SendFits
  <2> HIDE DEF q
  <2>2. events' \in Seq(Letters(n)) /\ Len(events') <= QueueLimit
    <3>1. events' = Send(q, Subscription("Unsubscribe", i))
      BY <1>3 DEF Leave, q, e
    <3>2. QED  BY <2>1, <3>1, <1>L, <1>T, SendFits
  <2>3. stage' \in [Sessions -> {"new", "open", "leaving", "gone"}]
    BY <1>3, <1>S DEF Leave
  <2>4. QED  BY <1>3, <1>K, <1>R, <2>2, <2>3 DEF Leave
<1>4. CASE BreakOff(i)
  <2>3. stage' \in [Sessions -> {"new", "open", "leaving", "gone"}]
    BY <1>4, <1>S DEF BreakOff
  <2>4. QED  BY <1>1, <1>4, <1>K, <1>R, <2>3 DEF BreakOff
<1>5. CASE Vanish(i)
  <2>1. stage' \in [Sessions -> {"new", "open", "leaving", "gone"}]
    BY <1>5, <1>S DEF Vanish
  <2>2. receipt' = [t \in 1 .. n |->
           IF transfers[t].session = i /\ receipt[t] = "waiting" THEN "dropped" ELSE receipt[t]]
    BY <1>5, <1>R DEF Vanish
  <2>3. /\ receipt' \in Seq(Receipts) /\ Len(receipt') = n
        /\ \A t \in DOMAIN receipt : receipt'[t] # "Applied" \/ receipt'[t] = receipt[t]
    BY <1>1, <1>R, <2>2 DEF Receipts
  <2>4. QED  BY <1>1, <1>5, <1>K, <1>R, <2>1, <2>3 DEF Vanish
<1>6. ASSUME NEW on \in BOOLEAN, Toggle(i, on)
      PROVE  HubInv' /\ ConfirmsWell
  <2>1. left' \in [Kinds -> Nat] /\ left'["transfers"] = left["transfers"]
    BY <1>0, <1>1, <1>6, SpendTypes DEF Toggle
  <2>2. events' \in Seq(Letters(n)) /\ Len(events') <= QueueLimit
    BY <1>1, <1>6, <1>L, SendFits DEF Toggle
  <2>4. QED  BY <1>6, <1>K, <1>R, <2>1, <2>2 DEF Toggle
<1>7. ASSUME NEW c \in Contents, NEW tracked \in BOOLEAN, Receive(i, c, tracked)
      PROVE  HubInv' /\ ConfirmsWell
  <2> DEFINE r == [session |-> i, content |-> c, tracked |-> tracked]
             o == CASE ~tracked -> "none"
                    [] Len(events) < QueueLimit -> "waiting"
                    [] OTHER -> "QueueFull"
  <2>1. r \in Received /\ o \in Receipts /\ o # "Applied"
    BY DEF Received, Receipts, Outcomes
  <2>2. transfers' = Append(transfers, r) /\ receipt' = Append(receipt, o)
        /\ events' = Send(events, Ingest(n + 1)) /\ transfers \in Seq(Received)
        /\ UNCHANGED <<os, watcher, local, hub, stage>>
    BY <1>0, <1>7 DEF Receive, HubTypes, n
  <2> HIDE DEF r, o
  <2>3. /\ transfers' \in Seq(Received) /\ Len(transfers') = n + 1
        /\ \A t \in 1 .. n : transfers'[t] = transfers[t]
    BY <2>1, <2>2 DEF n
  <2>4. /\ receipt' \in Seq(Receipts) /\ Len(receipt') = n + 1
        /\ \A t \in DOMAIN receipt : receipt'[t] = receipt[t]
    BY <1>1, <1>R, <2>1, <2>2
  <2>5. left' \in [Kinds -> Nat] /\ left'["transfers"] + 1 = left["transfers"]
    BY <1>0, <1>1, <1>7, SpendTypes DEF Receive
  <2>6. events' \in Seq(Letters(n + 1)) /\ Len(events') <= QueueLimit
    <3>1. Ingest(n + 1) \in Letters(n + 1) /\ events \in Seq(Letters(n + 1))
      BY <1>1, LettersGrow DEF Ingest
    <3>2. QED  BY <1>1, <2>2, <3>1, SendFits
  <2>7. pending' # Nothing => pending' \in Changes \cup Taken(n + 1)
    BY <1>0, <1>1, <2>2, LettersGrow DEF HubTypes, hub, n
  <2>8. HubTypes'
    BY <1>0, <1>1, <2>2, <2>3, <2>4, <2>5, <2>6, <2>7 DEF HubTypes, hub, n
  <2>9. WithinBudget'
    <3>1. PICK scenario \in Scenarios : left["transfers"] + n = scenario["transfers"]
      BY <1>0 DEF WithinBudget, n
    <3>2. left'["transfers"] + Len(transfers') = scenario["transfers"]
      <4>1. left["transfers"] \in Nat /\ left'["transfers"] \in Nat
        BY <1>1, <1>R, <2>5
      <4> DEFINE before == left["transfers"]
                 after == left'["transfers"]
      <4>2. before \in Nat /\ after \in Nat /\ after + 1 = before
        BY <2>5, <4>1
      <4> HIDE DEF before, after
      <4>3. after + (n + 1) = before + n
        BY <1>1, <4>2
      <4>4. QED  BY <2>3, <3>1, <4>3 DEF before, after
    <3>3. QED  BY <3>2 DEF WithinBudget
  <2>10. MayApply'
    BY <1>0, <1>1, <2>2, <2>3 DEF MayApply, HubTypes, hub, n
  <2>11. EchoIsKnown' /\ NoEcho'
    BY <1>0, <2>2 DEF EchoIsKnown, KnownIfOwn, NoEcho, hub
  <2>12. ConfirmsWell
    BY <2>4 DEF ConfirmsWell
  <2>13. QED  BY <2>8, <2>9, <2>10, <2>11, <2>12 DEF HubInv
<1>8. QED  BY <1>2, <1>3, <1>4, <1>5, <1>6, <1>7

(* The user copies, the watcher reads, and time passes.  A signature only  *)
(* expires once no change of the clipboard is on its way.                  *)
LEMMA WorldKeepsHub ==
    ASSUME HubInv,
           \/ \E c \in Contents : Copy(c) \/ SignatureExpires(c)
           \/ \E s \in Sources : RateExpires(s)
           \/ Report \/ RestEnds
    PROVE  HubInv' /\ ConfirmsWell
<1>0. HubTypes /\ WithinBudget /\ MayApply /\ EchoIsKnown /\ NoEcho
  BY DEF HubInv
<1>1. ASSUME NEW c \in Contents, Copy(c)
      PROVE  HubInv' /\ ConfirmsWell
  <2>1. left' \in [Kinds -> Nat] /\ left'["transfers"] = left["transfers"]
    BY <1>0, <1>1, SpendTypes DEF Copy, Kinds
  <2>2. os' \in [content : Contents, by : Authors, unread : BOOLEAN] /\ os'.by = "user"
    BY <1>0, <1>1 DEF Copy, HubTypes, Authors
  <2>3. UNCHANGED <<watcher, local, events, subscribers, policy, sync, pending, resting, applying,
                    shared, stage, transfers, receipt>>
    BY <1>1 DEF Copy, hub
  <2>4. HubTypes' /\ WithinBudget' /\ MayApply'
    BY <1>0, <2>1, <2>2, <2>3 DEF HubTypes, WithinBudget, MayApply
  <2>5. EchoIsKnown' /\ NoEcho' /\ ConfirmsWell
    BY <1>0, <2>2, <2>3 DEF EchoIsKnown, KnownIfOwn, NoEcho, ConfirmsWell
  <2>6. QED  BY <2>4, <2>5 DEF HubInv
<1>2. ASSUME NEW c \in Contents, SignatureExpires(c)
      PROVE  HubInv' /\ ConfirmsWell
  <2>1. /\ policy' \in [seen : SUBSET Contents, used : [Sources -> 0 .. RateLimit]]
        /\ policy'.used = policy.used
    BY <1>0, <1>2 DEF SignatureExpires, HubTypes
  <2>2. HubTypes' /\ WithinBudget' /\ MayApply'
    BY <1>0, <1>2, <2>1 DEF SignatureExpires, HubTypes, WithinBudget, MayApply
  <2>3. EchoIsKnown' /\ NoEcho' /\ ConfirmsWell
    BY <1>0, <1>2 DEF SignatureExpires, KeepsUp, EchoIsKnown, NoEcho, ConfirmsWell
  <2>4. QED  BY <2>2, <2>3 DEF HubInv
<1>3. ASSUME NEW s \in Sources, RateExpires(s)
      PROVE  HubInv' /\ ConfirmsWell
  <2>1. policy'.seen = policy.seen /\ policy.used[s] - 1 \in 0 .. RateLimit
        /\ policy.used \in [Sources -> 0 .. RateLimit]
    BY <1>0, <1>3, HubAssumption DEF RateExpires, HubTypes
  <2>2. policy' \in [seen : SUBSET Contents, used : [Sources -> 0 .. RateLimit]]
    BY <1>0, <1>3, <2>1 DEF RateExpires, HubTypes
  <2>3. HubTypes' /\ WithinBudget' /\ MayApply'
    BY <1>0, <1>3, <2>2 DEF RateExpires, KeepsUp, HubTypes, WithinBudget, MayApply
  <2>4. EchoIsKnown' /\ NoEcho' /\ ConfirmsWell
    BY <1>0, <1>3, <2>1 DEF RateExpires, EchoIsKnown, KnownIfOwn, NoEcho, ConfirmsWell
  <2>5. QED  BY <2>3, <2>4 DEF HubInv
<1>4. CASE Report
  <2>1. PICK c \in Readings :
            local' = IF c = Nothing THEN local ELSE Append(local, LocalChange(c, Author(c)))
    BY <1>4 DEF Report
  <2>2. os.unread /\ os.content \in Contents /\ os.by \in Authors /\ local \in Seq(Changes)
    BY <1>0, <1>4 DEF Report, HubTypes
  <2>3. /\ os' \in [content : Contents, by : Authors, unread : BOOLEAN] /\ ~os'.unread
        /\ UNCHANGED <<watcher, events, subscribers, policy, sync, pending, resting, applying,
                    shared, stage, transfers, receipt, left>>
    BY <1>0, <1>4 DEF Report, HubTypes, hub
  <2>4. /\ local' \in Seq(Changes)
        /\ \A n \in DOMAIN local' : KnownIfOwn(local'[n].content, local'[n].by)
    <3>1. CASE c = Nothing
      BY <1>0, <2>1, <2>2, <3>1 DEF EchoIsKnown
    <3>2. CASE c # Nothing
      <4> DEFINE e == LocalChange(c, Author(c))
      <4>1. c \in Contents
        BY <2>1, <2>2, <3>2, HubAssumption DEF Readings
      <4>2. Author(c) \in Authors /\ (Author(c) = "remote" => os.by = "remote" /\ c = os.content)
        BY <2>2 DEF Author, Authors
      <4>3. e \in Changes /\ e.content = c /\ e.by = Author(c)
        BY <4>1, <4>2 DEF LocalChange, Changes
      <4>4. KnownIfOwn(e.content, e.by)
        BY <1>0, <2>2, <4>2, <4>3 DEF EchoIsKnown, KnownIfOwn
      <4> HIDE DEF e
      <4>5. /\ local' = Append(local, e)
            /\ \A n \in DOMAIN local' : local'[n] = IF n = Len(local) + 1 THEN e ELSE local[n]
        BY <2>1, <2>2, <3>2, <4>3 DEF e
      <4>6. DOMAIN local' = 1 .. Len(local) + 1
        BY <2>2, <4>3, <4>5
      <4>7. \A n \in DOMAIN local : KnownIfOwn(local[n].content, local[n].by)
        BY <1>0 DEF EchoIsKnown
      <4>8. \A n \in DOMAIN local' : KnownIfOwn(local'[n].content, local'[n].by)
        BY <2>2, <4>4, <4>5, <4>6, <4>7
      <4>9. QED  BY <2>2, <4>3, <4>5, <4>8
    <3>3. QED  BY <3>1, <3>2
  <2>6. HubTypes' /\ WithinBudget' /\ MayApply'
    BY <1>0, <2>3, <2>4 DEF HubTypes, WithinBudget, MayApply
  <2>8. EchoIsKnown' /\ NoEcho' /\ ConfirmsWell
    BY <1>0, <2>3, <2>4 DEF EchoIsKnown, KnownIfOwn, NoEcho, ConfirmsWell
  <2>9. QED  BY <2>6, <2>8 DEF HubInv
<1>5. CASE RestEnds
  <2>1. HubTypes' /\ WithinBudget' /\ MayApply'
    BY <1>0, <1>5 DEF RestEnds, HubTypes, WithinBudget, MayApply
  <2>2. EchoIsKnown' /\ NoEcho' /\ ConfirmsWell
    BY <1>0, <1>5 DEF RestEnds, EchoIsKnown, KnownIfOwn, NoEcho, ConfirmsWell
  <2>3. QED  BY <2>1, <2>2 DEF HubInv
<1>6. QED  BY <1>1, <1>2, <1>3, <1>4, <1>5

(* The parts of the hub's state.                                           *)
LEMMA StandingTypes ==
    ASSUME HubTypes, NEW source
    PROVE  Standing(source) \in [Devices -> {Nothing} \cup Subscribers]
BY DEF HubTypes, Standing

LEMMA RecordTypes ==
    ASSUME HubTypes, NEW s \in Sources, NEW c \in Contents, policy.used[s] < RateLimit
    PROVE  /\ Record(s, c) \in [seen : SUBSET Contents, used : [Sources -> 0 .. RateLimit]]
           /\ policy.seen \subseteq Record(s, c).seen /\ c \in Record(s, c).seen
<1>1. policy.used \in [Sources -> 0 .. RateLimit] /\ policy.seen \in SUBSET Contents
  BY DEF HubTypes
<1>2. policy.used[s] + 1 \in 0 .. RateLimit
  BY <1>1, HubAssumption
<1>3. [policy.used EXCEPT ![s] = @ + 1] \in [Sources -> 0 .. RateLimit]
  BY <1>1, <1>2
<1>4. QED  BY <1>1, <1>3 DEF Record

LEMMA AnswerTypes ==
    ASSUME HubTypes, NEW t \in 1 .. Len(transfers), NEW o \in Receipts
    PROVE  /\ Answer(t, o) \in Seq(Receipts) /\ Len(Answer(t, o)) = Len(transfers)
           /\ \A u \in DOMAIN receipt : u # t \/ o # "Applied" =>
                  Answer(t, o)[u] # "Applied" \/ Answer(t, o)[u] = receipt[u]
BY DEF HubTypes, Answer

(* The device of a payload.                                                *)
LEMMA TransferFacts ==
    ASSUME HubTypes, NEW t \in 1 .. Len(transfers)
    PROVE  /\ transfers[t] \in Received /\ transfers[t].session \in Sessions
           /\ transfers[t].content \in Contents /\ Owner[transfers[t].session] \in Devices
           /\ Owner[transfers[t].session] \in Sources
<1>1. transfers[t] \in Received
  BY DEF HubTypes
<1>2. QED  BY <1>1, HubAssumption DEF Received, Sources

(* What the hub does with a payload at once, or once the rest is over.     *)
LEMMA ProcessKeeps ==
    ASSUME HubInv, applying = 0, NEW e \in Changes \cup Taken(Len(transfers)), Process(e),
           e.kind = "Local" => KnownIfOwn(e.content, e.by),
           pending' # Nothing => pending' = pending,
           UNCHANGED <<os, watcher, stage, transfers, left>>,
           events' \in Seq(Letters(Len(transfers))) /\ Len(events') <= QueueLimit,
           local' \in Seq(Changes),
           \A n \in DOMAIN local' : \E m \in DOMAIN local : local'[n] = local[m]
    PROVE  HubInv' /\ ConfirmsWell
<1>0. HubTypes /\ WithinBudget /\ MayApply /\ EchoIsKnown /\ NoEcho
  BY DEF HubInv
<1>K. ASSUME policy.seen \subseteq policy'.seen
      PROVE  EchoIsKnown'
  BY <1>0, <1>K DEF EchoIsKnown, KnownIfOwn
<1>1. CASE e.kind = "Local"
  <2> DEFINE c == e.content
             dropped == c \in policy.seen \/ policy.used[Local] >= RateLimit
  <2>0. e \in Changes
    BY <1>1 DEF Taken
  <2>1. c \in Contents /\ e.by \in Authors /\ Local \in Sources
    BY <2>0 DEF Changes, Sources
  <2>2. /\ UNCHANGED <<applying, receipt>>
        /\ sync' = IF dropped THEN sync ELSE NoteLocal(c)
    BY <1>1 DEF Process, TakeLocal
  <2>3. sync' \in [last : Contents \cup {Nothing}, suppress : Contents \cup {Nothing}]
    BY <1>0, <2>1, <2>2 DEF HubTypes, NoteLocal
  <2>4. CASE ~dropped /\ IsNews(c)
    <3>1. /\ policy' = Record(Local, c)
          /\ Broadcast(Local, c, e.by, TRUE) /\ resting' = TRUE
      BY <1>1, <2>4 DEF Process, TakeLocal
    <3>2. policy.used[Local] < RateLimit /\ e.by # "remote"
      BY <1>0, <2>1, <2>4, <1>1, HubAssumption DEF HubTypes, KnownIfOwn
    <3> HIDE DEF c
    <3>3. /\ policy' \in [seen : SUBSET Contents, used : [Sources -> 0 .. RateLimit]]
          /\ policy.seen \subseteq policy'.seen
      BY <1>0, <2>1, <3>1, <3>2, RecordTypes
    <3>4. subscribers' \in [Devices -> {Nothing} \cup Subscribers] /\ shared'.by = e.by
      BY <1>0, <3>1, StandingTypes DEF Broadcast
    <3>5. HubTypes' /\ WithinBudget' /\ MayApply'
      BY <1>0, <2>2, <2>3, <3>1, <3>3, <3>4 DEF HubTypes, WithinBudget, MayApply
    <3>6. EchoIsKnown' /\ NoEcho' /\ ConfirmsWell
      BY <1>K, <2>2, <3>2, <3>3, <3>4 DEF NoEcho, ConfirmsWell
    <3>7. QED  BY <3>5, <3>6 DEF HubInv
  <2>5. CASE ~(~dropped /\ IsNews(c))
    <3>1. UNCHANGED <<policy, shared, subscribers, resting>>
      BY <1>1, <2>5 DEF Process, TakeLocal
    <3>5. HubTypes' /\ WithinBudget' /\ MayApply'
      BY <1>0, <2>2, <2>3, <3>1 DEF HubTypes, WithinBudget, MayApply
    <3>6. EchoIsKnown' /\ NoEcho' /\ ConfirmsWell
      BY <1>0, <1>K, <2>2, <3>1 DEF NoEcho, ConfirmsWell
    <3>7. QED  BY <3>5, <3>6 DEF HubInv
  <2>6. QED  BY <2>4, <2>5
<1>2. CASE e.kind # "Local"
  <2> DEFINE t == e.transfer
             d == Owner[transfers[t].session]
  <2>0. e \in Taken(Len(transfers))
    BY <1>2 DEF Changes
  <2>1. t \in 1 .. Len(transfers) /\ t # 0 /\ d \in Sources
    <3>1. t \in 1 .. Len(transfers)
      BY <2>0 DEF Taken
    <3>2. QED  BY <1>0, <3>1, TransferFacts
  <2>2. TakeTransfer(t)
    BY <1>2 DEF Process
  <2> HIDE DEF t
  <2>3. UNCHANGED <<sync, policy, shared, subscribers, resting>>
    BY <2>2 DEF TakeTransfer
  <2>4. Refuse(t) \in {"Closed", "Superseded", "RateLimited", "none"}
        /\ (Refuse(t) = "none" => ~(policy.used[d] >= RateLimit))
    BY DEF Refuse
  <2>5. /\ receipt' \in Seq(Receipts) /\ Len(receipt') = Len(transfers)
        /\ \A u \in DOMAIN receipt : receipt'[u] # "Applied" \/ receipt'[u] = receipt[u]
        /\ applying' = 0 \/ (applying' = t /\ ~(policy.used[d] >= RateLimit))
    <3>1. CASE UNCHANGED receipt
      BY <1>0, <2>2, <2>4, <3>1 DEF TakeTransfer, HubTypes
    <3>2. CASE receipt' = Answer(t, Refuse(t)) /\ UNCHANGED applying
      <4>1. Refuse(t) \in Receipts /\ Refuse(t) # "Applied"
        BY <2>4 DEF Receipts, Outcomes
      <4>2. QED  BY <1>0, <2>1, <3>2, <4>1, AnswerTypes
    <3>3. QED  BY <2>2, <3>1, <3>2 DEF TakeTransfer
  <2>6. HubTypes' /\ WithinBudget' /\ MayApply'
    <3>1. MayApply'
      BY <1>0, <2>1, <2>3, <2>5, HubAssumption DEF HubTypes, MayApply
    <3>2. QED  BY <1>0, <2>1, <2>3, <2>5, <3>1 DEF HubTypes, WithinBudget
  <2>7. EchoIsKnown' /\ NoEcho' /\ ConfirmsWell
    BY <1>0, <1>K, <2>3, <2>5 DEF NoEcho, ConfirmsWell
  <2>8. QED  BY <2>6, <2>7 DEF HubInv
<1>3. QED  BY <1>1, <1>2

(* The hub takes a payload: out of its queue, from the watcher, or out of  *)
(* the slot once the rest is over.                                         *)
LEMMA PayloadKeeps ==
    ASSUME HubInv, applying = 0, NEW e \in Changes \cup Taken(Len(transfers)), TakePayload(e),
           e.kind = "Local" => KnownIfOwn(e.content, e.by),
           UNCHANGED <<os, watcher, stage, transfers, left>>,
           events' \in Seq(Letters(Len(transfers))) /\ Len(events') <= QueueLimit,
           local' \in Seq(Changes),
           \A n \in DOMAIN local' : \E m \in DOMAIN local : local'[n] = local[m]
    PROVE  HubInv' /\ ConfirmsWell
<1>0. HubTypes /\ WithinBudget /\ MayApply /\ EchoIsKnown /\ NoEcho
  BY DEF HubInv
<1>1. ASSUME pending' = e,
             UNCHANGED <<subscribers, policy, sync, resting, applying, shared>>,
             receipt' \in Seq(Receipts) /\ Len(receipt') = Len(transfers),
             \A u \in DOMAIN receipt : receipt'[u] # "Applied" \/ receipt'[u] = receipt[u]
      PROVE  HubInv' /\ ConfirmsWell
  <2>1. HubTypes' /\ WithinBudget' /\ MayApply'
    BY <1>0, <1>1 DEF HubTypes, WithinBudget, MayApply
  <2>2. EchoIsKnown' /\ NoEcho' /\ ConfirmsWell
    BY <1>0, <1>1 DEF EchoIsKnown, KnownIfOwn, NoEcho, ConfirmsWell
  <2>3. QED  BY <2>1, <2>2 DEF HubInv
<1>2. CASE pending # Nothing
  <2>1. /\ pending' = e /\ receipt' = Superseded(pending)
        /\ UNCHANGED <<subscribers, policy, sync, resting, applying, shared>>
    BY <1>2 DEF TakePayload
  <2>2. /\ receipt' \in Seq(Receipts) /\ Len(receipt') = Len(transfers)
        /\ \A u \in DOMAIN receipt : receipt'[u] # "Applied" \/ receipt'[u] = receipt[u]
    <3>1. CASE pending.kind = "Ingest"
      <4>1. pending \in Taken(Len(transfers))
        BY <1>0, <1>2, <3>1 DEF HubTypes, Changes
      <4>2. pending.transfer \in 1 .. Len(transfers) /\ "Superseded" \in Receipts
        BY <4>1 DEF Taken, Receipts, Outcomes
      <4>3. receipt' = Answer(pending.transfer, "Superseded")
        BY <2>1, <3>1 DEF Superseded
      <4>4. QED  BY <1>0, <4>2, <4>3, AnswerTypes
    <3>2. CASE pending.kind # "Ingest"
      BY <1>0, <2>1, <3>2 DEF Superseded, HubTypes
    <3>3. QED  BY <3>1, <3>2
  <2>3. QED  BY <1>1, <2>1, <2>2
<1>3. CASE pending = Nothing /\ resting
  <2>1. /\ pending' = e /\ UNCHANGED receipt
        /\ UNCHANGED <<subscribers, policy, sync, resting, applying, shared>>
    BY <1>3 DEF TakePayload
  <2>2. QED  BY <1>0, <1>1, <2>1 DEF HubTypes
<1>4. CASE pending = Nothing /\ ~resting
  <2>1. Process(e) /\ pending' = pending
    BY <1>0, <1>4 DEF TakePayload, HubTypes
  <2>2. QED  BY <2>1, ProcessKeeps
<1>5. QED  BY <1>0, <1>2, <1>3, <1>4 DEF HubTypes

LEMMA TakingKeepsHub ==
    ASSUME HubInv, TakeEvent \/ TakeReport \/ TimerFires
    PROVE  HubInv' /\ ConfirmsWell
<1>0. HubTypes /\ WithinBudget /\ MayApply /\ EchoIsKnown /\ NoEcho
  BY DEF HubInv
<1>T. /\ events \in Seq(Letters(Len(transfers))) /\ Len(events) <= QueueLimit
      /\ local \in Seq(Changes)
  BY <1>0 DEF HubTypes
<1> DEFINE L == Letters(Len(transfers))
<1>L. events \in Seq(L) /\ \A e \in L : e.kind = "Ingest" => e \in Taken(Len(transfers)) /\ e.kind # "Local"
  BY <1>T DEF Letters
<1> HIDE DEF L
<1>1. CASE TakeEvent
  <2>1. /\ applying = 0 /\ events # <<>> /\ Head(events).kind = "Ingest"
        /\ events' = Tail(events) /\ TakePayload(Head(events))
        /\ UNCHANGED <<os, watcher, local, stage, transfers, left>>
    BY <1>1 DEF TakeEvent
  <2>2. Head(events) \in L /\ Tail(events) \in Seq(L) /\ Len(Tail(events)) <= QueueLimit
    BY <1>T, <1>L, <2>1, HubAssumption
  <2>3. PICK e : e = Head(events)
    OBVIOUS
  <2>4. e \in Changes \cup Taken(Len(transfers)) /\ e.kind # "Local" /\ TakePayload(e)
    BY <1>L, <2>1, <2>2, <2>3
  <2>5. /\ events' \in Seq(Letters(Len(transfers))) /\ Len(events') <= QueueLimit
        /\ local' \in Seq(Changes)
        /\ \A n \in DOMAIN local' : \E m \in DOMAIN local : local'[n] = local[m]
    BY <1>T, <2>1, <2>2 DEF L
  <2>6. QED  BY <2>1, <2>4, <2>5, PayloadKeeps
<1>2. CASE TakeReport
  <2>1. /\ applying = 0 /\ local # <<>> /\ local' = Tail(local) /\ TakePayload(Head(local))
        /\ UNCHANGED <<os, watcher, events, stage, transfers, left>>
    BY <1>2 DEF TakeReport
  <2>2. PICK e : e = Head(local)
    OBVIOUS
  <2>3. /\ e \in Changes /\ e = local[1] /\ 1 \in DOMAIN local
        /\ local' \in Seq(Changes)
        /\ \A n \in DOMAIN local' : n + 1 \in DOMAIN local /\ local'[n] = local[n + 1]
    BY <1>T, <2>1, <2>2
  <2>4. KnownIfOwn(e.content, e.by)
    BY <1>0, <2>3 DEF EchoIsKnown
  <2>5. TakePayload(e) /\ events' \in Seq(Letters(Len(transfers))) /\ Len(events') <= QueueLimit
    BY <1>T, <2>1, <2>2
  <2>6. \A n \in DOMAIN local' : \E m \in DOMAIN local : local'[n] = local[m]
    BY <2>3
  <2>7. QED  BY <2>1, <2>3, <2>4, <2>5, <2>6, PayloadKeeps
<1>3. CASE TimerFires
  <2>1. /\ applying = 0 /\ pending # Nothing /\ pending' = Nothing /\ Process(pending)
        /\ UNCHANGED <<os, watcher, local, events, stage, transfers, left>>
    BY <1>3 DEF TimerFires, Due
  <2>2. PICK e : e = pending
    OBVIOUS
  <2>3. /\ e \in Changes \cup Taken(Len(transfers)) /\ Process(e)
        /\ (e.kind = "Local" => KnownIfOwn(e.content, e.by))
    BY <1>0, <2>1, <2>2 DEF HubTypes, EchoIsKnown
  <2>4. /\ events' \in Seq(Letters(Len(transfers))) /\ Len(events') <= QueueLimit
        /\ local' \in Seq(Changes)
        /\ \A n \in DOMAIN local' : \E m \in DOMAIN local : local'[n] = local[m]
    BY <1>T, <2>1
  <2>5. QED  BY <2>1, <2>3, <2>4, ProcessKeeps
<1>4. QED  BY <1>1, <1>2, <1>3

(* The hub takes a message about a session.                                *)
LEMMA ControlsKeepHub ==
    ASSUME HubInv, Subscribe \/ Unsubscribe \/ SetReceiveEnabled
    PROVE  HubInv' /\ ConfirmsWell
<1>0. HubTypes /\ WithinBudget /\ MayApply /\ EchoIsKnown /\ NoEcho
  BY DEF HubInv
<1> DEFINE L == Letters(Len(transfers))
           e == Head(events)
<1>1. PICK kind \in {"Subscribe", "Unsubscribe", "SetReceiveEnabled"} : Control(kind)
  BY DEF Subscribe, Unsubscribe, SetReceiveEnabled
<1>2. events \in Seq(L) /\ events # <<>> /\ events' = Tail(events) /\ e.kind = kind
      /\ Len(events) <= QueueLimit
      /\ UNCHANGED <<local, policy, sync, resting, applying, stage, transfers, left>>
  BY <1>0, <1>1 DEF Control, HubTypes
<1>3. e \in L /\ events' \in Seq(L) /\ Len(events') <= QueueLimit
  <2> HIDE DEF L
  <2>1. QED  BY <1>2, HubAssumption
<1>4. e.session \in Sessions /\ (kind = "SetReceiveEnabled" => e.on \in BOOLEAN)
  BY <1>2, <1>3 DEF Letters, Taken
<1>5. Owner[e.session] \in Devices
  BY <1>4, HubAssumption
<1>6. events' \in Seq(Letters(Len(transfers)))
  BY <1>3
<1> HIDE DEF L, e
<1>K. ASSUME subscribers' \in [Devices -> {Nothing} \cup Subscribers], watcher' \in BOOLEAN,
             os' = os \/ (os' = [os EXCEPT !.unread = FALSE]),
             pending' = pending \/ pending' = Nothing,
             receipt' \in Seq(Receipts) /\ Len(receipt') = Len(transfers),
             \A u \in DOMAIN receipt : receipt'[u] # "Applied" \/ receipt'[u] = receipt[u],
             shared' = shared \/ shared'.by = "snapshot"
      PROVE  HubInv' /\ ConfirmsWell
  <2>1. /\ os' \in [content : Contents, by : Authors, unread : BOOLEAN]
        /\ os'.content = os.content /\ os'.by = os.by /\ (os'.unread => os.unread)
    BY <1>0, <1>K DEF HubTypes
  <2>2. HubTypes' /\ WithinBudget' /\ MayApply'
    BY <1>0, <1>2, <1>3, <1>6, <1>K, <2>1 DEF HubTypes, WithinBudget, MayApply
  <2>3. EchoIsKnown' /\ NoEcho' /\ ConfirmsWell
    BY <1>0, <1>2, <1>K, <2>1 DEF EchoIsKnown, KnownIfOwn, NoEcho, ConfirmsWell
  <2>4. QED  BY <2>2, <2>3 DEF HubInv
<1>S. /\ subscribers \in [Devices -> {Nothing} \cup Subscribers] /\ watcher \in BOOLEAN
      /\ receipt \in Seq(Receipts) /\ Len(receipt) = Len(transfers)
      /\ os \in [content : Contents, by : Authors, unread : BOOLEAN]
  BY <1>0 DEF HubTypes
<1>7. CASE Subscribe
  <2> DEFINE s == [session |-> e.session, receive_enabled |-> FALSE, snapshot_sent |-> FALSE]
  <2>1. s \in Subscribers
    BY <1>4 DEF Subscribers
  <2>2. subscribers' = [subscribers EXCEPT ![Owner[e.session]] = s] /\ watcher' \in {watcher, TRUE}
        /\ UNCHANGED <<os, pending, receipt, shared>>
    BY <1>7 DEF Subscribe, e
  <2> HIDE DEF s
  <2>3. subscribers' \in [Devices -> {Nothing} \cup Subscribers] /\ watcher' \in BOOLEAN
    BY <1>S, <1>5, <2>1, <2>2
  <2>4. QED  BY <1>K, <1>S, <2>2, <2>3
<1>8. CASE Unsubscribe
  <2> DEFINE d == Owner[e.session]
  <2>1. /\ subscribers' = [subscribers EXCEPT ![d] = Nothing] /\ Withdraw(d)
        /\ watcher' = (watcher /\ \E f \in Devices : subscribers'[f] # Nothing)
        /\ os' = [os EXCEPT !.unread = @ /\ watcher'] /\ UNCHANGED shared
    BY <1>8 DEF Unsubscribe, e
  <2> HIDE DEF d
  <2>2. subscribers' \in [Devices -> {Nothing} \cup Subscribers]
    BY <1>S, <2>1
  <2>3. watcher' \in BOOLEAN
    BY <2>1
  <2>4. os' = os \/ os' = [os EXCEPT !.unread = FALSE]
    BY <1>S, <2>1, <2>3
  <2>5. /\ pending' = pending \/ pending' = Nothing
        /\ receipt' \in Seq(Receipts) /\ Len(receipt') = Len(transfers)
        /\ \A u \in DOMAIN receipt : receipt'[u] # "Applied" \/ receipt'[u] = receipt[u]
    <3>1. CASE IsPendingOf(d)
      <4>1. pending # Nothing /\ pending.kind = "Ingest"
        BY <3>1 DEF IsPendingOf
      <4>2. pending \in Taken(Len(transfers))
        BY <1>0, <4>1 DEF HubTypes, Changes
      <4>3. pending.transfer \in 1 .. Len(transfers) /\ "Closed" \in Receipts
        BY <4>2 DEF Taken, Receipts, Outcomes
      <4>4. pending' = Nothing /\ receipt' = Answer(pending.transfer, "Closed")
        BY <2>1, <3>1 DEF Withdraw
      <4>5. QED  BY <1>0, <4>3, <4>4, AnswerTypes
    <3>2. CASE ~IsPendingOf(d)
      BY <1>S, <2>1, <3>2 DEF Withdraw
    <3>3. QED  BY <3>1, <3>2
  <2>6. QED  BY <1>K, <2>1, <2>2, <2>3, <2>4, <2>5
<1>9. CASE SetReceiveEnabled
  <2> DEFINE d == Owner[e.session]
  <2>0. e.on \in BOOLEAN
    <3>1. Control("SetReceiveEnabled")
      BY <1>9 DEF SetReceiveEnabled
    <3>2. kind = "SetReceiveEnabled"
      BY <1>2, <3>1 DEF Control, e
    <3>3. QED  BY <1>4, <3>2
  <2>1. PICK on \in BOOLEAN :
        subscribers' = IF subscribers[d] = Nothing THEN subscribers
                       ELSE [subscribers EXCEPT ![d].receive_enabled = on,
                                                ![d].snapshot_sent = @ \/ on]
    BY <1>9, <2>0 DEF SetReceiveEnabled, e
  <2>5. /\ \E c \in Readings :
               shared' = shared \/ shared' = [content |-> c, by |-> "snapshot", applied |-> TRUE]
        /\ UNCHANGED <<os, watcher, pending, receipt>>
    BY <1>9, Zenon DEF SetReceiveEnabled
  <2>2. subscribers' \in [Devices -> {Nothing} \cup Subscribers]
    <3>1. CASE subscribers[d] = Nothing
      BY <1>S, <2>1, <3>1
    <3>2. CASE subscribers[d] # Nothing
      <4>1. d \in Devices /\ subscribers[d] \in Subscribers
        BY <1>S, <1>5, <3>2
      <4>2. PICK s \in Subscribers : s = subscribers[d]
        BY <4>1
      <4>3. PICK r : r = [s EXCEPT !.receive_enabled = on, !.snapshot_sent = @ \/ on]
        OBVIOUS
      <4>4. r \in Subscribers
        BY <4>3 DEF Subscribers
      <4>5. subscribers' = [subscribers EXCEPT ![d] = r]
        BY <1>S, <2>1, <3>2, <4>1, <4>2, <4>3
      <4>6. QED  BY <1>S, <4>1, <4>4, <4>5
    <3>3. QED  BY <3>1, <3>2
  <2>6. shared' = shared \/ shared'.by = "snapshot"
    BY <2>5
  <2>4. QED  BY <1>K, <1>S, <2>2, <2>5, <2>6
<1>10. QED  BY <1>7, <1>8, <1>9

(* The system answers.                                                     *)
LEMMA AnswersKeepHub ==
    ASSUME HubInv, Applied \/ NotApplied
    PROVE  HubInv' /\ ConfirmsWell
<1>0. HubTypes /\ WithinBudget /\ MayApply /\ EchoIsKnown /\ NoEcho
  BY DEF HubInv
<1> DEFINE c == transfers[applying].content
           d == Owner[transfers[applying].session]
<1>1. applying # 0 /\ applying \in 1 .. Len(transfers)
  <2>1. applying # 0
    BY DEF Applied, NotApplied
  <2>2. applying \in 0 .. Len(transfers) /\ Len(transfers) \in Nat
    BY <1>0 DEF HubTypes
  <2>3. QED  BY <2>1, <2>2
<1>2. c \in Contents /\ d \in Devices /\ d \in Sources
  BY <1>0, <1>1, TransferFacts
<1>3. policy.used[d] < RateLimit
  BY <1>0, <1>1 DEF MayApply
<1>4. applying' = 0 /\ policy' = Record(d, c)
      /\ \E b \in BOOLEAN : Broadcast(d, c, "transfer", b)
      /\ UNCHANGED <<watcher, local, events, pending, stage, transfers, left>>
  BY DEF Applied, NotApplied
<1>5. /\ receipt' = Answer(applying, "Applied") \/ receipt' = Answer(applying, "Failed")
      /\ Applied \/ receipt' = Answer(applying, "Failed")
  BY DEF Applied, NotApplied
<1>6. /\ os' \in [content : Contents, by : Authors, unread : BOOLEAN]
      /\ os' = os \/ os'.content = c
      /\ Applied => Holds(os', c)
      /\ sync' \in [last : Contents \cup {Nothing}, suppress : Contents \cup {Nothing}]
      /\ resting' \in BOOLEAN
  <2>1. "remote" \in Authors
    BY DEF Authors
  <2>2. CASE Applied
    <3>1. PICK found \in Readings :
              /\ os' = IF found = c THEN os
                       ELSE [content |-> c, by |-> "remote", unread |-> watcher]
              /\ sync' = [last |-> c, suppress |-> IF found = c THEN Nothing ELSE c]
              /\ resting' = TRUE
      BY <2>2 DEF Applied
    <3> HIDE DEF c
    <3>2. watcher \in BOOLEAN /\ os \in [content : Contents, by : Authors, unread : BOOLEAN]
      BY <1>0 DEF HubTypes
    <3>3. found = c => c \in ReadsAs[os.content]
      BY <1>2, HubAssumption DEF Readings
    <3>4. QED  BY <1>2, <2>1, <3>1, <3>2, <3>3 DEF Holds
  <2>3. CASE NotApplied /\ ~Applied
    BY <1>0, <2>3 DEF NotApplied, HubTypes
  <2>4. QED  BY <2>2, <2>3
<1> HIDE DEF c, d
<1>7. /\ policy' \in [seen : SUBSET Contents, used : [Sources -> 0 .. RateLimit]]
      /\ policy.seen \subseteq policy'.seen /\ c \in policy'.seen
  BY <1>0, <1>2, <1>3, <1>4, RecordTypes
<1>8. subscribers' \in [Devices -> {Nothing} \cup Subscribers] /\ shared'.by = "transfer"
  BY <1>0, <1>4, StandingTypes DEF Broadcast
<1>9. /\ receipt' \in Seq(Receipts) /\ Len(receipt') = Len(transfers)
      /\ ConfirmsWell
  <2>1. "Applied" \in Receipts /\ "Failed" \in Receipts /\ "Failed" # "Applied"
    BY DEF Receipts, Outcomes
  <2>2. CASE Applied
    <3>1. receipt' \in Seq(Receipts) /\ Len(receipt') = Len(transfers)
      BY <1>0, <1>1, <1>5, <2>1, AnswerTypes
    <3>2. \A u \in DOMAIN receipt : u # applying =>
              receipt'[u] # "Applied" \/ receipt'[u] = receipt[u]
      BY <1>0, <1>1, <1>5, <2>1, AnswerTypes
    <3>3. Holds(os', transfers[applying].content)
      BY <1>6, <2>2 DEF c
    <3>4. QED  BY <3>1, <3>2, <3>3 DEF ConfirmsWell
  <2>3. CASE receipt' = Answer(applying, "Failed")
    <3>1. /\ receipt' \in Seq(Receipts) /\ Len(receipt') = Len(transfers)
          /\ \A u \in DOMAIN receipt : receipt'[u] # "Applied" \/ receipt'[u] = receipt[u]
      BY <1>0, <1>1, <2>1, <2>3, AnswerTypes
    <3>2. QED  BY <3>1 DEF ConfirmsWell
  <2>4. QED  BY <1>5, <2>2, <2>3
<1>10. HubTypes' /\ WithinBudget' /\ MayApply'
  BY <1>0, <1>4, <1>6, <1>7, <1>8, <1>9 DEF HubTypes, WithinBudget, MayApply
<1>11. EchoIsKnown' /\ NoEcho'
  BY <1>0, <1>4, <1>6, <1>7, <1>8 DEF EchoIsKnown, KnownIfOwn, NoEcho
<1>12. QED  BY <1>9, <1>10, <1>11 DEF HubInv

LEMMA HubBegins == Init => HubInv
<1> SUFFICES ASSUME Init PROVE HubInv
  OBVIOUS
<1>1. left \in [Kinds -> Nat] /\ left \in Scenarios /\ transfers = <<>> /\ receipt = <<>>
      /\ events = <<>> /\ local = <<>> /\ pending = Nothing /\ applying = 0
      /\ policy = [seen |-> {}, used |-> [s \in Sources |-> 0]]
      /\ sync = [last |-> Nothing, suppress |-> Nothing] /\ watcher = FALSE /\ resting = FALSE
      /\ subscribers = [d \in Devices |-> Nothing] /\ stage = [i \in Sessions |-> "new"]
      /\ shared = Nothing
  BY HubAssumption DEF Init
<1>2. PICK x \in Contents : os = [content |-> x, by |-> "user", unread |-> FALSE]
  BY DEF Init
<1>3. os \in [content : Contents, by : Authors, unread : BOOLEAN] /\ os.unread = FALSE
  BY <1>2 DEF Authors
<1>4. policy \in [seen : SUBSET Contents, used : [Sources -> 0 .. RateLimit]]
  <2>1. [s \in Sources |-> 0] \in [Sources -> 0 .. RateLimit]
    BY HubAssumption
  <2>2. QED  BY <1>1, <2>1
<1>5. HubTypes
  <2>1. /\ sync \in [last : Contents \cup {Nothing}, suppress : Contents \cup {Nothing}]
        /\ subscribers \in [Devices -> {Nothing} \cup Subscribers]
        /\ stage \in [Sessions -> {"new", "open", "leaving", "gone"}]
    BY <1>1
  <2>2. /\ events \in Seq(Letters(Len(transfers))) /\ Len(events) <= QueueLimit
        /\ local \in Seq(Changes) /\ transfers \in Seq(Received) /\ receipt \in Seq(Receipts)
        /\ Len(receipt) = Len(transfers) /\ applying \in 0 .. Len(transfers)
    BY <1>1, HubAssumption
  <2>3. QED  BY <1>1, <1>3, <1>4, <2>1, <2>2 DEF HubTypes
<1>6. WithinBudget
  <2>1. left["transfers"] \in Nat /\ Len(transfers) = 0
    BY <1>1 DEF Kinds
  <2>2. QED  BY <1>1, <2>1 DEF WithinBudget
<1>7. MayApply /\ EchoIsKnown /\ NoEcho
  BY <1>1, <1>3 DEF MayApply, EchoIsKnown, NoEcho
<1>8. QED  BY <1>5, <1>6, <1>7 DEF HubInv

LEMMA HubKeeps == HubInv /\ [Next]_vars => HubInv' /\ [ConfirmsWell]_vars
<1> SUFFICES ASSUME HubInv, [Next]_vars PROVE HubInv' /\ [ConfirmsWell]_vars
  OBVIOUS
<1>1. CASE UNCHANGED vars
  <2>1. UNCHANGED <<os, watcher, local, events, subscribers, policy, sync, pending, resting, applying,
                    stage, transfers, receipt, shared, left>>
    BY <1>1 DEF vars
  <2>2. HubTypes' /\ WithinBudget' /\ MayApply'
    BY <2>1 DEF HubInv, HubTypes, WithinBudget, MayApply
  <2>3. EchoIsKnown' /\ NoEcho'
    BY <2>1 DEF HubInv, EchoIsKnown, KnownIfOwn, NoEcho
  <2>4. QED  BY <1>1, <2>2, <2>3 DEF HubInv
<1>2. CASE Next
  BY <1>2, SessionsKeepHub, WorldKeepsHub, TakingKeepsHub, ControlsKeepHub, AnswersKeepHub DEF Next
<1>3. QED  BY <1>1, <1>2

LEMMA HubHolds == Spec => []HubInv /\ [][ConfirmsWell]_vars
<1>1. QED  BY HubBegins, HubKeeps, PTL DEF Spec

(* Every variable has its type: the queue keeps to its capacity, no source *)
(* is counted beyond its rate, and what waits or is applied was received.  *)
THEOREM HubTypeCorrect == Spec => []TypeOK
<1>1. HubInv => TypeOK
  <2> SUFFICES ASSUME HubInv PROVE TypeOK
    OBVIOUS
  <2>0. HubTypes /\ WithinBudget
    BY DEF HubInv
  <2>1. 1 .. Len(transfers) \subseteq Transfers
    <3>1. PICK scenario \in Scenarios : left["transfers"] + Len(transfers) = scenario["transfers"]
      BY <2>0 DEF WithinBudget
    <3>2. left["transfers"] \in Nat /\ Len(transfers) \in Nat
      BY <2>0 DEF HubTypes, Kinds
    <3>3. 1 .. Len(transfers) \subseteq 1 .. scenario["transfers"]
      BY <3>1, <3>2
    <3>4. QED  BY <3>3 DEF Transfers
  <2>2. Changes \subseteq Payloads /\ Taken(Len(transfers)) \subseteq Payloads
    BY <2>1 DEF Changes, Taken, Payloads
  <2>3. local \in Seq(Payloads) /\ pending \in Payloads \cup {Nothing}
    <3>1. local \in Seq(Changes)
      BY <2>0 DEF HubTypes
    <3>2. local \in Seq(Payloads)
      BY <2>2, <3>1
    <3>3. QED  BY <2>0, <2>2, <3>2 DEF HubTypes
  <2>4. receipt \in [DOMAIN transfers -> Outcomes \cup {"none", "waiting", "dropped"}]
    BY <2>0 DEF HubTypes, Receipts
  <2>5. policy.seen \subseteq Contents /\ policy.used \in [Sources -> 0 .. RateLimit]
    BY <2>0 DEF HubTypes
  <2>6. QED  BY <2>0, <2>3, <2>4, <2>5 DEF HubTypes, TypeOK, Received, Subscribers
<1>2. QED  BY <1>1, HubHolds, PTL

(* NoEcho: whatever else the system may give back, what the hub wrote to   *)
(* its clipboard and is read as it was written is never passed on as a     *)
(* change of the local user, however late the watcher reports it.          *)
THEOREM NothingEchoes == Spec => []NoEcho
<1>1. HubInv => NoEcho
  BY DEF HubInv
<1>2. QED  BY <1>1, HubHolds, PTL

(* ConfirmedIsOnClipboard: a receipt says Applied only in the step that    *)
(* leaves that very payload on the clipboard, or finds it there.           *)
THEOREM ConfirmedIsThere == Spec => ConfirmedIsOnClipboard
<1>1. ConfirmsWell => \A t \in DOMAIN receipt : receipt'[t] = "Applied" /\ receipt[t] # "Applied" =>
           applying = t /\ Holds(os', transfers[t].content)
  BY DEF ConfirmsWell
<1>2. QED  BY <1>1, HubHolds, PTL DEF ConfirmedIsOnClipboard
================================================================================
