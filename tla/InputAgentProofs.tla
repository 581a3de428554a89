-------------------------- MODULE InputAgentProofs --------------------------
(***************************************************************************)
(* The calls to the input agent, for any number of calls, positions, late  *)
(* answers and places in the queue: a button is pressed where the cursor   *)
(* was meant to be, and in the runtime of its own session.                 *)
(*                                                                         *)
(* The argument is about the line: what is in the pipe, what the writer    *)
(* has in its hands and what is queued, as one sequence.  Every step of    *)
(* the writer keeps its order; the agent takes the first; a call joins at  *)
(* the end, behind every call that has a lower number.                     *)
(***************************************************************************)
EXTENDS InputAgent, SequenceTheorems, TLAPS

--------------------------------------------------------------------------------
(* The calls to the input agent: what is on its way, and the types.        *)

CallKinds == {"Start", "Button", "Health"}
ItemKinds == CallKinds \cup {"Cursor", "Stop"}
CallStages == {"new", "queued", "sent", "answered", "refused", "done", "failed", "dropped"}
CallNumbers == 0 .. MaxCalls
AwaitedNumbers == 0 .. MaxCalls + 1
WriterStages == {"idle", "waits", "gone"}

AgentItems == [kind : ItemKinds, call : CallNumbers, point : Nat]
Fitting(item) == (item.call # 0 <=> item.kind \in CallKinds) /\ (item.point # 0 => item.kind = "Cursor")
QueuedItems == {item \in AgentItems : Fitting(item) /\ item.point = 0}
SentItems == {item \in AgentItems : Fitting(item) /\ (item.kind = "Cursor" => item.point # 0)}

CallRecords == [kind : CallKinds \cup {"none"}, of : CallNumbers, aim : Nat, at : CallStages]
CursorStates == [latest : Nat, queued : BOOLEAN, last : Nat, by : CallNumbers]
WriterStates == [at : WriterStages, rest : Seq(SentItems), id : Nat, hangs : Nat]
AgentRequests == [id : Nat, item : SentItems]
AgentResponses == [id : Nat, well : BOOLEAN]

AgentTypes ==
    /\ clientUp \in BOOLEAN /\ calls \in [CallIds -> CallRecords]
    /\ lifecycle \in CallNumbers /\ lease \in CallNumbers
    /\ items \in Seq(QueuedItems) /\ cursor \in CursorStates /\ writing \in WriterStates
    /\ awaited \in Seq(AwaitedNumbers)
    /\ requests \in Seq(AgentRequests) /\ responses \in Seq(AgentResponses)
    /\ runtime \in CallNumbers /\ pointer \in Nat
    /\ acted \in [CallIds -> [on : CallNumbers, at : Nat]]

\* A request and a response carry a number that was given out; the last one is the writer's.
Numbered ==
    /\ writing.id = Len(awaited)
    /\ writing.at = "waits" => writing.id \in DOMAIN awaited
    /\ \A i \in DOMAIN requests : requests[i].id \in DOMAIN awaited
    /\ \A i \in DOMAIN responses : responses[i].id \in DOMAIN awaited

\* The numbers of calls, and the mark of one that is completed.
LEMMA AgentNumbers ==
    /\ MaxCalls \in Nat /\ CallIds \subseteq CallNumbers /\ CallNumbers \subseteq AwaitedNumbers
    /\ Completed \in AwaitedNumbers /\ Completed \notin CallNumbers /\ 0 \notin CallIds
    /\ \A c \in CallNumbers : c # 0 => c \in CallIds
    /\ \A c \in CallNumbers : c \in Nat
<1>1. MaxCalls \in Nat
  BY AgentAssumption
<1>2. QED  BY <1>1 DEF CallIds, CallNumbers, AwaitedNumbers, Completed

\* What is made to travel is well formed.
LEMMA AgentItemTypes ==
    /\ CursorItem \in QueuedItems /\ StopItem \in QueuedItems
    /\ \A c \in CallIds, kind \in CallKinds : CallItem(c, kind) \in QueuedItems
    /\ \A point \in Nat : point # 0 => PointItem(point) \in SentItems
    /\ \A item \in QueuedItems : item.kind # "Cursor" => item \in SentItems
    /\ \A item \in QueuedItems \cup SentItems : item \in AgentItems /\ Fitting(item)
<1>1. CursorItem \in AgentItems /\ StopItem \in AgentItems
  BY AgentNumbers DEF CursorItem, StopItem, AgentItems, ItemKinds, CallNumbers
<1>2. CursorItem \in QueuedItems /\ StopItem \in QueuedItems
  BY <1>1 DEF CursorItem, StopItem, QueuedItems, Fitting, CallKinds
<1>3. ASSUME NEW c \in CallIds, NEW kind \in CallKinds
      PROVE  CallItem(c, kind) \in QueuedItems
  <2>1. CallItem(c, kind) \in AgentItems
    BY AgentNumbers DEF CallItem, AgentItems, ItemKinds
  <2>2. QED  BY <2>1, AgentNumbers DEF CallItem, QueuedItems, Fitting
<1>4. ASSUME NEW point \in Nat, point # 0
      PROVE  PointItem(point) \in SentItems
  <2>1. PointItem(point) \in AgentItems
    BY AgentNumbers DEF PointItem, AgentItems, ItemKinds, CallNumbers
  <2>2. QED  BY <2>1, <1>4 DEF PointItem, SentItems, Fitting, CallKinds
<1>5. QED  BY <1>2, <1>3, <1>4 DEF QueuedItems, SentItems

\* Nothing has been asked for yet.
LEMMA AgentBeginsTyped == AgentInit => AgentTypes /\ Numbered
<1> SUFFICES ASSUME AgentInit PROVE AgentTypes /\ Numbered
  OBVIOUS
<1>1. NoCall \in CallRecords
  BY AgentNumbers DEF NoCall, CallRecords, CallNumbers, CallStages
<1>2. cursor \in CursorStates
  BY AgentNumbers DEF AgentInit, CursorStates, CallNumbers
<1>3. writing \in WriterStates
  BY DEF AgentInit, WriterStates, WriterStages
<1>4. 0 \in CallNumbers
  BY AgentNumbers DEF CallNumbers
<1>5. acted \in [CallIds -> [on : CallNumbers, at : Nat]]
  BY <1>4 DEF AgentInit
<1>6. AgentTypes
  BY <1>1, <1>2, <1>3, <1>4, <1>5 DEF AgentInit, AgentTypes
<1>7. Numbered
  BY DEF AgentInit, Numbered
<1>8. QED  BY <1>6, <1>7

\* A call told of its end, or given up, stays the call it is.
LEMMA ToldTypes ==
    ASSUME AgentTypes, NEW c \in CallIds, NEW stage \in CallStages
    PROVE  /\ [calls EXCEPT ![c].at = stage] \in [CallIds -> CallRecords]
           /\ \A d \in CallIds :
                 /\ [calls EXCEPT ![c].at = stage][d].at = IF d = c THEN stage ELSE calls[d].at
                 /\ [calls EXCEPT ![c].at = stage][d].kind = calls[d].kind
                 /\ [calls EXCEPT ![c].at = stage][d].of = calls[d].of
                 /\ [calls EXCEPT ![c].at = stage][d].aim = calls[d].aim
<1>1. calls \in [CallIds -> CallRecords]
  BY DEF AgentTypes
<1>2. calls[c] \in CallRecords
  BY <1>1
<1>3. [calls[c] EXCEPT !.at = stage] \in CallRecords
  BY <1>2 DEF CallRecords
<1>4. [calls EXCEPT ![c].at = stage] \in [CallIds -> CallRecords]
  BY <1>1, <1>3
<1>5. QED  BY <1>1, <1>2, <1>4 DEF CallRecords

\* A completed entry stays in its place.
LEMMA AwaitedTypes ==
    ASSUME AgentTypes, NEW id \in DOMAIN awaited
    PROVE  /\ [awaited EXCEPT ![id] = Completed] \in Seq(AwaitedNumbers)
           /\ Len([awaited EXCEPT ![id] = Completed]) = Len(awaited)
           /\ \A n \in DOMAIN awaited :
                 [awaited EXCEPT ![id] = Completed][n] = IF n = id THEN Completed ELSE awaited[n]
<1>1. awaited \in Seq(AwaitedNumbers) /\ DOMAIN awaited = 1 .. Len(awaited)
  BY LenProperties DEF AgentTypes
<1>2. id \in 1 .. Len(awaited) /\ Completed \in AwaitedNumbers
  BY <1>1, AgentNumbers
<1>3. QED  BY <1>1, <1>2, ExceptSeq

\* What is told to the caller of a request.
LEMMA TellTypes ==
    ASSUME AgentTypes, NEW id \in DOMAIN awaited, NEW how \in {"answered", "refused"}
    PROVE  /\ Tell(awaited[id], how) \in [CallIds -> CallRecords]
           /\ \A c \in CallIds :
                 /\ Tell(awaited[id], how)[c].kind = calls[c].kind
                 /\ Tell(awaited[id], how)[c].of = calls[c].of
                 /\ Tell(awaited[id], how)[c].aim = calls[c].aim
                 /\ Tell(awaited[id], how)[c].at =
                       IF awaited[id] = c /\ calls[c].at = "sent" THEN how ELSE calls[c].at
<1> DEFINE w == awaited[id]
<1>0. how \in CallStages
  BY DEF CallStages
<1>1. CASE w \in CallIds /\ calls[w].at = "sent"
  <2>1. Tell(w, how) = [calls EXCEPT ![w].at = how]
    BY <1>1 DEF Tell
  <2>2. QED  BY <2>1, <1>1, <1>0, ToldTypes
<1>2. CASE ~(w \in CallIds /\ calls[w].at = "sent")
  <2>1. Tell(w, how) = calls
    BY <1>2 DEF Tell
  <2>2. QED  BY <2>1, <1>2 DEF AgentTypes
<1>3. QED  BY <1>1, <1>2

\* What the callers do keeps the types.
LEMMA CallsKeepAgentTyped ==
    ASSUME AgentTypes, Numbered,
           \/ \E c \in CallIds : CallEnds(c) \/ DropBackend(c)
           \/ \E c \in CallIds, kind \in {"Start", "Button", "Health"}, of \in {0} \cup CallIds : Request(c, kind, of)
           \/ Move
    PROVE  AgentTypes' /\ Numbered'
<1> USE AgentNumbers
<1>0. /\ items \in Seq(QueuedItems) /\ lease \in CallNumbers /\ lifecycle \in CallNumbers
      /\ clientUp \in BOOLEAN /\ 0 \in CallNumbers /\ calls \in [CallIds -> CallRecords]
  BY DEF AgentTypes, CallNumbers
<1>1. ASSUME NEW c \in CallIds, DispatchFails(c) \/ CallReturns(c)  PROVE AgentTypes' /\ Numbered'
  <2>1. PICK well \in BOOLEAN : Return(c, well)
    BY <1>1 DEF DispatchFails, CallReturns
  <2>2. UNCHANGED <<items, cursor, writing, awaited, requests, responses, agentState>>
    BY <1>1 DEF DispatchFails, CallReturns
  <2>3. PICK stage \in CallStages : calls' = [calls EXCEPT ![c].at = stage]
    BY <2>1 DEF Return, CallStages
  <2>4. calls' \in [CallIds -> CallRecords]
    BY <2>3, ToldTypes
  <2>5. lifecycle' \in CallNumbers /\ lease' \in CallNumbers /\ clientUp' \in BOOLEAN
    BY <2>1, <1>0 DEF Return
  <2>6. QED  BY <2>2, <2>4, <2>5 DEF AgentTypes, Numbered, agentState
<1>2. ASSUME NEW b \in CallIds, DropBackend(b)  PROVE AgentTypes' /\ Numbered'
  <2>1. calls' \in [CallIds -> CallRecords]
    BY <1>2, ToldTypes DEF DropBackend, CallStages
  <2>2. lease' \in CallNumbers
    BY <1>2, <1>0 DEF DropBackend
  <2>3. items' \in Seq(QueuedItems)
    BY <1>2, <1>0, AgentItemTypes, AppendProperties DEF DropBackend
  <2>4. QED  BY <1>2, <2>1, <2>2, <2>3 DEF DropBackend, AgentTypes, Numbered, agentState
<1>3. ASSUME NEW c \in CallIds, NEW kind \in {"Start", "Button", "Health"}, NEW of \in {0} \cup CallIds,
             Request(c, kind, of)
      PROVE  AgentTypes' /\ Numbered'
  <2>1. PICK aim \in Nat : calls' = [calls EXCEPT ![c] = [kind |-> kind, of |-> of, at |-> "queued", aim |-> aim]]
    <3>1. (IF cursor.by = of THEN cursor.last ELSE 0) \in Nat
      BY DEF AgentTypes, CursorStates
    <3>2. QED  BY <1>3, <3>1 DEF Request
  <2>2. [kind |-> kind, of |-> of, at |-> "queued", aim |-> aim] \in CallRecords
    BY <1>0 DEF CallRecords, CallKinds, CallStages
  <2>3. calls' \in [CallIds -> CallRecords]
    BY <2>1, <2>2, <1>0
  <2>4. items' \in Seq(QueuedItems)
    <3>1. CallItem(c, kind) \in QueuedItems
      BY AgentItemTypes DEF CallKinds
    <3>2. QED  BY <3>1, <1>3, <1>0, AppendProperties DEF Request
  <2>5. lifecycle' \in CallNumbers
    BY <1>3, <1>0 DEF Request
  <2>6. QED  BY <1>3, <2>3, <2>4, <2>5 DEF Request, AgentTypes, Numbered, agentState
<1>4. CASE Move
  <2>1. cursor' \in CursorStates
    <3>1. cursor \in CursorStates
      BY DEF AgentTypes
    <3>2. cursor.last \in Nat /\ cursor.queued \in BOOLEAN
      BY <3>1 DEF CursorStates
    <3>3. PICK hand \in BOOLEAN : cursor' = [latest |-> cursor.last + 1, queued |-> cursor.queued \/ hand,
                                            last |-> cursor.last + 1, by |-> lease]
      BY <1>4 DEF Move
    <3>4. (cursor.queued \/ hand) \in BOOLEAN /\ cursor.last + 1 \in Nat
      BY <3>2
    <3>5. QED  BY <3>3, <3>4, <1>0 DEF CursorStates
  <2>2. items' \in Seq(QueuedItems)
    BY <1>4, <1>0, AgentItemTypes, AppendProperties DEF Move
  <2>3. QED  BY <1>4, <2>1, <2>2 DEF Move, AgentTypes, Numbered, agentState
<1>5. QED  BY <1>1, <1>2, <1>3, <1>4 DEF CallEnds

\* The position that goes before an item, if there is one.
LEMMA FlushTypes ==
    ASSUME AgentTypes
    PROVE  /\ Flush \in Seq(SentItems) /\ Flushed \in CursorStates
           /\ Flushed.latest = 0 /\ Flushed.last = cursor.last /\ Flushed.by = cursor.by
           /\ cursor.latest = 0 => Flush = <<>> /\ Len(Flush) = 0
           /\ cursor.latest # 0 => /\ Flush = <<PointItem(cursor.latest)>> /\ Len(Flush) = 1
                                   /\ Flush[1] = PointItem(cursor.latest)
<1>1. cursor \in CursorStates
  BY DEF AgentTypes
<1>2. Flushed \in CursorStates /\ Flushed.latest = 0 /\ Flushed.last = cursor.last /\ Flushed.by = cursor.by
  BY <1>1 DEF Flushed, CursorStates
<1>3. cursor.latest # 0 => PointItem(cursor.latest) \in SentItems
  BY <1>1, AgentItemTypes DEF CursorStates
<1>4. QED  BY <1>2, <1>3 DEF Flush

\* What the writer makes of the head of the queue: a position, the item, or both.
LEMMA TakeWrites ==
    ASSUME AgentTypes, Take
    PROVE  /\ items # <<>> /\ Head(items) \in QueuedItems
           /\ writing' = [writing EXCEPT !.rest = writing'.rest]
           /\ writing'.rest \in Seq(SentItems)
           /\ cursor' \in CursorStates
           /\ Head(items).kind = "Cursor" => writing'.rest = Flush /\ cursor' = Flushed
           /\ Head(items).kind = "Button" =>
                 /\ cursor' = Flushed /\ Len(writing'.rest) = Len(Flush) + 1
                 /\ writing'.rest[Len(Flush) + 1] = Head(items)
                 /\ \A i \in 1 .. Len(Flush) : writing'.rest[i] = Flush[i]
           /\ Head(items).kind \notin {"Cursor", "Button"} =>
                 /\ cursor' = cursor /\ Len(writing'.rest) = 1 /\ writing'.rest[1] = Head(items)
<1>0. items # <<>> /\ writing \in WriterStates /\ cursor \in CursorStates /\ items \in Seq(QueuedItems)
  BY DEF Take, AgentTypes
<1>1. Head(items) \in QueuedItems
  BY <1>0, HeadTailProperties
<1>2. CASE Head(items).kind = "Cursor"
  <2>0. Flush \o <<>> = Flush
    BY FlushTypes, ConcatEmptySeq
  <2>1. writing' = [writing EXCEPT !.rest = Flush] /\ cursor' = Flushed
    BY <1>2, <2>0 DEF Take
  <2>2. writing'.rest = Flush
    BY <2>1, <1>0 DEF WriterStates
  <2>3. QED  BY <1>0, <1>1, <1>2, <2>1, <2>2, FlushTypes
<1>3. CASE Head(items).kind = "Button"
  <2>0. Head(items) \in SentItems
    BY <1>1, <1>3, AgentItemTypes
  <2>1. writing' = [writing EXCEPT !.rest = Flush \o <<Head(items)>>] /\ cursor' = Flushed
    BY <1>3 DEF Take
  <2>2. writing'.rest = Flush \o <<Head(items)>>
    BY <2>1, <1>0 DEF WriterStates
  <2>3. <<Head(items)>> \in Seq(SentItems) /\ Len(<<Head(items)>>) = 1 /\ <<Head(items)>>[1] = Head(items)
    BY <2>0
  <2>4. /\ writing'.rest \in Seq(SentItems) /\ Len(writing'.rest) = Len(Flush) + 1
        /\ \A i \in 1 .. Len(Flush) + 1 : writing'.rest[i] = IF i <= Len(Flush) THEN Flush[i] ELSE <<Head(items)>>[i - Len(Flush)]
    BY <2>2, <2>3, FlushTypes, ConcatProperties
  <2>5. Len(Flush) \in Nat
    BY FlushTypes, LenProperties
  <2>6. writing'.rest[Len(Flush) + 1] = <<Head(items)>>[1]
    <3>1. Len(Flush) + 1 \in 1 .. Len(Flush) + 1 /\ ~(Len(Flush) + 1 <= Len(Flush))
          /\ Len(Flush) + 1 - Len(Flush) = 1
      BY <2>5
    <3>2. QED  BY <2>4, <3>1
  <2>7. \A i \in 1 .. Len(Flush) : writing'.rest[i] = Flush[i]
    BY <2>4, <2>5
  <2>8. QED  BY <1>0, <1>1, <1>3, <2>1, <2>2, <2>3, <2>4, <2>6, <2>7, FlushTypes
<1>4. CASE Head(items).kind \notin {"Cursor", "Button"}
  <2>0. Head(items) \in SentItems
    BY <1>1, <1>4, AgentItemTypes
  <2>1. writing' = [writing EXCEPT !.rest = <<Head(items)>>] /\ cursor' = cursor
    BY <1>4 DEF Take
  <2>2. writing'.rest = <<Head(items)>>
    BY <2>1, <1>0 DEF WriterStates
  <2>3. <<Head(items)>> \in Seq(SentItems) /\ Len(<<Head(items)>>) = 1 /\ <<Head(items)>>[1] = Head(items)
    BY <2>0
  <2>4. QED  BY <1>0, <1>1, <1>4, <2>1, <2>2, <2>3
<1>5. QED  BY <1>2, <1>3, <1>4

\* What the writer does keeps the types.
LEMMA WriterKeepsAgentTyped ==
    ASSUME AgentTypes, Numbered, Take \/ Tick \/ Write
    PROVE  AgentTypes' /\ Numbered'
<1>0. /\ items \in Seq(QueuedItems) /\ writing \in WriterStates /\ calls \in [CallIds -> CallRecords]
      /\ awaited \in Seq(AwaitedNumbers) /\ requests \in Seq(AgentRequests) /\ responses \in Seq(AgentResponses)
  BY DEF AgentTypes
<1>1. CASE Take
  <2>1. items' = Tail(items) /\ items # <<>>
        /\ UNCHANGED <<clientUp, calls, lifecycle, lease, awaited, requests, responses, agentState>>
    BY <1>1 DEF Take
  <2>2. items' \in Seq(QueuedItems)
    BY <2>1, <1>0, HeadTailProperties
  <2>3. writing' = [writing EXCEPT !.rest = writing'.rest] /\ writing'.rest \in Seq(SentItems) /\ cursor' \in CursorStates
    BY <1>1, TakeWrites
  <2>4. writing' \in WriterStates /\ writing'.id = writing.id /\ writing'.at = writing.at
    BY <2>3, <1>0 DEF WriterStates
  <2>5. QED  BY <2>1, <2>2, <2>3, <2>4 DEF AgentTypes, Numbered, agentState
<1>2. CASE Tick
  <2>1. writing' = [writing EXCEPT !.rest = Flush] /\ cursor' = Flushed
        /\ UNCHANGED <<clientUp, calls, lifecycle, lease, items, awaited, requests, responses, agentState>>
    BY <1>2 DEF Tick
  <2>2. writing' \in WriterStates /\ writing'.id = writing.id /\ writing'.at = writing.at
    BY <2>1, <1>0, FlushTypes DEF WriterStates
  <2>3. cursor' \in CursorStates
    BY <2>1, FlushTypes
  <2>4. QED  BY <2>1, <2>2, <2>3 DEF AgentTypes, Numbered, agentState
<1>3. CASE Write
  <2> DEFINE item == Head(writing.rest)
             waits == item.call # 0 /\ calls[item.call].at = "queued"
  <2>0. /\ writing.rest # <<>>
        /\ writing' = [writing EXCEPT !.at = "waits", !.rest = Tail(@), !.id = @ + 1]
        /\ awaited' = Append(awaited, item.call)
        /\ requests' = Append(requests, [id |-> writing.id + 1, item |-> item])
        /\ calls' = (IF waits THEN [calls EXCEPT ![item.call].at = "sent"] ELSE calls)
        /\ UNCHANGED <<clientUp, lifecycle, lease, items, cursor, responses, agentState>>
    BY <1>3 DEF Write
  <2>1. item \in SentItems /\ Tail(writing.rest) \in Seq(SentItems)
    BY <2>0, <1>0, HeadTailProperties DEF WriterStates
  <2>2. item.call \in CallNumbers
    BY <2>1 DEF SentItems, AgentItems
  <2> HIDE DEF item
  <2>3. writing.id \in Nat /\ writing.id = Len(awaited)
    BY <1>0 DEF WriterStates, Numbered
  <2>4. /\ awaited' \in Seq(AwaitedNumbers) /\ Len(awaited') = Len(awaited) + 1
    BY <2>0, <2>2, <1>0, AgentNumbers, AppendProperties
  <2>5. writing' \in WriterStates /\ writing'.id = writing.id + 1
    <3>1. writing' \in WriterStates
      <4>1. writing' = [[[writing EXCEPT !.at = "waits"] EXCEPT !.rest = Tail(writing.rest)] EXCEPT !.id = writing.id + 1]
        BY <2>0
      <4>2. "waits" \in WriterStages /\ writing.id + 1 \in Nat
        BY <2>3 DEF WriterStages
      <4>3. [writing EXCEPT !.at = "waits"] \in WriterStates
        BY <1>0, <4>2 DEF WriterStates
      <4>4. [[writing EXCEPT !.at = "waits"] EXCEPT !.rest = Tail(writing.rest)] \in WriterStates
        BY <4>3, <2>1 DEF WriterStates
      <4>5. QED  BY <4>1, <4>2, <4>4 DEF WriterStates
    <3>2. writing'.id = writing.id + 1
      BY <2>0, <1>0 DEF WriterStates
    <3>3. QED  BY <3>1, <3>2
  <2>6. DOMAIN awaited' = 1 .. Len(awaited) + 1 /\ DOMAIN awaited = 1 .. Len(awaited)
    BY <2>4, <1>0, LenProperties
  <2>7. [id |-> writing.id + 1, item |-> item] \in AgentRequests
    BY <2>1, <2>3 DEF AgentRequests
  <2>8. requests' \in Seq(AgentRequests) /\ DOMAIN requests' = 1 .. Len(requests) + 1
        /\ DOMAIN requests = 1 .. Len(requests) /\ Len(requests) \in Nat
        /\ \A i \in 1 .. Len(requests) : requests'[i] = requests[i]
        /\ requests'[Len(requests) + 1] = [id |-> writing.id + 1, item |-> item]
    BY <2>0, <2>7, <1>0, AppendProperties, LenProperties
  <2>9. calls' \in [CallIds -> CallRecords]
    <3>1. CASE waits
      <4>1. item.call \in CallIds /\ "sent" \in CallStages
        BY <3>1, <2>2, AgentNumbers DEF CallStages
      <4>2. [calls EXCEPT ![item.call].at = "sent"] \in [CallIds -> CallRecords]
        BY <4>1, ToldTypes
      <4>3. QED  BY <3>1, <2>0, <4>2
    <3>2. CASE ~waits
      BY <3>2, <2>0, <1>0
    <3>3. QED  BY <3>1, <3>2
  <2>10. AgentTypes'
    BY <2>0, <2>4, <2>5, <2>8, <2>9 DEF AgentTypes, agentState
  <2>11. Numbered'
    <3>1. writing'.id = Len(awaited') /\ writing'.id \in DOMAIN awaited'
      BY <2>3, <2>4, <2>5, <2>6
    <3>2. \A i \in DOMAIN requests' : requests'[i].id \in DOMAIN awaited'
      <4>1. ASSUME NEW i \in 1 .. Len(requests)  PROVE requests'[i].id \in DOMAIN awaited'
        <5>1. requests[i].id \in 1 .. Len(awaited)
          BY <2>6, <2>8 DEF Numbered
        <5>2. QED  BY <5>1, <2>3, <2>6, <2>8
      <4>2. requests'[Len(requests) + 1].id \in DOMAIN awaited'
        <5>1. [id |-> writing.id + 1, item |-> item].id = Len(awaited) + 1
          BY <2>3
        <5>2. Len(awaited) \in Nat
          BY <1>0, LenProperties
        <5>3. requests'[Len(requests) + 1].id = Len(awaited) + 1
          <6>1. Append(requests, [id |-> writing.id + 1, item |-> item])[Len(requests) + 1]
                   = [id |-> writing.id + 1, item |-> item]
            BY <2>7, <1>0, AppendProperties
          <6>2. requests' = Append(requests, [id |-> writing.id + 1, item |-> item])
            BY <2>0
          <6>3. QED  BY <6>1, <6>2, <5>1
        <5>4. Len(awaited) + 1 \in 1 .. Len(awaited) + 1
          BY <5>2
        <5>5. QED  BY <5>3, <5>4, <2>6
      <4>3. QED  BY <4>1, <4>2, <2>8
    <3>3. \A i \in DOMAIN responses' : responses'[i].id \in DOMAIN awaited'
      BY <2>0, <2>3, <2>6 DEF Numbered
    <3>4. QED  BY <3>1, <3>2, <3>3 DEF Numbered
  <2>12. QED  BY <2>10, <2>11
<1>4. QED  BY <1>1, <1>2, <1>3

\* What the event thread, the agent and a broken pipe do keeps the types.
LEMMA ThreadsKeepAgentTyped ==
    ASSUME AgentTypes, Numbered, StopWaiting \/ WriterLeaves \/ TransportFails \/ Read \/ Serve
    PROVE  AgentTypes' /\ Numbered'
<1>0. /\ items \in Seq(QueuedItems) /\ writing \in WriterStates /\ calls \in [CallIds -> CallRecords]
      /\ awaited \in Seq(AwaitedNumbers) /\ requests \in Seq(AgentRequests) /\ responses \in Seq(AgentResponses)
      /\ acted \in [CallIds -> [on : CallNumbers, at : Nat]] /\ runtime \in CallNumbers /\ pointer \in Nat
  BY DEF AgentTypes
<1>9. DOMAIN awaited = 1 .. Len(awaited) /\ Len(awaited) \in Nat
  BY <1>0, LenProperties
<1>1. CASE StopWaiting
  <2>1. /\ writing.at = "waits"
        /\ writing' = [writing EXCEPT !.at = "idle", !.hangs = IF clientUp THEN @ + 1 ELSE @]
        /\ awaited' = [awaited EXCEPT ![writing.id] = Completed] /\ calls' = Tell(awaited[writing.id], "refused")
        /\ UNCHANGED <<clientUp, lifecycle, lease, items, cursor, requests, responses, agentState>>
    BY <1>1 DEF StopWaiting, TooLate, Complete
  <2>2. writing.id \in DOMAIN awaited
    BY <2>1 DEF Numbered
  <2>3. awaited' \in Seq(AwaitedNumbers) /\ Len(awaited') = Len(awaited)
    BY <2>1, <2>2, AwaitedTypes
  <2>4. calls' \in [CallIds -> CallRecords]
    BY <2>1, <2>2, TellTypes
  <2>5. writing' \in WriterStates /\ writing'.id = writing.id /\ writing'.at = "idle"
    <3> DEFINE n == IF clientUp THEN writing.hangs + 1 ELSE writing.hangs
    <3>1. n \in Nat
      BY <1>0 DEF WriterStates
    <3>2. writing' = [writing EXCEPT !.at = "idle", !.hangs = n]
      BY <2>1
    <3> HIDE DEF n
    <3>3. QED  BY <3>1, <3>2, <1>0 DEF WriterStates, WriterStages
  <2>6. DOMAIN awaited' = DOMAIN awaited
    BY <2>3, <1>9, LenProperties
  <2>7. QED  BY <2>1, <2>3, <2>4, <2>5, <2>6 DEF AgentTypes, Numbered, agentState
<1>2. ASSUME WriterGone
      PROVE  /\ writing' \in WriterStates /\ writing'.id = writing.id /\ writing'.at = "gone"
             /\ items' \in Seq(QueuedItems) /\ requests' \in Seq(AgentRequests) /\ responses' \in Seq(AgentResponses)
             /\ requests' = <<>> /\ responses' = <<>>
  <2>1. writing' = [writing EXCEPT !.at = "gone", !.rest = <<>>] /\ items' = <<>> /\ requests' = <<>> /\ responses' = <<>>
    BY <1>2 DEF WriterGone
  <2>2. <<>> \in Seq(SentItems)
    OBVIOUS
  <2>3. writing' \in WriterStates /\ writing'.id = writing.id /\ writing'.at = "gone"
    BY <2>1, <2>2, <1>0 DEF WriterStates, WriterStages
  <2>4. QED  BY <2>1, <2>3
<1>3. CASE WriterLeaves
  <2>1. WriterGone /\ UNCHANGED <<clientUp, calls, lifecycle, lease, cursor, awaited, agentState>>
    BY <1>3 DEF WriterLeaves
  <2>2. QED  BY <2>1, <1>2 DEF AgentTypes, Numbered, agentState
<1>4. CASE TransportFails
  <2>1. /\ WriterGone /\ clientUp' = FALSE
        /\ awaited' = [id \in DOMAIN awaited |-> Completed]
        /\ calls' = [c \in CallIds |-> IF calls[c].at = "sent" THEN [calls[c] EXCEPT !.at = "refused"] ELSE calls[c]]
        /\ UNCHANGED <<lifecycle, lease, cursor, agentState>>
    BY <1>4 DEF TransportFails
  <2>2. awaited' \in Seq(AwaitedNumbers) /\ Len(awaited') = Len(awaited)
    <3>1. awaited' \in [1 .. Len(awaited) -> AwaitedNumbers]
      BY <2>1, <1>9, AgentNumbers
    <3>2. QED  BY <3>1, <1>9
  <2>3. calls' \in [CallIds -> CallRecords]
    <3>1. \A c \in CallIds : [calls[c] EXCEPT !.at = "refused"] \in CallRecords
      BY <1>0 DEF CallRecords, CallStages
    <3>2. QED  BY <3>1, <2>1, <1>0
  <2>4. AgentTypes'
    BY <2>1, <2>2, <2>3, <1>2 DEF AgentTypes, agentState
  <2>5. Numbered'
    BY <2>1, <2>2, <1>2 DEF Numbered
  <2>6. QED  BY <2>4, <2>5
<1>5. CASE Read
  <2> DEFINE r == Head(responses)
  <2>1. /\ responses # <<>> /\ responses' = Tail(responses)
        /\ \/ UNCHANGED <<awaited, calls, writing>>
           \/ /\ awaited' = [awaited EXCEPT ![r.id] = Completed]
              /\ calls' = Tell(awaited[r.id], IF r.well THEN "answered" ELSE "refused")
              /\ writing' = IF r.id = writing.id THEN [writing EXCEPT !.at = "idle"] ELSE writing
        /\ UNCHANGED <<clientUp, lifecycle, lease, items, cursor, requests, agentState>>
    BY <1>5 DEF Read, Complete
  <2>2. /\ responses' \in Seq(AgentResponses) /\ r = responses[1] /\ r \in AgentResponses
        /\ Len(responses') = Len(responses) - 1 /\ \A i \in 1 .. Len(responses') : responses'[i] = responses[i + 1]
    BY <2>1, <1>0, HeadTailProperties
  <2>3. Len(responses) \in Nat /\ Len(responses) # 0 /\ DOMAIN responses = 1 .. Len(responses)
        /\ DOMAIN responses' = 1 .. Len(responses')
    BY <2>1, <2>2, <1>0, LenProperties, EmptySeq
  <2>4. r.id \in DOMAIN awaited
    BY <2>2, <2>3 DEF Numbered
  <2>5. \A i \in DOMAIN responses' : responses'[i].id \in DOMAIN awaited
    <3>1. ASSUME NEW i \in 1 .. Len(responses')  PROVE responses'[i].id \in DOMAIN awaited
      <4>1. i + 1 \in DOMAIN responses
        BY <2>2, <2>3
      <4>2. QED  BY <4>1, <2>2 DEF Numbered
    <3>2. QED  BY <3>1, <2>3
  <2> HIDE DEF r
  <2>6. CASE UNCHANGED <<awaited, calls, writing>>
    BY <2>1, <2>2, <2>5, <2>6 DEF AgentTypes, Numbered, agentState
  <2>7. CASE /\ awaited' = [awaited EXCEPT ![r.id] = Completed]
             /\ calls' = Tell(awaited[r.id], IF r.well THEN "answered" ELSE "refused")
             /\ writing' = IF r.id = writing.id THEN [writing EXCEPT !.at = "idle"] ELSE writing
    <3>1. awaited' \in Seq(AwaitedNumbers) /\ Len(awaited') = Len(awaited)
      BY <2>7, <2>4, AwaitedTypes
    <3>2. calls' \in [CallIds -> CallRecords]
      <4>1. PICK how \in {"answered", "refused"} : calls' = Tell(awaited[r.id], how)
        BY <2>7
      <4>2. QED  BY <4>1, <2>4, TellTypes
    <3>3. writing' \in WriterStates /\ writing'.id = writing.id /\ (writing'.at = writing.at \/ writing'.at = "idle")
      BY <2>7, <1>0 DEF WriterStates, WriterStages
    <3>4. DOMAIN awaited' = DOMAIN awaited
      BY <3>1, <1>9, LenProperties
    <3>5. QED  BY <2>1, <2>2, <2>5, <3>1, <3>2, <3>3, <3>4 DEF AgentTypes, Numbered, agentState
  <2>8. QED  BY <2>1, <2>6, <2>7
<1>6. CASE Serve
  <2> DEFINE q == Head(requests)
  <2>1. /\ requests # <<>> /\ requests' = Tail(requests)
        /\ UNCHANGED <<clientUp, calls, lifecycle, lease, items, cursor, writing, awaited>>
    BY <1>6 DEF Serve
  <2>2. /\ requests' \in Seq(AgentRequests) /\ q = requests[1] /\ q \in AgentRequests
        /\ Len(requests') = Len(requests) - 1 /\ \A i \in 1 .. Len(requests') : requests'[i] = requests[i + 1]
    BY <2>1, <1>0, HeadTailProperties
  <2>3. /\ Len(requests) \in Nat /\ Len(requests) # 0 /\ DOMAIN requests = 1 .. Len(requests)
        /\ DOMAIN requests' = 1 .. Len(requests')
    BY <2>1, <2>2, <1>0, LenProperties, EmptySeq
  <2>4. q.id \in DOMAIN awaited /\ q.id \in Nat /\ q.item \in SentItems
    <3>1. 1 \in DOMAIN requests
      BY <2>3
    <3>2. requests[1].id \in DOMAIN awaited
      BY <3>1 DEF Numbered
    <3>3. q.id \in Nat /\ q.item \in SentItems
      BY <2>2 DEF AgentRequests
    <3>4. QED  BY <2>2, <3>2, <3>3
  <2>5. \A i \in DOMAIN requests' : requests'[i].id \in DOMAIN awaited
    <3>1. ASSUME NEW i \in 1 .. Len(requests')  PROVE requests'[i].id \in DOMAIN awaited
      <4>1. i + 1 \in DOMAIN requests
        BY <2>2, <2>3
      <4>2. QED  BY <4>1, <2>2 DEF Numbered
    <3>2. QED  BY <3>1, <2>3
  <2>6. q.item.call \in CallNumbers /\ q.item.point \in Nat
        /\ (q.item.kind \in CallKinds => q.item.call \in CallIds)
    BY <2>4, AgentNumbers DEF SentItems, AgentItems, Fitting
  <2>7. PICK well \in BOOLEAN : responses' = Append(responses, [id |-> q.id, well |-> well])
    BY <1>6 DEF Serve
  <2>8. [id |-> q.id, well |-> well] \in AgentResponses
    BY <2>4 DEF AgentResponses
  <2>9. /\ responses' \in Seq(AgentResponses) /\ Len(responses') = Len(responses) + 1
        /\ \A i \in 1 .. Len(responses) : responses'[i] = responses[i]
        /\ responses'[Len(responses) + 1] = [id |-> q.id, well |-> well]
    BY <2>7, <2>8, <1>0, AppendProperties
  <2>10. \A i \in DOMAIN responses' : responses'[i].id \in DOMAIN awaited
    <3>1. DOMAIN responses' = 1 .. Len(responses) + 1 /\ Len(responses) \in Nat /\ DOMAIN responses = 1 .. Len(responses)
      BY <2>9, <1>0, LenProperties
    <3>2. [id |-> q.id, well |-> well].id \in DOMAIN awaited
      BY <2>4
    <3>3. \A i \in 1 .. Len(responses) : responses'[i].id \in DOMAIN awaited
      BY <3>1, <2>9 DEF Numbered
    <3>4. QED  BY <3>1, <3>2, <3>3, <2>9
  <2>11. runtime' \in CallNumbers /\ pointer' \in Nat
    <3>1. runtime' \in {runtime, 0, q.item.call} /\ pointer' \in {pointer, q.item.point}
      BY <1>6 DEF Serve, agentState
    <3>2. QED  BY <3>1, <2>6, <1>0, AgentNumbers DEF CallNumbers
  <2>12. acted' \in [CallIds -> [on : CallNumbers, at : Nat]]
    <3>1. [on |-> runtime, at |-> pointer + 1] \in [on : CallNumbers, at : Nat]
      BY <1>0
    <3>2. \/ acted' = acted
          \/ q.item.kind = "Button" /\ acted' = [acted EXCEPT ![q.item.call] = [on |-> runtime, at |-> pointer + 1]]
      BY <1>6 DEF Serve, agentState
    <3>3. QED  BY <3>1, <3>2, <2>6, <1>0 DEF CallKinds
  <2> HIDE DEF q
  <2>13. QED  BY <2>1, <2>2, <2>5, <2>9, <2>10, <2>11, <2>12 DEF AgentTypes, Numbered
<1>7. QED  BY <1>1, <1>3, <1>4, <1>5, <1>6

\* Every step keeps the types and the numbers.
LEMMA AgentKeepsTyped == AgentTypes /\ Numbered /\ [AgentNext]_agentVars => AgentTypes' /\ Numbered'
<1>1. ASSUME AgentTypes, Numbered, UNCHANGED agentVars  PROVE AgentTypes' /\ Numbered'
  BY <1>1 DEF AgentTypes, Numbered, agentVars, agentState
<1>2. QED  BY <1>1, CallsKeepAgentTyped, WriterKeepsAgentTyped, ThreadsKeepAgentTyped DEF AgentNext, Writer

--------------------------------------------------------------------------------
(* What is on its way to the agent, in its order: the pipe, what is about   *)
(* to be written, and the queue.  The first part is settled; a position is  *)
(* put in only behind it.                                                   *)

Piped == Len(requests)
Prepared == Len(writing.rest)
Queued == Len(items)
Committed == Piped + Prepared
LineLen == Committed + Queued
Line == [i \in 1 .. LineLen |->
            IF i <= Piped THEN requests[i].item
            ELSE IF i <= Committed THEN writing.rest[i - Piped]
            ELSE items[i - Committed]]
Places == 1 .. LineLen

LineSized ==
    /\ Piped \in Nat /\ Prepared \in Nat /\ Queued \in Nat
    /\ Committed \in Nat /\ LineLen \in Nat /\ Committed <= LineLen

LineTyped ==
    /\ LineSized
    /\ \A i \in 1 .. Committed : Line[i] \in SentItems
    /\ \A i \in (Committed + 1) .. LineLen : Line[i] \in QueuedItems
    /\ \A i \in 1 .. LineLen : Line[i] \in AgentItems /\ Fitting(Line[i])

\* What is settled is ready to be written; what is queued has no position yet.
LEMMA LineIsTyped == AgentTypes => LineTyped
<1> SUFFICES ASSUME AgentTypes PROVE LineTyped
  OBVIOUS
<1>1. /\ requests \in Seq(AgentRequests) /\ writing.rest \in Seq(SentItems) /\ items \in Seq(QueuedItems)
  BY DEF AgentTypes, WriterStates
<1>2. /\ Piped \in Nat /\ Prepared \in Nat /\ Queued \in Nat
      /\ \A i \in 1 .. Piped : requests[i].item \in SentItems
      /\ \A i \in 1 .. Prepared : writing.rest[i] \in SentItems
      /\ \A i \in 1 .. Queued : items[i] \in QueuedItems
  <2>1. Piped \in Nat /\ Prepared \in Nat /\ Queued \in Nat
    BY <1>1, LenProperties DEF Piped, Prepared, Queued
  <2>2. \A i \in 1 .. Piped : requests[i] \in AgentRequests
    BY <1>1, ElementOfSeq DEF Piped, Prepared, Queued
  <2>3. \A i \in 1 .. Piped : requests[i].item \in SentItems
    BY <2>2 DEF AgentRequests
  <2>4. \A i \in 1 .. Prepared : writing.rest[i] \in SentItems
    BY <1>1, ElementOfSeq DEF Piped, Prepared, Queued
  <2>5. \A i \in 1 .. Queued : items[i] \in QueuedItems
    BY <1>1, ElementOfSeq DEF Piped, Prepared, Queued
  <2>6. QED  BY <2>1, <2>3, <2>4, <2>5
<1>3. Committed \in Nat /\ LineLen \in Nat /\ Committed <= LineLen
  BY <1>2 DEF Committed, LineLen
<1>4. \A i \in 1 .. Committed : Line[i] \in SentItems
  <2>1. ASSUME NEW i \in 1 .. Committed, i <= Piped  PROVE Line[i] \in SentItems
    BY <2>1, <1>2, <1>3 DEF Line
  <2>2. ASSUME NEW i \in 1 .. Committed, ~(i <= Piped)  PROVE Line[i] \in SentItems
    <3>1. i - Piped \in 1 .. Prepared
      BY <2>2, <1>2 DEF Committed
    <3>2. QED  BY <3>1, <2>2, <1>2, <1>3 DEF Line
  <2>3. QED  BY <2>1, <2>2
<1>5. \A i \in (Committed + 1) .. LineLen : Line[i] \in QueuedItems
  <2>1. ASSUME NEW i \in (Committed + 1) .. LineLen  PROVE Line[i] \in QueuedItems
    <3>1. i - Committed \in 1 .. Queued /\ ~(i <= Committed) /\ ~(i <= Piped) /\ i \in 1 .. LineLen
      BY <1>2, <1>3 DEF Committed, LineLen
    <3>2. QED  BY <3>1, <1>2 DEF Line
  <2>2. QED  BY <2>1
<1>6. \A i \in 1 .. LineLen : Line[i] \in AgentItems /\ Fitting(Line[i])
  <2>1. ASSUME NEW i \in 1 .. LineLen  PROVE i \in 1 .. Committed \/ i \in (Committed + 1) .. LineLen
    BY <1>3
  <2>2. QED  BY <2>1, <1>4, <1>5, AgentItemTypes
<1>7. QED  BY <1>2, <1>3, <1>4, <1>5, <1>6 DEF LineTyped, LineSized

\* The lengths before and after a step.
LEMMA LineIsSized == AgentTypes => LineSized
BY LineIsTyped DEF LineTyped

\* The shapes a step gives to what is on its way.
LineKept == LineLen' = LineLen /\ Committed' = Committed /\ \A i \in 1 .. LineLen : Line'[i] = Line[i]
LineGrows(item) ==
    /\ LineLen' = LineLen + 1 /\ Committed' = Committed
    /\ \A i \in 1 .. LineLen : Line'[i] = Line[i]
    /\ Line'[LineLen + 1] = item
LineServed ==
    /\ LineLen # 0 /\ Committed # 0 /\ LineLen' = LineLen - 1 /\ Committed' = Committed - 1
    /\ \A i \in 1 .. LineLen' : Line'[i] = Line[i + 1]
\* The writer settles some of the queue; a position may come in before it.
LineSettles(added, gone, more) ==
    /\ LineLen' = LineLen + added - gone /\ Committed' = Committed + more
    /\ Committed + gone <= LineLen /\ Committed + added <= LineLen'
    /\ \A i \in 1 .. Committed : Line'[i] = Line[i]
    /\ \A i \in (Committed + added + 1) .. LineLen' : Line'[i] = Line[i + gone - added]
    /\ added = 1 => cursor.latest # 0 /\ Line'[Committed + 1] = PointItem(cursor.latest)
    /\ gone = 1 => Line[Committed + 1].kind = "Cursor" /\ more = added
    /\ cursor' = cursor \/ cursor' = Flushed
    /\ cursor' # cursor => added = 1 \/ cursor.latest = 0
    /\ more = added \/ more = added + 1
    /\ more = added + 1 => /\ Committed < LineLen /\ Line[Committed + 1].kind # "Cursor"
                           /\ Line[Committed + 1].kind = "Button" => added = 1 \/ cursor.latest = 0
    /\ added = 1 => cursor' = Flushed

\* A step that leaves pipe and queue alone leaves the line.
LEMMA LineStays ==
    ASSUME AgentTypes, AgentTypes', UNCHANGED <<requests, items>>, writing'.rest = writing.rest
    PROVE  LineKept
<1>1. LineSized /\ LineSized'
  BY LineIsSized, PTL
<1>2. Piped' = Piped /\ Prepared' = Prepared /\ Queued' = Queued
  BY DEF Piped, Prepared, Queued
<1>3. QED  BY <1>1, <1>2 DEF LineKept, LineSized, Line, LineLen, Committed

\* A place at the end of the queue is the end of the line.
LEMMA LineQueues ==
    ASSUME AgentTypes, AgentTypes', NEW item \in QueuedItems,
           UNCHANGED <<requests, writing>>,
           Len(items') = Len(items) + 1, items'[Len(items) + 1] = item,
           \A i \in 1 .. Len(items) : items'[i] = items[i]
    PROVE  LineGrows(item)
<1>1. LineSized /\ LineSized'
  BY LineIsSized, PTL
<1>3. Piped' = Piped /\ Prepared' = Prepared /\ Queued' = Queued + 1
  BY DEF Piped, Prepared, Queued
<1>4. LineLen' = LineLen + 1 /\ Committed' = Committed
  BY <1>1, <1>3 DEF LineSized, LineLen, Committed
<1>5. ASSUME NEW i \in 1 .. LineLen  PROVE Line'[i] = Line[i]
  <2>1. CASE i <= Committed
    BY <2>1, <1>1, <1>3, <1>4 DEF LineSized, Line, Committed
  <2>2. CASE ~(i <= Committed)
    <3>1. i - Committed \in 1 .. Queued /\ ~(i <= Piped)
      BY <2>2, <1>1 DEF LineSized, LineLen, Committed
    <3>2. Line[i] = items[i - Committed]
      BY <3>1, <2>2 DEF Line
    <3>3. i \in 1 .. LineLen' /\ ~(i <= Committed') /\ ~(i <= Piped')
      BY <3>1, <2>2, <1>1, <1>3, <1>4 DEF LineSized
    <3>4. Line'[i] = items'[i - Committed']
      BY <3>3 DEF Line
    <3>5. QED  BY <3>1, <3>2, <3>4, <1>4 DEF Queued
  <2>3. QED  BY <2>1, <2>2
<1>6. ASSUME NEW i \in 1 .. LineLen', i = LineLen + 1  PROVE Line'[i] = item
  <2>1. ~(i <= Committed') /\ ~(i <= Piped') /\ i - Committed' = Queued + 1
    BY <1>1, <1>3, <1>4, <1>6 DEF LineSized, LineLen, Committed
  <2>2. Line'[i] = items'[i - Committed']
    BY <2>1 DEF Line
  <2>3. QED  BY <2>1, <2>2 DEF Queued
<1>7. LineLen + 1 \in 1 .. LineLen'
  BY <1>1, <1>4 DEF LineSized
<1>8. QED  BY <1>4, <1>5, <1>6, <1>7 DEF LineGrows

\* The agent takes the first of the line.
LEMMA LineServes ==
    ASSUME AgentTypes, AgentTypes', Serve
    PROVE  LineServed /\ requests # <<>> /\ Line[1] = Head(requests).item
<1>1. LineSized /\ LineSized'
  BY LineIsSized, PTL
<1>2. requests \in Seq(AgentRequests) /\ requests # <<>> /\ requests' = Tail(requests) /\ UNCHANGED <<items, writing>>
  BY DEF AgentTypes, Serve
<1>3. /\ Piped' = Piped - 1 /\ Head(requests) = requests[1] /\ Piped # 0
      /\ \A i \in 1 .. Piped' : requests'[i] = requests[i + 1]
  BY <1>2, HeadTailProperties, EmptySeq DEF Piped
<1>a. Prepared' = Prepared /\ Queued' = Queued
  BY <1>2 DEF Prepared, Queued
<1>4. LineLen' = LineLen - 1 /\ Committed' = Committed - 1 /\ LineLen # 0 /\ Committed # 0
  BY <1>1, <1>a, <1>3 DEF LineSized, LineLen, Committed
<1>5. ASSUME NEW i \in 1 .. LineLen', NEW j \in 1 .. LineLen, j = i + 1  PROVE Line'[i] = Line[j]
  <2>1. CASE i <= Piped'
    <3>1. i \in 1 .. Piped' /\ j <= Piped
      BY <2>1, <1>5, <1>1, <1>3 DEF LineSized
    <3>2. Line'[i] = requests'[i].item /\ Line[j] = requests[j].item
      BY <2>1, <3>1 DEF Line
    <3>3. QED  BY <3>1, <3>2, <1>3, <1>5
  <2>2. CASE ~(i <= Piped') /\ i <= Committed'
    <3>1. ~(j <= Piped) /\ j <= Committed /\ i - Piped' = j - Piped
      BY <2>2, <1>5, <1>1, <1>3, <1>4 DEF LineSized
    <3>2. Line'[i] = writing'.rest[i - Piped'] /\ Line[j] = writing.rest[j - Piped]
      BY <2>2, <3>1 DEF Line
    <3>3. QED  BY <3>1, <3>2, <1>2
  <2>3. CASE ~(i <= Committed')
    <3>1. ~(j <= Committed) /\ ~(j <= Piped) /\ ~(i <= Piped')
      BY <2>3, <1>5, <1>1, <1>a, <1>3, <1>4 DEF LineSized, Committed
    <3>2. i - Committed' = j - Committed
      BY <1>5, <1>1, <1>4 DEF LineSized
    <3>3. Line'[i] = items'[i - Committed']
      BY <2>3, <3>1 DEF Line
    <3>4. Line[j] = items[j - Committed]
      BY <3>1 DEF Line
    <3>5. QED  BY <3>2, <3>3, <3>4, <1>2
  <2>4. QED  BY <2>1, <2>2, <2>3
<1>6. Line[1] = Head(requests).item
  BY <1>1, <1>3, <1>4 DEF LineSized, Line
<1>7. \A i \in 1 .. LineLen' : i + 1 \in 1 .. LineLen
  BY <1>1, <1>4 DEF LineSized
<1>8. QED  BY <1>2, <1>4, <1>5, <1>6, <1>7 DEF LineServed

\* A write moves the border between pipe and writer, not the line.
LEMMA LineWrites ==
    ASSUME AgentTypes, AgentTypes', Write
    PROVE  /\ LineKept /\ Committed # 0 /\ Head(writing.rest) = Line[Piped + 1]
           /\ Piped + 1 \in 1 .. LineLen
<1>1. LineSized /\ LineSized'
  BY LineIsSized, PTL
<1> DEFINE item == Head(writing.rest)
<1>2. /\ writing.rest # <<>> /\ requests \in Seq(AgentRequests) /\ writing \in WriterStates /\ writing.rest \in Seq(SentItems)
  BY DEF AgentTypes, WriterStates, Write
<1>a. items' = items
  BY DEF Write
<1>b. requests' = Append(requests, [id |-> writing.id + 1, item |-> item])
  BY DEF Write
<1>3. writing'.rest = Tail(writing.rest)
  <2>1. writing' = [writing EXCEPT !.at = "waits", !.rest = Tail(@), !.id = @ + 1]
    BY DEF Write
  <2>2. QED  BY <2>1, <1>2 DEF WriterStates
<1>4. /\ Prepared' = Prepared - 1 /\ item = writing.rest[1] /\ item \in SentItems
      /\ Prepared # 0 /\ \A i \in 1 .. Prepared' : writing'.rest[i] = writing.rest[i + 1]
  BY <1>2, <1>3, HeadTailProperties, EmptySeq DEF Prepared
<1> HIDE DEF item
<1>5. [id |-> writing.id + 1, item |-> item] \in AgentRequests
  BY <1>2, <1>4 DEF AgentRequests, WriterStates
<1>6. /\ Piped' = Piped + 1
      /\ \A i \in 1 .. Piped : requests'[i] = requests[i]
  BY <1>2, <1>b, <1>5, AppendProperties DEF Piped
<1>7. requests'[Piped + 1].item = item
  <2>1. requests'[Piped + 1] = [id |-> writing.id + 1, item |-> item]
    <3>1. Append(requests, [id |-> writing.id + 1, item |-> item])[Piped + 1] = [id |-> writing.id + 1, item |-> item]
      BY <1>2, <1>5, AppendProperties DEF Piped
    <3>2. QED  BY <3>1, <1>b
  <2>2. QED  BY <2>1
<1>c. Queued' = Queued
  BY <1>a DEF Queued
<1>8. LineLen' = LineLen /\ Committed' = Committed /\ Committed # 0 /\ Piped + 1 \in 1 .. LineLen
      /\ Piped + 1 <= Committed
  BY <1>1, <1>c, <1>4, <1>6 DEF LineSized, LineLen, Committed
<1>9. ASSUME NEW i \in 1 .. LineLen  PROVE Line'[i] = Line[i] /\ (i = Piped + 1 => Line[i] = item)
  <2>0. i \in 1 .. LineLen'
    BY <1>8
  <2>1. CASE i <= Piped
    <3>1. i <= Piped' /\ i \in 1 .. Piped /\ i # Piped + 1
      BY <2>1, <1>1, <1>6 DEF LineSized
    <3>2. Line'[i] = requests'[i].item /\ Line[i] = requests[i].item
      BY <2>0, <2>1, <3>1 DEF Line
    <3>3. QED  BY <3>1, <3>2, <1>6
  <2>2. CASE i = Piped + 1
    <3>1. i <= Piped' /\ ~(i <= Piped) /\ i <= Committed /\ i - Piped = 1
      BY <2>2, <1>1, <1>6, <1>8 DEF LineSized
    <3>2. Line'[i] = requests'[i].item /\ Line[i] = writing.rest[1]
      BY <2>0, <3>1 DEF Line
    <3>3. QED  BY <2>2, <3>2, <1>4, <1>7
  <2>3. CASE ~(i <= Piped + 1) /\ i <= Committed
    <3>1. /\ ~(i <= Piped') /\ ~(i <= Piped) /\ i <= Committed'
          /\ i - Piped' \in 1 .. Prepared' /\ i - Piped' + 1 = i - Piped
      BY <2>3, <1>1, <1>4, <1>6, <1>8 DEF LineSized, Committed
    <3>2. Line'[i] = writing'.rest[i - Piped'] /\ Line[i] = writing.rest[i - Piped]
      BY <2>0, <2>3, <3>1 DEF Line
    <3>3. writing'.rest[i - Piped'] = writing.rest[i - Piped' + 1]
      BY <3>1, <1>4
    <3>4. i # Piped + 1
      BY <2>3, <1>1 DEF LineSized
    <3>5. QED  BY <3>1, <3>2, <3>3, <3>4
  <2>4. CASE ~(i <= Committed)
    <3>1. /\ ~(i <= Piped') /\ ~(i <= Piped) /\ ~(i <= Committed') /\ i # Piped + 1
      BY <2>4, <1>1, <1>4, <1>6, <1>8 DEF LineSized, Committed
    <3>2. Line'[i] = items'[i - Committed'] /\ Line[i] = items[i - Committed]
      BY <2>0, <2>4, <3>1 DEF Line
    <3>3. QED  BY <3>1, <3>2, <1>a, <1>8
  <2>5. QED  BY <2>1, <2>2, <2>3, <2>4, <1>1 DEF LineSized
<1>10. item = Line[Piped + 1]
  BY <1>8, <1>9
<1>11. QED  BY <1>8, <1>9, <1>10 DEF LineKept, item

\* The writer turns the first of the queue into what it writes.
LEMMA LineChanges ==
    ASSUME AgentTypes, AgentTypes', UNCHANGED requests, Prepared = 0, NEW q \in 0 .. 1, NEW k \in Nat, Prepared' = k,
           Queued' = Queued - q, \A i \in 1 .. Queued' : items'[i] = items[i + q]
    PROVE  /\ LineLen' = LineLen + k - q /\ Committed' = Committed + k
           /\ \A i \in 1 .. Committed : Line'[i] = Line[i]
           /\ \A i \in 1 .. k : Line'[Committed + i] = writing'.rest[i]
           /\ \A i \in (Committed + k + 1) .. LineLen' : Line'[i] = Line[i + q - k]
           /\ Queued # 0 => Committed + 1 \in 1 .. LineLen /\ Line[Committed + 1] = items[1]
<1>1. LineSized /\ LineSized'
  BY LineIsSized, PTL
<1>2. Piped' = Piped
  BY DEF Piped
<1>3. LineLen' = LineLen + k - q /\ Committed' = Committed + k /\ Committed = Piped
  BY <1>1, <1>2 DEF LineSized, LineLen, Committed
<1>4. ASSUME NEW i \in 1 .. Committed  PROVE Line'[i] = Line[i]
  <2>1. i <= Piped /\ i <= Piped' /\ i \in 1 .. LineLen
    BY <1>1, <1>2, <1>3 DEF LineSized
  <2>2. i \in 1 .. LineLen'
    BY <1>1, <1>3 DEF LineSized
  <2>3. Line'[i] = requests'[i].item /\ Line[i] = requests[i].item
    BY <2>1, <2>2 DEF Line
  <2>4. QED  BY <2>3
<1>5. ASSUME NEW i \in 1 .. k, NEW j \in 1 .. LineLen', j = Committed + i
      PROVE  Line'[j] = writing'.rest[i]
  <2>1. ~(j <= Piped') /\ j <= Committed' /\ j - Piped' = i
    BY <1>1, <1>2, <1>3, <1>5 DEF LineSized
  <2>2. Line'[j] = writing'.rest[j - Piped']
    BY <2>1 DEF Line
  <2>3. QED  BY <2>1, <2>2
<1>6. \A i \in 1 .. k : Committed + i \in 1 .. LineLen'
  BY <1>1, <1>3 DEF LineSized
<1>7. ASSUME NEW i \in (Committed + k + 1) .. LineLen', NEW j \in Int, j = i + q - k
      PROVE  Line'[i] = Line[j]
  <2>1. /\ ~(i <= Piped') /\ ~(i <= Committed') /\ i - Committed' \in 1 .. Queued'
        /\ i - Committed' + q = j - Committed /\ i \in 1 .. LineLen'
    <3>1. /\ Committed' = Committed + k /\ LineLen' = Committed' + Queued' /\ Piped' <= Committed'
          /\ Committed' \in Nat /\ Committed \in Nat /\ Queued' \in Nat /\ LineLen' \in Nat /\ Piped' \in Nat
      BY <1>1, <1>2, <1>3 DEF LineSized, LineLen
    <3>2. QED  BY <3>1, <1>7
  <2>2. ~(j <= Piped) /\ ~(j <= Committed) /\ j \in 1 .. LineLen
    BY <1>1, <1>2, <1>3, <1>7 DEF LineSized, LineLen
  <2>3. Line'[i] = items'[i - Committed']
    BY <2>1 DEF Line
  <2>4. Line[j] = items[j - Committed]
    BY <2>2 DEF Line
  <2>5. QED  BY <2>1, <2>3, <2>4
<1>8. \A i \in (Committed + k + 1) .. LineLen' : i + q - k \in Int
  BY <1>1 DEF LineSized
<1>9. ASSUME Queued # 0, NEW j \in Nat, j = Committed + 1  PROVE j \in 1 .. LineLen /\ Line[j] = items[1]
  <2>1. j \in 1 .. LineLen /\ ~(j <= Committed) /\ ~(j <= Piped) /\ j - Committed = 1
    BY <1>1, <1>3, <1>9 DEF LineSized, LineLen
  <2>2. Line[j] = items[j - Committed]
    BY <2>1 DEF Line
  <2>3. QED  BY <2>1, <2>2
<1>10. Committed + 1 \in Nat
  BY <1>1 DEF LineSized
<1>11. QED  BY <1>3, <1>4, <1>5, <1>6, <1>7, <1>8, <1>9, <1>10

\* What a turn of the writer does to the line.
LEMMA LineIsTaken ==
    ASSUME AgentTypes, AgentTypes', Take \/ Tick
    PROVE  \E added, gone \in {0, 1}, more \in 0 .. 2 : LineSettles(added, gone, more)
<1>1. LineSized /\ LineSized'
  BY LineIsSized, PTL
<1>2. /\ UNCHANGED requests /\ writing.rest = <<>> /\ writing \in WriterStates /\ items \in Seq(QueuedItems)
      /\ cursor \in CursorStates
  BY DEF Take, Tick, AgentTypes
<1>3. Prepared = 0
  BY <1>2 DEF Prepared
<1>4. /\ Flushed.latest = 0 /\ (cursor.latest = 0 => Len(Flush) = 0)
      /\ cursor.latest # 0 => Len(Flush) = 1 /\ Flush[1] = PointItem(cursor.latest)
  BY FlushTypes
<1>5. CASE Tick
  <2>1. items = <<>> /\ items' = items /\ cursor.latest # 0 /\ cursor' = Flushed
        /\ writing' = [writing EXCEPT !.rest = Flush]
    BY <1>5 DEF Tick
  <2>2. writing'.rest = Flush
    BY <2>1, <1>2 DEF WriterStates
  <2>3. Queued = 0 /\ Queued' = Queued - 0 /\ Prepared' = 1
    BY <2>1, <2>2, <1>4 DEF Queued, Prepared
  <2>4. \A i \in 1 .. Queued' : items'[i] = items[i + 0]
    BY <2>3
  <2>5. /\ LineLen' = LineLen + 1 - 0 /\ Committed' = Committed + 1
        /\ \A i \in 1 .. Committed : Line'[i] = Line[i]
        /\ Line'[Committed + 1] = PointItem(cursor.latest)
        /\ \A i \in (Committed + 1 + 1) .. LineLen' : Line'[i] = Line[i + 0 - 1]
    BY <2>1, <2>2, <2>3, <2>4, <1>2, <1>3, <1>4, LineChanges
  <2>6. LineSettles(1, 0, 1)
    BY <2>1, <2>5, <1>1 DEF LineSettles, LineSized
  <2>7. QED  BY <2>6
<1>6. CASE Take
  <2> DEFINE head == Head(items)
  <2>1. /\ items # <<>> /\ items' = Tail(items) /\ head \in QueuedItems
        /\ head.kind = "Cursor" => writing'.rest = Flush /\ cursor' = Flushed
        /\ head.kind = "Button" =>
              /\ cursor' = Flushed /\ Len(writing'.rest) = Len(Flush) + 1
              /\ writing'.rest[Len(Flush) + 1] = head
              /\ \A i \in 1 .. Len(Flush) : writing'.rest[i] = Flush[i]
        /\ head.kind \notin {"Cursor", "Button"} =>
              /\ cursor' = cursor /\ Len(writing'.rest) = 1 /\ writing'.rest[1] = head
    BY <1>6, TakeWrites DEF Take
  <2>2. /\ Len(items') = Len(items) - 1 /\ head = items[1] /\ Len(items) # 0
        /\ \A i \in 1 .. Len(items') : items'[i] = items[i + 1]
    BY <2>1, <1>2, HeadTailProperties, EmptySeq
  <2> HIDE DEF head
  <2>3. Queued' = Queued - 1 /\ Queued # 0 /\ \A i \in 1 .. Queued' : items'[i] = items[i + 1]
    BY <2>2 DEF Queued
  <2>a. PICK k \in Nat : Prepared' = k
    BY <1>1 DEF LineSized
  <2>4. /\ LineLen' = LineLen + k - 1 /\ Committed' = Committed + k
        /\ \A i \in 1 .. Committed : Line'[i] = Line[i]
        /\ \A i \in 1 .. k : Line'[Committed + i] = writing'.rest[i]
        /\ \A i \in (Committed + k + 1) .. LineLen' : Line'[i] = Line[i + 1 - k]
        /\ Committed + 1 \in 1 .. LineLen /\ Line[Committed + 1] = head
    <3>1. /\ LineLen' = LineLen + k - 1 /\ Committed' = Committed + k
          /\ \A i \in 1 .. Committed : Line'[i] = Line[i]
          /\ \A i \in 1 .. k : Line'[Committed + i] = writing'.rest[i]
          /\ \A i \in (Committed + k + 1) .. LineLen' : Line'[i] = Line[i + 1 - k]
          /\ Committed + 1 \in 1 .. LineLen /\ Line[Committed + 1] = items[1]
      <4>1. 1 \in 0 .. 1 /\ UNCHANGED requests
        BY <1>2
      <4>2. QED  BY <4>1, <2>3, <2>a, <1>3, LineChanges
    <3>2. QED  BY <3>1, <2>2
  <2>5. CASE head.kind = "Cursor" /\ cursor.latest = 0
    <3>1. k = 0
      BY <2>a, <2>1, <2>5, <1>4 DEF Prepared
    <3>2. LineSettles(0, 1, 0)
      BY <2>1, <2>4, <2>5, <3>1, <1>1 DEF LineSettles, LineSized
    <3>3. QED  BY <3>2
  <2>6. CASE head.kind = "Cursor" /\ cursor.latest # 0
    <3>1. k = 1 /\ writing'.rest[1] = PointItem(cursor.latest)
      BY <2>a, <2>1, <2>6, <1>4 DEF Prepared
    <3>2. Line'[Committed + 1] = PointItem(cursor.latest)
      BY <2>4, <3>1
    <3>3. LineSettles(1, 1, 1)
      BY <2>1, <2>4, <2>6, <3>1, <3>2, <1>1 DEF LineSettles, LineSized
    <3>4. QED  BY <3>3
  <2>7. CASE (head.kind = "Button" /\ cursor.latest = 0) \/ head.kind \notin {"Cursor", "Button"}
    <3>1. k = 1 /\ writing'.rest[1] = head
      <4>1. CASE head.kind = "Button" /\ cursor.latest = 0
        BY <4>1, <2>a, <2>1, <1>4 DEF Prepared
      <4>2. CASE head.kind \notin {"Cursor", "Button"}
        BY <4>2, <2>a, <2>1 DEF Prepared
      <4>3. QED  BY <4>1, <4>2, <2>7
    <3>2. Line'[Committed + 1] = Line[Committed + 1]
      BY <2>4, <3>1
    <3>3. \A i \in (Committed + 1) .. LineLen' : Line'[i] = Line[i]
      <4>1. ASSUME NEW i \in (Committed + 1 + 1) .. LineLen'  PROVE Line'[i] = Line[i]
        <5>1. i + 1 - 1 = i
          BY <1>1 DEF LineSized
        <5>2. QED  BY <5>1, <2>4, <3>1
      <4>2. QED  BY <4>1, <3>2, <1>1 DEF LineSized
    <3>4. LineSettles(0, 0, 1)
      <4>1. \A i \in (Committed + 0 + 1) .. LineLen' : Line'[i] = Line[i + 0 - 0]
        BY <3>3, <1>1 DEF LineSized
      <4>2. LineLen' = LineLen + 0 - 0 /\ Committed' = Committed + 1
        BY <2>4, <3>1, <1>1 DEF LineSized
      <4>3. Committed + 0 <= LineLen /\ Committed + 0 <= LineLen' /\ Committed < LineLen
        BY <2>4, <3>1, <1>1 DEF LineSized
      <4>4. cursor' = cursor \/ (cursor' = Flushed /\ cursor.latest = 0)
        BY <2>1, <2>7
      <4>5. QED  BY <4>1, <4>2, <4>3, <4>4, <2>4, <2>7 DEF LineSettles
    <3>5. QED  BY <3>4
  <2>8. CASE head.kind = "Button" /\ cursor.latest # 0
    <3>1. k = 2 /\ writing'.rest[1] = PointItem(cursor.latest) /\ writing'.rest[2] = head
      <4>1. Len(Flush) = 1 /\ Flush[1] = PointItem(cursor.latest)
        BY <2>8, <1>4
      <4>2. Len(writing'.rest) = 1 + 1 /\ writing'.rest[1 + 1] = head
        BY <4>1, <2>1, <2>8
      <4>3. writing'.rest[1] = PointItem(cursor.latest)
        BY <4>1, <2>1, <2>8
      <4>4. k = Len(writing'.rest)
        BY <2>a DEF Prepared
      <4>5. 1 + 1 = 2
        OBVIOUS
      <4>6. QED  BY <4>2, <4>3, <4>4, <4>5
    <3>2. Line'[Committed + 1] = PointItem(cursor.latest) /\ Line'[Committed + 2] = Line[Committed + 1]
      BY <2>4, <3>1
    <3>3. \A i \in (Committed + 1 + 1) .. LineLen' : Line'[i] = Line[i + 0 - 1]
      <4>1. ASSUME NEW i \in (Committed + 2 + 1) .. LineLen'  PROVE Line'[i] = Line[i + 0 - 1]
        <5>1. i + 1 - 2 = i + 0 - 1
          BY <1>1 DEF LineSized
        <5>2. QED  BY <5>1, <2>4, <3>1
      <4>2. ASSUME NEW i \in (Committed + 1 + 1) .. LineLen', i = Committed + 2  PROVE Line'[i] = Line[i + 0 - 1]
        <5>1. i + 0 - 1 = Committed + 1
          BY <4>2, <1>1 DEF LineSized
        <5>2. QED  BY <5>1, <4>2, <3>2
      <4>3. QED  BY <4>1, <4>2, <1>1 DEF LineSized
    <3>4. LineSettles(1, 0, 2)
      <4>1. LineLen' = LineLen + 1 - 0 /\ Committed' = Committed + 2
        BY <2>4, <3>1, <1>1 DEF LineSized
      <4>2. Committed + 0 <= LineLen /\ Committed + 1 <= LineLen' /\ Committed < LineLen
        BY <2>4, <3>1, <1>1 DEF LineSized
      <4>3. cursor' = Flushed /\ cursor.latest # 0
        BY <2>1, <2>8
      <4>4. Line[Committed + 1].kind # "Cursor"
        BY <2>4, <2>8
      <4>5. (\A i \in 1 .. Committed : Line'[i] = Line[i]) /\ Line'[Committed + 1] = PointItem(cursor.latest)
        BY <2>4, <3>2
      <4>6. QED  BY <4>1, <4>2, <4>3, <4>4, <4>5, <3>3 DEF LineSettles
    <3>5. QED  BY <3>4
  <2>9. QED  BY <2>5, <2>6, <2>7, <2>8
<1>7. QED  BY <1>5, <1>6

\* What is on its way to the agent but the positions, in its order: nothing that was not there.
SameOrder ==
    /\ \A i \in 1 .. LineLen' : Line'[i].kind # "Cursor" => \E k \in 1 .. LineLen : Line[k] = Line'[i]
    /\ \A i, j \in 1 .. LineLen' : i < j /\ Line'[i].kind # "Cursor" /\ Line'[j].kind # "Cursor" =>
          \E k, l \in 1 .. LineLen : k < l /\ Line[k] = Line'[i] /\ Line[l] = Line'[j]
NothingLost ==
    \A k \in 1 .. LineLen : Line[k].kind # "Cursor" => \E i \in 1 .. LineLen' : Line'[i] = Line[k]

\* A line that is kept is in order.
LEMMA KeptInOrder == LineKept => SameOrder /\ NothingLost
BY DEF LineKept, SameOrder, NothingLost

\* A line without its first is in order.
LEMMA ServedInOrder ==
    ASSUME LineSized, LineSized', LineServed
    PROVE  SameOrder
<1>1. \A i \in 1 .. LineLen' : i + 1 \in 1 .. LineLen /\ Line'[i] = Line[i + 1]
  BY DEF LineServed, LineSized
<1>2. \A i, j \in 1 .. LineLen' : i < j => i + 1 < j + 1
  BY DEF LineSized
<1>3. QED  BY <1>1, <1>2 DEF SameOrder

\* A turn of the writer keeps everything but positions, in order.
LEMMA SettledInOrder ==
    ASSUME LineSized, LineSized', NEW added \in {0, 1}, NEW gone \in {0, 1}, NEW more \in 0 .. 2,
           LineSettles(added, gone, more)
    PROVE  SameOrder /\ NothingLost
<1>1. /\ LineLen \in Nat /\ Committed \in Nat /\ LineLen' \in Nat /\ Committed + gone <= LineLen
      /\ LineLen' = LineLen + added - gone /\ Committed + added <= LineLen'
  BY DEF LineSized, LineSettles
<1>2. ASSUME NEW i \in 1 .. LineLen', Line'[i].kind # "Cursor"
      PROVE  \/ i <= Committed /\ i \in 1 .. LineLen /\ Line[i] = Line'[i]
             \/ /\ ~(i <= Committed) /\ Committed + added < i /\ i + gone - added \in 1 .. LineLen
                /\ Committed < i + gone - added /\ Line[i + gone - added] = Line'[i]
  <2>1. CASE i <= Committed
    BY <2>1, <1>1 DEF LineSettles
  <2>2. CASE i = Committed + 1 /\ added = 1
    BY <2>2, <1>2 DEF LineSettles, PointItem
  <2>3. CASE ~(i <= Committed) /\ ~(i = Committed + 1 /\ added = 1)
    <3>1. i \in (Committed + added + 1) .. LineLen'
      BY <2>3, <1>1
    <3>2. Line'[i] = Line[i + gone - added]
      BY <3>1 DEF LineSettles
    <3>3. i + gone - added \in 1 .. LineLen /\ Committed < i + gone - added /\ Committed + added < i
      BY <3>1, <1>1
    <3>4. QED  BY <2>3, <3>2, <3>3
  <2>4. QED  BY <2>1, <2>2, <2>3
<1>3. ASSUME NEW i \in 1 .. LineLen', NEW j \in 1 .. LineLen', i < j,
             Line'[i].kind # "Cursor", Line'[j].kind # "Cursor"
      PROVE  \E k, l \in 1 .. LineLen : k < l /\ Line[k] = Line'[i] /\ Line[l] = Line'[j]
  <2>1. CASE i <= Committed /\ j <= Committed
    BY <2>1, <1>2, <1>3
  <2>2. CASE i <= Committed /\ ~(j <= Committed)
    <3>1. i < j + gone - added
      BY <2>2, <1>1, <1>2, <1>3
    <3>2. QED  BY <2>2, <3>1, <1>2, <1>3
  <2>3. CASE ~(i <= Committed) /\ ~(j <= Committed)
    <3>1. i + gone - added < j + gone - added
      BY <1>1, <1>3
    <3>2. QED  BY <2>3, <3>1, <1>2, <1>3
  <2>4. QED  BY <2>1, <2>2, <2>3, <1>3, <1>1
<1>4. ASSUME NEW k \in 1 .. LineLen, Line[k].kind # "Cursor"
      PROVE  \E i \in 1 .. LineLen' : Line'[i] = Line[k]
  <2>1. CASE k <= Committed
    <3>1. k \in 1 .. LineLen' /\ Line'[k] = Line[k]
      BY <2>1, <1>1 DEF LineSettles
    <3>2. QED  BY <3>1
  <2>2. CASE ~(k <= Committed)
    <3>1. ~(gone = 1 /\ k = Committed + 1)
      BY <1>4 DEF LineSettles
    <3>2. PICK i \in Int : i = k + added - gone
      BY <1>1
    <3>3. i \in (Committed + added + 1) .. LineLen' /\ i + gone - added = k
      BY <2>2, <3>1, <3>2, <1>1
    <3>4. Line'[i] = Line[k]
      <4>1. Line'[i] = Line[i + gone - added]
        BY <3>3 DEF LineSettles
      <4>2. QED  BY <4>1, <3>3
    <3>5. QED  BY <3>3, <3>4, <1>1
  <2>3. QED  BY <2>1, <2>2
<1>5. QED  BY <1>2, <1>3, <1>4 DEF SameOrder, NothingLost

--------------------------------------------------------------------------------
(* Which request meets which runtime.                                      *)

UnderWay == {"queued", "sent", "answered", "refused"}
Begun(c) == calls[c].kind = "Start"
BegunInVain(c) == Begun(c) /\ calls[c].at = "failed"
BackendMade(c) == Begun(c) /\ calls[c].at \in {"done", "dropped"}
\* Whatever was asked for up to a call has been served.
ServedUpTo(c) == \A i \in 1 .. LineLen : Line[i].call = 0 \/ c < Line[i].call
\* The runtime of a backend, or one that a Start has left which failed for its caller.
Excused(b, r) == r = b \/ \E s \in CallIds : BegunInVain(s) /\ b < s /\ r \in {0, s}

CallsFit ==
    /\ \A c \in CallIds : calls[c].kind = "none" <=> calls[c] = NoCall
    /\ \A c \in CallIds : calls[c].at = "new" <=> calls[c].kind = "none"
    /\ \A c \in CallIds : calls[c].kind \in {"Start", "Button"} /\ calls[c].at \in UnderWay => lifecycle = c
    /\ \A c \in CallIds : lifecycle # 0 /\ lifecycle < c => calls[c].kind \in {"none", "Health"}
    /\ \A c, d \in CallIds : d < c /\ calls[d].kind = "none" => calls[c].kind = "none"
    /\ \A c \in CallIds : calls[c].at = "dropped" => Begun(c)
    /\ \A c \in CallIds : calls[c].kind = "Button" => calls[c].of \in CallIds /\ BackendMade(calls[c].of)
LineFits ==
    /\ \A i \in 1 .. LineLen : Line[i].call # 0 => calls[Line[i].call].kind = Line[i].kind
    /\ \A i, j \in 1 .. LineLen : i < j /\ Line[i].call # 0 /\ Line[j].call # 0 => Line[i].call < Line[j].call
    /\ \A c \in CallIds : calls[c].at \in {"answered", "done", "dropped"} => ServedUpTo(c)
PipesFit ==
    /\ \A i \in DOMAIN requests : awaited[requests[i].id] \in {requests[i].item.call, Completed}
    /\ \A i \in DOMAIN responses : \A c \in CallIds :
          awaited[responses[i].id] = c => ServedUpTo(c) /\ calls[c].kind # "none"
StopsFit ==
    /\ lease # 0 => \A i \in 1 .. LineLen : Line[i].kind # "Stop"
    /\ lifecycle # 0 => \A i \in 1 .. LineLen : Line[i].kind = "Stop" =>
                          \E j \in 1 .. LineLen : i < j /\ Line[j].call = lifecycle
RuntimeFits ==
    /\ \A c \in CallIds : Begun(c) /\ calls[c].at = "answered" => runtime = c
    /\ \A i \in DOMAIN responses : \A c \in CallIds :
          awaited[responses[i].id] = c /\ responses[i].well /\ Begun(c) /\ calls[c].at = "sent" => runtime = c
LeaseFits ==
    lease # 0 =>
        /\ Begun(lease) /\ calls[lease].at = "done"
        /\ \A s \in CallIds : BackendMade(s) => s <= lease
        /\ runtime = lease \/ \E s \in CallIds : Begun(s) /\ lease < s /\ runtime \in {0, s}
ButtonsFit ==
    \A i \in 1 .. LineLen : Line[i].kind = "Button" =>
        /\ Excused(calls[Line[i].call].of, runtime)
        /\ \A j \in 1 .. LineLen : j < i => /\ Line[j].kind # "Stop"
                                            /\ Line[j].kind = "Start" => calls[Line[j].call].at = "failed"
ActedFits ==
    \A c \in CallIds : acted[c].at # 0 => calls[c].kind = "Button" /\ Excused(calls[c].of, acted[c].on)

OrderFits == CallsFit /\ LineFits /\ StopsFit /\ LeaseFits /\ ButtonsFit /\ ActedFits

\* Calls are only sent on and answered.
CallsGoOn ==
    \A c \in CallIds :
        /\ calls'[c].kind = calls[c].kind /\ calls'[c].of = calls[c].of /\ calls'[c].aim = calls[c].aim
        /\ \/ calls'[c] = calls[c]
           \/ /\ calls[c].at \in {"queued", "sent"} /\ calls'[c].at \in {"sent", "answered", "refused"}
              /\ calls'[c].at = "answered" => ServedUpTo(c)

\* The call of an item is one of the calls, and no position has one.
ItemsFit ==
    \A i \in 1 .. LineLen :
        /\ Line[i].kind \in CallKinds \cup {"Cursor", "Stop"}
        /\ Line[i].call # 0 => Line[i].call \in CallIds /\ Line[i].kind \in CallKinds
        /\ Line[i].kind \in CallKinds => Line[i].call # 0

\* A call is named by what was asked for, and by nothing else.
LEMMA ItemsOfCalls == AgentTypes => ItemsFit
<1> SUFFICES ASSUME AgentTypes PROVE ItemsFit
  OBVIOUS
<1>1. \A i \in 1 .. LineLen : Line[i] \in AgentItems /\ Fitting(Line[i])
  BY LineIsTyped DEF LineTyped
<1>2. QED  BY <1>1, AgentNumbers DEF ItemsFit, AgentItems, ItemKinds, Fitting

\* What has been served does not come back.
LEMMA ServedStaysServed ==
    ASSUME AgentTypes, AgentTypes', SameOrder, NEW c \in CallIds, ServedUpTo(c)
    PROVE  ServedUpTo(c)'
<1>1. \A i \in 1 .. LineLen' : Line'[i].call # 0 => Line'[i].kind # "Cursor"
  <2>1. ItemsFit'
    BY ItemsOfCalls, PTL
  <2>2. QED  BY <2>1 DEF ItemsFit, CallKinds
<1>2. QED  BY <1>1 DEF ServedUpTo, SameOrder

\* A step on which the backends, the runtime and what was done stay, and nothing is asked for.
LEMMA QuietlyFits ==
    ASSUME AgentTypes, AgentTypes', OrderFits, SameOrder, NothingLost \/ LineLen' = 0, CallsGoOn,
           UNCHANGED <<lifecycle, lease, runtime, acted>>
    PROVE  OrderFits'
<1>1. \A i \in 1 .. LineLen' : /\ Line'[i].call # 0 => Line'[i].call \in CallIds /\ Line'[i].kind \in CallKinds
                               /\ Line'[i].kind \in CallKinds => Line'[i].call # 0
  <2>1. ItemsFit'
    BY ItemsOfCalls, PTL
  <2>2. QED  BY <2>1 DEF ItemsFit
<1>2. \A c \in CallIds : /\ calls'[c].kind = calls[c].kind /\ calls'[c].of = calls[c].of
                         /\ \/ calls'[c].at = calls[c].at
                            \/ calls[c].at \in {"queued", "sent"} /\ calls'[c].at \in {"sent", "answered", "refused"}
  BY DEF CallsGoOn
<1>3. /\ \A c \in CallIds : Begun(c)' <=> Begun(c)
      /\ \A c \in CallIds : BackendMade(c)' <=> BackendMade(c)
      /\ \A c \in CallIds : BegunInVain(c)' <=> BegunInVain(c)
  BY <1>2 DEF Begun, BackendMade, BegunInVain
<1>4. CallsFit'
  <2>1. ASSUME NEW c \in CallIds  PROVE (calls[c].kind = "none" <=> calls[c] = NoCall)'
    BY DEF OrderFits, CallsFit, CallsGoOn, NoCall
  <2>2. ASSUME NEW c \in CallIds  PROVE (calls[c].at = "new" <=> calls[c].kind = "none")'
    BY <1>2 DEF OrderFits, CallsFit
  <2>3. ASSUME NEW c \in CallIds  PROVE (calls[c].kind \in {"Start", "Button"} /\ calls[c].at \in UnderWay => lifecycle = c)'
    BY <1>2 DEF OrderFits, CallsFit, UnderWay
  <2>4. ASSUME NEW c \in CallIds  PROVE (calls[c].at = "dropped" => Begun(c))'
    BY <1>2, <1>3 DEF OrderFits, CallsFit
  <2>5. ASSUME NEW c \in CallIds  PROVE (calls[c].kind = "Button" => calls[c].of \in CallIds /\ BackendMade(calls[c].of))'
    BY <1>2, <1>3 DEF OrderFits, CallsFit
  <2>6. QED  BY <1>2, <2>1, <2>2, <2>3, <2>4, <2>5 DEF OrderFits, CallsFit
<1>5. LineFits'
  <2>1. ASSUME NEW i \in 1 .. LineLen', Line'[i].call # 0  PROVE calls'[Line'[i].call].kind = Line'[i].kind
    <3>1. Line'[i].kind # "Cursor" /\ Line'[i].call \in CallIds
      BY <1>1, <2>1 DEF CallKinds
    <3>2. PICK k \in 1 .. LineLen : Line[k] = Line'[i]
      BY <3>1 DEF SameOrder
    <3>3. QED  BY <2>1, <3>1, <3>2, <1>2 DEF OrderFits, LineFits
  <2>2. ASSUME NEW i \in 1 .. LineLen', NEW j \in 1 .. LineLen', i < j, Line'[i].call # 0, Line'[j].call # 0
        PROVE  Line'[i].call < Line'[j].call
    <3>1. Line'[i].kind # "Cursor" /\ Line'[j].kind # "Cursor"
      BY <1>1, <2>2 DEF CallKinds
    <3>2. PICK k, l \in 1 .. LineLen : k < l /\ Line[k] = Line'[i] /\ Line[l] = Line'[j]
      BY <2>2, <3>1 DEF SameOrder
    <3>3. QED  BY <2>2, <3>2 DEF OrderFits, LineFits
  <2>3. ASSUME NEW c \in CallIds, calls'[c].at \in {"answered", "done", "dropped"}  PROVE ServedUpTo(c)'
    <3>1. ServedUpTo(c)
      BY <2>3, <1>2 DEF OrderFits, LineFits, CallsGoOn
    <3>2. QED  BY <3>1, ServedStaysServed
  <2>4. QED  BY <2>1, <2>2, <2>3 DEF LineFits
<1>6. StopsFit'
  <2>1. ASSUME NEW i \in 1 .. LineLen', lease' # 0  PROVE Line'[i].kind # "Stop"
    BY <2>1 DEF OrderFits, StopsFit, SameOrder
  <2>2. ASSUME lifecycle' # 0, NEW i \in 1 .. LineLen', Line'[i].kind = "Stop"
        PROVE  \E j \in 1 .. LineLen' : i < j /\ Line'[j].call = lifecycle'
    <3>1. lifecycle' = lifecycle /\ LineLen' # 0 /\ NothingLost
      BY <2>2
    <3>2. PICK k \in 1 .. LineLen : Line[k] = Line'[i]
      BY <2>2 DEF SameOrder
    <3>3. PICK l \in 1 .. LineLen : k < l /\ Line[l].call = lifecycle
      BY <2>2, <3>1, <3>2 DEF OrderFits, StopsFit
    <3>4. Line[l].kind \in CallKinds
      BY <2>2, <3>1, <3>3, ItemsOfCalls DEF ItemsFit
    <3>5. PICK j \in 1 .. LineLen' : Line'[j] = Line[l]
      BY <3>1, <3>4 DEF NothingLost, CallKinds
    <3>6. ~(j < i)
      <4>1. SUFFICES ASSUME j < i  PROVE FALSE
        OBVIOUS
      <4>2. Line'[j].kind # "Cursor" /\ Line'[i].kind # "Cursor"
        BY <2>2, <3>4, <3>5 DEF CallKinds
      <4>3. PICK m, n \in 1 .. LineLen : m < n /\ Line[m] = Line'[j] /\ Line[n] = Line'[i]
        BY <4>1, <4>2 DEF SameOrder
      <4>4. PICK o \in 1 .. LineLen : n < o /\ Line[o].call = lifecycle
        BY <4>3, <2>2, <3>1 DEF OrderFits, StopsFit
      <4>5. m < o /\ Line[m].call = lifecycle /\ lifecycle # 0
        <5>1. m \in Int /\ n \in Int /\ o \in Int
          BY LineIsSized DEF LineSized
        <5>2. QED  BY <5>1, <4>3, <4>4, <3>3, <3>5, <2>2, <3>1
      <4>6. Line[m].call < Line[o].call
        BY <4>4, <4>5 DEF OrderFits, LineFits
      <4>7. lifecycle < lifecycle /\ lifecycle \in Nat
        BY <4>4, <4>5, <4>6, AgentNumbers DEF AgentTypes
      <4>8. QED  BY <4>7
    <3>7. i # j
      BY <2>2, <3>4, <3>5 DEF CallKinds
    <3>8. i < j
      <4>1. i \in Int /\ j \in Int
        <5>1. LineSized'
          BY LineIsSized, PTL
        <5>2. QED  BY <5>1 DEF LineSized
      <4>2. QED  BY <4>1, <3>6, <3>7
    <3>9. QED  BY <3>1, <3>3, <3>5, <3>8
  <2>3. QED  BY <2>1, <2>2 DEF StopsFit
<1>7. LeaseFits'
  <2>1. lease' = lease /\ runtime' = runtime /\ lease \in CallNumbers
    BY DEF AgentTypes
  <2>2. ASSUME lease # 0  PROVE Begun(lease)' /\ calls'[lease].at = "done"
    <3>1. lease \in CallIds /\ Begun(lease) /\ calls[lease].at = "done"
      BY <2>1, <2>2, AgentNumbers DEF OrderFits, LeaseFits
    <3>2. QED  BY <3>1, <1>2, <1>3
  <2>3. QED  BY <2>1, <2>2, <1>3 DEF OrderFits, LeaseFits
<1>8. \A b, r : Excused(b, r)' <=> Excused(b, r)
  BY <1>3 DEF Excused
<1>9. ButtonsFit'
  <2>1. ASSUME NEW i \in 1 .. LineLen', Line'[i].kind = "Button"
        PROVE  /\ Excused(calls[Line[i].call].of, runtime)'
               /\ \A j \in 1 .. LineLen' : j < i => /\ Line'[j].kind # "Stop"
                                                    /\ Line'[j].kind = "Start" => calls'[Line'[j].call].at = "failed"
    <3>1. Line'[i].call \in CallIds /\ runtime' = runtime
      BY <1>1, <2>1 DEF CallKinds
    <3>2. Excused(calls[Line[i].call].of, runtime)'
      <4>1. PICK k \in 1 .. LineLen : Line[k] = Line'[i]
        BY <2>1 DEF SameOrder
      <4>2. Excused(calls[Line'[i].call].of, runtime)
        BY <2>1, <4>1 DEF OrderFits, ButtonsFit
      <4>3. calls'[Line'[i].call].of = calls[Line'[i].call].of
        BY <3>1, <1>2
      <4>4. Excused(calls'[Line'[i].call].of, runtime')
        BY <4>2, <4>3, <3>1
      <4>5. QED  BY <4>4, <1>3, <3>1 DEF Excused
    <3>3. ASSUME NEW j \in 1 .. LineLen', j < i
          PROVE  Line'[j].kind # "Stop" /\ (Line'[j].kind = "Start" => calls'[Line'[j].call].at = "failed")
      <4>1. SUFFICES ASSUME Line'[j].kind \in {"Stop", "Start"}
                     PROVE  Line'[j].kind # "Stop" /\ (Line'[j].kind = "Start" => calls'[Line'[j].call].at = "failed")
        OBVIOUS
      <4>2. Line'[j].kind # "Cursor" /\ Line'[i].kind # "Cursor"
        BY <4>1, <2>1
      <4>3. PICK k, l \in 1 .. LineLen : k < l /\ Line[k] = Line'[j] /\ Line[l] = Line'[i]
        BY <3>3, <4>2 DEF SameOrder
      <4>4. Line'[j].kind # "Stop" /\ (Line'[j].kind = "Start" => calls[Line'[j].call].at = "failed")
        BY <2>1, <4>3 DEF OrderFits, ButtonsFit
      <4>5. Line'[j].kind = "Start" => Line'[j].call \in CallIds
        BY <1>1 DEF CallKinds
      <4>6. QED  BY <4>4, <4>5, <1>2
    <3>4. QED  BY <3>2, <3>3
  <2>2. QED  BY <2>1 DEF ButtonsFit
<1>10. ActedFits'
  <2>1. ASSUME NEW c \in CallIds, acted'[c].at # 0  PROVE (calls[c].kind = "Button" /\ Excused(calls[c].of, acted[c].on))'
    <3>1. calls[c].kind = "Button" /\ Excused(calls[c].of, acted[c].on)
      BY <2>1 DEF OrderFits, ActedFits
    <3>2. Excused(calls'[c].of, acted'[c].on)
      BY <3>1, <1>2
    <3>3. QED  BY <3>1, <3>2, <1>2, <1>3 DEF Excused
  <2>2. QED  BY <2>1 DEF ActedFits
<1>11. QED  BY <1>4, <1>5, <1>6, <1>7, <1>9, <1>10 DEF OrderFits

AgentOrder == OrderFits /\ PipesFit /\ RuntimeFits

\* The writer takes from the queue.
LEMMA WriterTakesInOrder ==
    ASSUME AgentTypes, AgentTypes', AgentOrder, Take \/ Tick
    PROVE  AgentOrder'
<1>1. SameOrder /\ NothingLost
  <2>1. LineSized /\ LineSized'
    BY LineIsSized, PTL
  <2>2. PICK added \in {0, 1}, gone \in {0, 1}, more \in 0 .. 2 : LineSettles(added, gone, more)
    BY LineIsTaken
  <2>3. QED  BY <2>1, <2>2, SettledInOrder
<1>2. UNCHANGED <<calls, lifecycle, lease, awaited, requests, responses, agentState>>
  BY DEF Take, Tick
<1>3. OrderFits'
  BY <1>1, <1>2, QuietlyFits DEF AgentOrder, CallsGoOn, agentState
<1>4. PipesFit'
  <2>1. \A c \in CallIds : ServedUpTo(c) => ServedUpTo(c)'
    BY <1>1, ServedStaysServed
  <2>2. QED  BY <1>2, <2>1 DEF AgentOrder, PipesFit
<1>5. RuntimeFits'
  BY <1>2 DEF AgentOrder, RuntimeFits, Begun, agentState
<1>6. QED  BY <1>3, <1>4, <1>5 DEF AgentOrder

\* The writer writes to the pipe, and its caller waits.
LEMMA WriterWritesInOrder ==
    ASSUME AgentTypes, Numbered, AgentTypes', AgentOrder, Write
    PROVE  AgentOrder'
<1> DEFINE item == Head(writing.rest)
           waits == item.call # 0 /\ calls[item.call].at = "queued"
<1>1. SameOrder /\ NothingLost
  BY LineWrites, KeptInOrder
<1>2. Piped + 1 \in 1 .. LineLen /\ item = Line[Piped + 1]
  BY LineWrites
<1>3. /\ UNCHANGED <<clientUp, lifecycle, lease, items, cursor, responses, agentState>>
      /\ awaited' = Append(awaited, item.call)
      /\ requests' = Append(requests, [id |-> writing.id + 1, item |-> item])
      /\ calls' = IF waits THEN [calls EXCEPT ![item.call].at = "sent"] ELSE calls
  BY DEF Write
<1>4. /\ awaited \in Seq(AwaitedNumbers) /\ requests \in Seq(AgentRequests) /\ writing.rest \in Seq(SentItems)
      /\ responses \in Seq(AgentResponses) /\ writing.id = Len(awaited) /\ writing.rest # <<>> /\ writing.id \in Nat
  BY DEF AgentTypes, Numbered, Write, WriterStates
<1>5. item \in SentItems /\ item.call \in CallNumbers /\ (item.call # 0 => item.call \in CallIds)
  <2>1. item \in SentItems
    BY <1>4, HeadTailProperties
  <2>2. QED  BY <2>1, AgentNumbers DEF SentItems, AgentItems
<1> HIDE DEF item
<1>6. ASSUME NEW c \in CallIds
      PROVE  /\ calls'[c].kind = calls[c].kind /\ calls'[c].of = calls[c].of /\ calls'[c].aim = calls[c].aim
             /\ \/ calls'[c] = calls[c]
                \/ calls[c].at = "queued" /\ calls'[c].at = "sent" /\ item.call = c
  <2>1. CASE waits
    <3>1. item.call \in CallIds /\ calls' = [calls EXCEPT ![item.call].at = "sent"] /\ calls \in [CallIds -> CallRecords]
      BY <2>1, <1>3, <1>5 DEF AgentTypes
    <3>2. calls[c] \in CallRecords
      BY <3>1
    <3>3. CASE c = item.call
      BY <3>1, <3>2, <3>3, <2>1 DEF CallRecords
    <3>4. CASE c # item.call
      BY <3>1, <3>4
    <3>5. QED  BY <3>3, <3>4
  <2>2. CASE ~waits
    BY <2>2, <1>3
  <2>3. QED  BY <2>1, <2>2
<1>7. OrderFits'
  <2>1. CallsGoOn
    BY <1>6 DEF CallsGoOn
  <2>2. UNCHANGED <<lifecycle, lease, runtime, acted>>
    BY <1>3 DEF agentState
  <2>3. QED  BY <1>1, <2>1, <2>2, QuietlyFits DEF AgentOrder
<1>8. /\ DOMAIN awaited = 1 .. Len(awaited) /\ Len(awaited) \in Nat
      /\ \A n \in DOMAIN awaited : awaited'[n] = awaited[n]
      /\ awaited'[Len(awaited) + 1] = item.call
  BY <1>3, <1>4, <1>5, AgentNumbers, AppendProperties, LenProperties
<1>9. \A i \in DOMAIN responses : responses[i].id \in DOMAIN awaited
  BY DEF Numbered
<1>10. PipesFit'
  <2>1. [id |-> writing.id + 1, item |-> item] \in AgentRequests
    BY <1>4, <1>5 DEF AgentRequests
  <2>2. /\ DOMAIN requests = 1 .. Len(requests) /\ Len(requests) \in Nat
        /\ DOMAIN requests' = 1 .. Len(requests) + 1
        /\ \A i \in 1 .. Len(requests) : requests'[i] = requests[i]
        /\ requests'[Len(requests) + 1] = [id |-> writing.id + 1, item |-> item]
    BY <2>1, <1>3, <1>4, AppendProperties, LenProperties
  <2>3. ASSUME NEW i \in 1 .. Len(requests)
        PROVE  awaited'[requests'[i].id] \in {requests'[i].item.call, Completed}
    <3>1. requests[i].id \in DOMAIN awaited /\ awaited[requests[i].id] \in {requests[i].item.call, Completed}
      BY <2>2 DEF Numbered, AgentOrder, PipesFit
    <3>2. QED  BY <3>1, <2>2, <1>8
  <2>4. awaited'[requests'[Len(requests) + 1].id] = requests'[Len(requests) + 1].item.call
    <3>1. [id |-> writing.id + 1, item |-> item].id = Len(awaited) + 1 /\ [id |-> writing.id + 1, item |-> item].item = item
      BY <1>4
    <3>2. requests'[Len(requests) + 1].id = Len(awaited) + 1 /\ requests'[Len(requests) + 1].item = item
      BY <3>1, <2>2
    <3>3. QED  BY <3>2, <1>8
  <2>5. \A i \in DOMAIN requests' : awaited'[requests'[i].id] \in {requests'[i].item.call, Completed}
    <3>1. \A i \in DOMAIN requests' : i \in 1 .. Len(requests) \/ i = Len(requests) + 1
      BY <2>2
    <3>2. QED  BY <3>1, <2>3, <2>4
  <2>6. ASSUME NEW i \in DOMAIN responses', NEW c \in CallIds, awaited'[responses'[i].id] = c
        PROVE  ServedUpTo(c)' /\ calls'[c].kind # "none"
    <3>1. awaited[responses[i].id] = c /\ i \in DOMAIN responses
      BY <2>6, <1>3, <1>8, <1>9
    <3>2. ServedUpTo(c) /\ calls[c].kind # "none"
      BY <3>1 DEF AgentOrder, PipesFit
    <3>3. QED  BY <3>2, <1>1, <1>6, ServedStaysServed
  <2>7. QED  BY <2>5, <2>6 DEF PipesFit, Completed
<1>11. RuntimeFits'
  <2>1. ASSUME NEW c \in CallIds, Begun(c)', calls'[c].at = "answered"  PROVE runtime' = c
    <3>1. calls'[c] = calls[c]
      BY <1>6, <2>1
    <3>2. QED  BY <3>1, <2>1, <1>3 DEF AgentOrder, RuntimeFits, Begun, agentState
  <2>2. ASSUME NEW i \in DOMAIN responses', NEW c \in CallIds,
               awaited'[responses'[i].id] = c, responses'[i].well, Begun(c)', calls'[c].at = "sent"
        PROVE  runtime' = c
    <3>1. i \in DOMAIN responses /\ awaited[responses[i].id] = c /\ responses[i].well /\ Begun(c)
      BY <2>2, <1>3, <1>6, <1>8, <1>9 DEF Begun
    <3>2. ServedUpTo(c)
      BY <3>1 DEF AgentOrder, PipesFit
    <3>3. item.call # c
      <4>1. item.call = 0 \/ c < item.call
        BY <3>2, <1>2 DEF ServedUpTo
      <4>2. c \in Nat /\ c # 0
        BY AgentNumbers
      <4>3. QED  BY <4>1, <4>2
    <3>4. calls[c].at = "sent"
      BY <3>3, <1>6, <2>2
    <3>5. QED  BY <3>1, <3>4, <1>3 DEF AgentOrder, RuntimeFits, agentState
  <2>3. QED  BY <2>1, <2>2 DEF RuntimeFits
<1>12. QED  BY <1>7, <1>10, <1>11 DEF AgentOrder

\* The writer waits no longer; a late answer finds nobody.
LEMMA WaitEndsInOrder ==
    ASSUME AgentTypes, Numbered, AgentTypes', AgentOrder, StopWaiting
    PROVE  AgentOrder'
<1>1. /\ writing.at = "waits" /\ awaited' = [awaited EXCEPT ![writing.id] = Completed]
      /\ calls' = Tell(awaited[writing.id], "refused")
      /\ writing'.rest = writing.rest
      /\ UNCHANGED <<clientUp, lifecycle, lease, items, cursor, requests, responses, agentState>>
  BY DEF StopWaiting, TooLate, Complete, AgentTypes, WriterStates
<1>2. writing.id \in DOMAIN awaited
  BY <1>1 DEF Numbered
<1>3. \A n \in DOMAIN awaited : awaited'[n] = IF n = writing.id THEN Completed ELSE awaited[n]
  BY <1>1, <1>2, AwaitedTypes
<1>4. ASSUME NEW c \in CallIds
      PROVE  /\ calls'[c].kind = calls[c].kind /\ calls'[c].of = calls[c].of /\ calls'[c].aim = calls[c].aim
             /\ calls'[c] = calls[c] \/ (calls[c].at = "sent" /\ calls'[c].at = "refused")
  <2>1. /\ calls'[c].kind = calls[c].kind /\ calls'[c].of = calls[c].of /\ calls'[c].aim = calls[c].aim
        /\ calls'[c].at = IF awaited[writing.id] = c /\ calls[c].at = "sent" THEN "refused" ELSE calls[c].at
        /\ calls' \in [CallIds -> CallRecords]
    BY <1>1, <1>2, TellTypes
  <2>2. calls[c] \in CallRecords /\ calls'[c] \in CallRecords
    BY <2>1 DEF AgentTypes
  <2>3. QED  BY <2>1, <2>2 DEF CallRecords
<1>5. SameOrder /\ NothingLost
  <2>1. UNCHANGED <<requests, items>>
    BY <1>1
  <2>2. QED  BY <1>1, <2>1, LineStays, KeptInOrder
<1>6. OrderFits'
  <2>1. CallsGoOn
    BY <1>4 DEF CallsGoOn
  <2>2. QED  BY <1>1, <1>5, <2>1, QuietlyFits DEF AgentOrder, agentState
<1>7. \A c \in CallIds : ServedUpTo(c) => ServedUpTo(c)'
  BY <1>5, ServedStaysServed
<1>8. Completed \notin CallIds /\ (\A i \in DOMAIN requests : requests[i].id \in DOMAIN awaited)
      /\ \A i \in DOMAIN responses : responses[i].id \in DOMAIN awaited
  BY AgentNumbers DEF Numbered
<1>9. PipesFit'
  <2>1. \A i \in DOMAIN requests' : awaited'[requests'[i].id] \in {requests'[i].item.call, Completed'}
    BY <1>1, <1>3, <1>8 DEF AgentOrder, PipesFit, Completed
  <2>2. ASSUME NEW i \in DOMAIN responses', NEW c \in CallIds, awaited'[responses'[i].id] = c
        PROVE  ServedUpTo(c)' /\ calls'[c].kind # "none"
    <3>1. i \in DOMAIN responses /\ awaited[responses[i].id] = c
      BY <2>2, <1>1, <1>3, <1>8
    <3>2. QED  BY <3>1, <1>4, <1>7 DEF AgentOrder, PipesFit
  <2>3. QED  BY <2>1, <2>2 DEF PipesFit
<1>10. RuntimeFits'
  <2>1. ASSUME NEW c \in CallIds, Begun(c)', calls'[c].at = "answered"  PROVE runtime' = c
    <3>1. calls'[c] = calls[c]
      BY <1>4, <2>1
    <3>2. QED  BY <3>1, <2>1, <1>1 DEF AgentOrder, RuntimeFits, Begun, agentState
  <2>2. ASSUME NEW i \in DOMAIN responses', NEW c \in CallIds,
               awaited'[responses'[i].id] = c, responses'[i].well, Begun(c)', calls'[c].at = "sent"
        PROVE  runtime' = c
    <3>1. i \in DOMAIN responses /\ awaited[responses[i].id] = c /\ responses[i].well
      BY <2>2, <1>1, <1>3, <1>8
    <3>2. calls'[c] = calls[c]
      BY <1>4, <2>2
    <3>3. QED  BY <3>1, <3>2, <2>2, <1>1 DEF AgentOrder, RuntimeFits, Begun, agentState
  <2>3. QED  BY <2>1, <2>2 DEF RuntimeFits
<1>11. QED  BY <1>6, <1>9, <1>10 DEF AgentOrder

\* The writer goes, and all that is on its way with it.
LEMMA GoneInOrder ==
    ASSUME AgentTypes, AgentTypes', AgentOrder, WriterLeaves \/ TransportFails
    PROVE  AgentOrder' /\ LineLen' = 0
<1>1. WriterGone /\ UNCHANGED <<lifecycle, lease, agentState>>
  BY DEF WriterLeaves, TransportFails
<1>2. LineLen' = 0 /\ requests' = <<>> /\ responses' = <<>>
  <2>1. writing' = [writing EXCEPT !.at = "gone", !.rest = <<>>] /\ items' = <<>> /\ requests' = <<>> /\ responses' = <<>>
    BY <1>1 DEF WriterGone
  <2>2. writing'.rest = <<>>
    BY <2>1 DEF AgentTypes, WriterStates
  <2>3. Piped' = 0 /\ Prepared' = 0 /\ Queued' = 0
    BY <2>1, <2>2 DEF Piped, Prepared, Queued
  <2>4. QED  BY <2>1, <2>3 DEF LineLen, Committed
<1>3. SameOrder
  BY <1>2 DEF SameOrder
<1>4. CallsGoOn
  <2>1. CASE WriterLeaves
    BY <2>1 DEF WriterLeaves, CallsGoOn
  <2>2. CASE TransportFails
    <3>1. calls' = [c \in CallIds |-> IF calls[c].at = "sent" THEN [calls[c] EXCEPT !.at = "refused"] ELSE calls[c]]
      BY <2>2 DEF TransportFails
    <3>2. ASSUME NEW c \in CallIds
          PROVE  /\ calls'[c].kind = calls[c].kind /\ calls'[c].of = calls[c].of /\ calls'[c].aim = calls[c].aim
                 /\ calls'[c] = calls[c] \/ (calls[c].at = "sent" /\ calls'[c].at = "refused")
      <4>1. calls[c] \in CallRecords
        BY DEF AgentTypes
      <4>2. QED  BY <3>1, <4>1 DEF CallRecords
    <3>3. QED  BY <3>2 DEF CallsGoOn
  <2>3. QED  BY <2>1, <2>2
<1>5. OrderFits'
  BY <1>1, <1>2, <1>3, <1>4, QuietlyFits DEF AgentOrder, agentState
<1>6. PipesFit'
  BY <1>2 DEF PipesFit
<1>7. RuntimeFits'
  <2>1. ASSUME NEW c \in CallIds, Begun(c)', calls'[c].at = "answered"  PROVE runtime' = c
    <3>1. calls'[c] = calls[c]
      <4>1. CASE WriterLeaves
        BY <4>1 DEF WriterLeaves
      <4>2. CASE TransportFails
        <5>1. calls'[c] = IF calls[c].at = "sent" THEN [calls[c] EXCEPT !.at = "refused"] ELSE calls[c]
          BY <4>2 DEF TransportFails
        <5>2. calls[c] \in CallRecords
          BY DEF AgentTypes
        <5>3. QED  BY <5>1, <5>2, <2>1 DEF CallRecords
      <4>3. QED  BY <4>1, <4>2
    <3>2. QED  BY <3>1, <2>1, <1>1 DEF AgentOrder, RuntimeFits, Begun, agentState
  <2>2. QED  BY <2>1, <1>2 DEF RuntimeFits
<1>8. QED  BY <1>2, <1>5, <1>6, <1>7 DEF AgentOrder

\* The event thread hands a response to the call of its number.
LEMMA ReadsInOrder ==
    ASSUME AgentTypes, Numbered, AgentTypes', AgentOrder, Read
    PROVE  AgentOrder'
<1> DEFINE r == Head(responses)
<1>1. /\ responses # <<>> /\ responses' = Tail(responses)
      /\ \/ UNCHANGED <<awaited, calls, writing>>
         \/ /\ awaited' = [awaited EXCEPT ![r.id] = Completed]
            /\ calls' = Tell(awaited[r.id], IF r.well THEN "answered" ELSE "refused")
            /\ writing' = IF r.id = writing.id THEN [writing EXCEPT !.at = "idle"] ELSE writing
      /\ UNCHANGED <<clientUp, lifecycle, lease, items, cursor, requests, agentState>>
  BY DEF Read, Complete
<1>2. responses \in Seq(AgentResponses) /\ writing \in WriterStates
  BY DEF AgentTypes
<1>3. /\ r = responses[1] /\ r \in AgentResponses /\ Len(responses) \in Nat /\ Len(responses) # 0
      /\ DOMAIN responses = 1 .. Len(responses) /\ DOMAIN responses' = 1 .. Len(responses) - 1
      /\ \A i \in 1 .. Len(responses) - 1 : responses'[i] = responses[i + 1]
  <2>1. /\ r = responses[1] /\ r \in AgentResponses /\ Len(responses') = Len(responses) - 1
        /\ responses' \in Seq(AgentResponses) /\ \A i \in 1 .. Len(responses') : responses'[i] = responses[i + 1]
    BY <1>1, <1>2, HeadTailProperties
  <2>2. QED  BY <2>1, <1>1, <1>2, LenProperties, EmptySeq
<1>4. 1 \in DOMAIN responses /\ \A i \in DOMAIN responses' : i + 1 \in DOMAIN responses /\ responses'[i] = responses[i + 1]
  BY <1>3
<1>5. r.id \in DOMAIN awaited /\ (\A i \in DOMAIN requests : requests[i].id \in DOMAIN awaited)
      /\ \A i \in DOMAIN responses : responses[i].id \in DOMAIN awaited
  BY <1>3, <1>4 DEF Numbered
<1>6. \A c \in CallIds : awaited[r.id] = c => ServedUpTo(c)
  BY <1>3, <1>4 DEF AgentOrder, PipesFit
<1>7. \A c \in CallIds : awaited[r.id] = c /\ r.well /\ Begun(c) /\ calls[c].at = "sent" => runtime = c
  BY <1>3, <1>4 DEF AgentOrder, RuntimeFits
<1> HIDE DEF r
<1>8. ASSUME NEW n \in DOMAIN awaited
      PROVE  awaited'[n] = awaited[n] \/ awaited'[n] = Completed
  BY <1>1, <1>5, AwaitedTypes
<1>9. ASSUME NEW c \in CallIds
      PROVE  /\ calls'[c].kind = calls[c].kind /\ calls'[c].of = calls[c].of /\ calls'[c].aim = calls[c].aim
             /\ \/ calls'[c] = calls[c]
                \/ /\ calls[c].at = "sent" /\ calls'[c].at \in {"answered", "refused"} /\ awaited[r.id] = c
                   /\ calls'[c].at = "answered" => r.well
  <2>1. CASE UNCHANGED calls
    BY <2>1
  <2>2. CASE calls' = Tell(awaited[r.id], IF r.well THEN "answered" ELSE "refused")
    <3>1. PICK how \in {"answered", "refused"} : /\ calls' = Tell(awaited[r.id], how)
                                                 /\ how = "answered" => r.well
      BY <2>2
    <3>2. /\ calls'[c].kind = calls[c].kind /\ calls'[c].of = calls[c].of /\ calls'[c].aim = calls[c].aim
          /\ calls'[c].at = IF awaited[r.id] = c /\ calls[c].at = "sent" THEN how ELSE calls[c].at
          /\ calls' \in [CallIds -> CallRecords]
      BY <3>1, <1>5, TellTypes
    <3>3. calls[c] \in CallRecords /\ calls'[c] \in CallRecords
      BY <3>2 DEF AgentTypes
    <3>4. CASE awaited[r.id] = c /\ calls[c].at = "sent"
      BY <3>1, <3>2, <3>4
    <3>5. CASE ~(awaited[r.id] = c /\ calls[c].at = "sent")
      BY <3>2, <3>3, <3>5 DEF CallRecords
    <3>6. QED  BY <3>4, <3>5
  <2>3. QED  BY <1>1, <2>1, <2>2
<1>10. SameOrder /\ NothingLost
  <2>1. UNCHANGED <<requests, items>> /\ writing'.rest = writing.rest
    BY <1>1, <1>2 DEF WriterStates
  <2>2. QED  BY <2>1, LineStays, KeptInOrder
<1>11. OrderFits'
  <2>1. CallsGoOn
    BY <1>9, <1>6 DEF CallsGoOn
  <2>2. QED  BY <1>1, <1>10, <2>1, QuietlyFits DEF AgentOrder, agentState
<1>12. \A c \in CallIds : ServedUpTo(c) => ServedUpTo(c)'
  BY <1>10, ServedStaysServed
<1>13. Completed \notin CallIds
  BY AgentNumbers
<1>14. PipesFit'
  <2>1. \A i \in DOMAIN requests' : awaited'[requests'[i].id] \in {requests'[i].item.call, Completed'}
    BY <1>1, <1>5, <1>8 DEF AgentOrder, PipesFit, Completed
  <2>2. ASSUME NEW i \in DOMAIN responses', NEW c \in CallIds, awaited'[responses'[i].id] = c
        PROVE  ServedUpTo(c)' /\ calls'[c].kind # "none"
    <3>1. PICK k \in DOMAIN responses : responses'[i] = responses[k]
      BY <1>4
    <3>2. awaited[responses[k].id] = c
      BY <2>2, <3>1, <1>5, <1>8, <1>13
    <3>3. QED  BY <3>2, <1>9, <1>12 DEF AgentOrder, PipesFit
  <2>3. QED  BY <2>1, <2>2 DEF PipesFit
<1>15. RuntimeFits'
  <2>1. ASSUME NEW c \in CallIds, Begun(c)', calls'[c].at = "answered"  PROVE runtime' = c
    <3>1. CASE calls'[c] = calls[c]
      BY <3>1, <2>1, <1>1 DEF AgentOrder, RuntimeFits, Begun, agentState
    <3>2. CASE calls[c].at = "sent" /\ awaited[r.id] = c /\ r.well
      BY <3>2, <2>1, <1>1, <1>7, <1>9 DEF Begun, agentState
    <3>3. QED  BY <3>1, <3>2, <1>9, <2>1
  <2>2. ASSUME NEW i \in DOMAIN responses', NEW c \in CallIds,
               awaited'[responses'[i].id] = c, responses'[i].well, Begun(c)', calls'[c].at = "sent"
        PROVE  runtime' = c
    <3>1. PICK k \in DOMAIN responses : responses'[i] = responses[k]
      BY <1>4
    <3>2. awaited[responses[k].id] = c
      BY <2>2, <3>1, <1>5, <1>8, <1>13
    <3>3. calls'[c] = calls[c]
      BY <1>9, <2>2
    <3>4. QED  BY <3>1, <3>2, <3>3, <2>2, <1>1 DEF AgentOrder, RuntimeFits, Begun, agentState
  <2>3. QED  BY <2>1, <2>2 DEF RuntimeFits
<1>16. QED  BY <1>11, <1>14, <1>15 DEF AgentOrder

\* A position that is announced changes no order.
LEMMA GrowsInOrder ==
    ASSUME LineSized, LineSized', NEW item, LineGrows(item), item.kind = "Cursor"
    PROVE  SameOrder /\ NothingLost
<1>1. \A i \in 1 .. LineLen' : Line'[i].kind # "Cursor" => i \in 1 .. LineLen /\ Line'[i] = Line[i]
  BY DEF LineGrows, LineSized
<1>2. \A k \in 1 .. LineLen : k \in 1 .. LineLen' /\ Line'[k] = Line[k]
  BY DEF LineGrows, LineSized
<1>3. QED  BY <1>1, <1>2 DEF SameOrder, NothingLost

\* What joins the queue, if it does.
LEMMA QueueGrows ==
    ASSUME AgentTypes, AgentTypes', NEW item \in QueuedItems, UNCHANGED <<requests, writing>>,
           items' = Append(items, item)
    PROVE  LineGrows(item)
<1>1. items \in Seq(QueuedItems)
  BY DEF AgentTypes
<1>2. /\ Len(items') = Len(items) + 1 /\ items'[Len(items) + 1] = item
      /\ \A i \in 1 .. Len(items) : items'[i] = items[i]
  BY <1>1, AppendProperties
<1>3. QED  BY <1>2, LineQueues

\* A position is announced.
LEMMA MovesInOrder ==
    ASSUME AgentTypes, AgentTypes', AgentOrder, Move
    PROVE  AgentOrder'
<1>1. /\ items' = items \/ items' = Append(items, CursorItem)
      /\ UNCHANGED <<clientUp, calls, lifecycle, lease, writing, awaited, requests, responses, agentState>>
  BY DEF Move
<1>2. SameOrder /\ NothingLost
  <2>1. LineSized /\ LineSized'
    BY LineIsSized, PTL
  <2>2. CASE items' = items
    BY <2>2, <1>1, LineStays, KeptInOrder
  <2>3. CASE items' = Append(items, CursorItem)
    <3>1. LineGrows(CursorItem)
      BY <2>3, <1>1, QueueGrows, AgentItemTypes
    <3>2. CursorItem.kind = "Cursor"
      BY DEF CursorItem
    <3>3. QED  BY <2>1, <3>1, <3>2, GrowsInOrder
  <2>4. QED  BY <1>1, <2>2, <2>3
<1>3. OrderFits'
  BY <1>1, <1>2, QuietlyFits DEF AgentOrder, CallsGoOn, agentState
<1>4. \A c \in CallIds : ServedUpTo(c) => ServedUpTo(c)'
  BY <1>2, ServedStaysServed
<1>5. PipesFit'
  BY <1>1, <1>4 DEF AgentOrder, PipesFit
<1>6. RuntimeFits'
  BY <1>1 DEF AgentOrder, RuntimeFits, Begun, agentState
<1>7. QED  BY <1>3, <1>5, <1>6 DEF AgentOrder

\* A Start that has been answered, or will be, has no Stop and no request of a backend behind it.
LEMMA BehindAStart ==
    ASSUME AgentTypes, OrderFits, NEW c \in CallIds, lifecycle = c, ServedUpTo(c), NEW i \in 1 .. LineLen
    PROVE  Line[i].kind \in {"Health", "Cursor"}
<1>1. c # 0 /\ c \in Nat
  BY AgentNumbers
<1>2. Line[i].kind # "Stop"
  <2>1. SUFFICES ASSUME Line[i].kind = "Stop" PROVE FALSE
    OBVIOUS
  <2>2. PICK j \in 1 .. LineLen : Line[j].call = c
    BY <1>1, <2>1 DEF OrderFits, StopsFit
  <2>3. Line[j].call = 0 \/ c < Line[j].call
    BY DEF ServedUpTo
  <2>4. QED  BY <1>1, <2>2, <2>3
<1>3. Line[i].kind \in CallKinds => Line[i].kind = "Health"
  <2>1. SUFFICES ASSUME Line[i].kind \in CallKinds PROVE Line[i].kind = "Health"
    OBVIOUS
  <2>2. Line[i].call \in CallIds /\ Line[i].call # 0
    BY <2>1, ItemsOfCalls DEF ItemsFit
  <2>3. c < Line[i].call /\ calls[Line[i].call].kind = Line[i].kind
    BY <2>2 DEF ServedUpTo, OrderFits, LineFits
  <2>4. calls[Line[i].call].kind \in {"none", "Health"}
    BY <1>1, <2>2, <2>3 DEF OrderFits, CallsFit
  <2>5. QED  BY <2>1, <2>3, <2>4 DEF CallKinds
<1>4. QED  BY <1>2, <1>3, ItemsOfCalls DEF ItemsFit, CallKinds

\* A call returns; a Start that was answered well makes a backend.
LEMMA ReturnsInOrder ==
    ASSUME AgentTypes, AgentTypes', AgentOrder, NEW c \in CallIds, CallEnds(c)
    PROVE  AgentOrder'
<1>1. PICK well \in BOOLEAN : Return(c, well) /\ (well => calls[c].at = "answered") /\ calls[c].at \in {"queued", "answered", "refused"}
  BY DEF CallEnds, DispatchFails, CallReturns
<1>2. /\ calls' = [calls EXCEPT ![c].at = IF well THEN "done" ELSE "failed"]
      /\ lifecycle' = IF lifecycle = c THEN 0 ELSE lifecycle
      /\ lease' = IF calls[c].kind = "Start" /\ well THEN c ELSE lease
      /\ UNCHANGED <<items, cursor, writing, awaited, requests, responses, agentState>>
  BY <1>1 DEF Return, CallEnds, DispatchFails, CallReturns
<1>3. \A d \in CallIds :
         /\ calls'[d].kind = calls[d].kind /\ calls'[d].of = calls[d].of /\ calls'[d].aim = calls[d].aim
         /\ d # c => calls'[d] = calls[d]
         /\ d = c => calls'[d].at = IF well THEN "done" ELSE "failed"
  <2>1. PICK stage \in CallStages : stage = IF well THEN "done" ELSE "failed"
    BY DEF CallStages
  <2>2. calls' = [calls EXCEPT ![c].at = stage]
    BY <1>2, <2>1
  <2>3. \A d \in CallIds : /\ calls'[d].kind = calls[d].kind /\ calls'[d].of = calls[d].of /\ calls'[d].aim = calls[d].aim
                           /\ d = c => calls'[d].at = stage
    <3>1. calls \in [CallIds -> CallRecords]
      BY DEF AgentTypes
    <3>2. calls[c] \in CallRecords
      BY <3>1
    <3>3. QED  BY <2>2, <3>1, <3>2 DEF CallRecords
  <2>4. \A d \in CallIds : d # c => calls'[d] = calls[d]
    BY <2>2 DEF AgentTypes
  <2>5. QED  BY <2>1, <2>3, <2>4
<1>4. LineKept
  <2>1. UNCHANGED <<requests, items>> /\ writing'.rest = writing.rest
    BY <1>2
  <2>2. QED  BY <2>1, LineStays
<1>5. \A d \in CallIds : ServedUpTo(d)' <=> ServedUpTo(d)
  BY <1>4 DEF LineKept, ServedUpTo
<1>6. c # 0 /\ 0 \notin CallIds
  BY AgentNumbers
<1>7. /\ \A d \in CallIds : Begun(d)' <=> Begun(d)
      /\ \A d \in CallIds : BegunInVain(d) => BegunInVain(d)'
      /\ \A d \in CallIds : BackendMade(d) => BackendMade(d)'
      /\ \A d \in CallIds : BackendMade(d)' /\ ~BackendMade(d) => d = c /\ well /\ calls[c].kind = "Start"
  BY <1>1, <1>3 DEF Begun, BegunInVain, BackendMade
<1>8. CallsFit'
  <2>1. ASSUME NEW d \in CallIds  PROVE (calls[d].kind = "none" <=> calls[d] = NoCall)'
    BY <1>1, <1>3 DEF AgentOrder, OrderFits, CallsFit, NoCall
  <2>2. ASSUME NEW d \in CallIds  PROVE (calls[d].at = "new" <=> calls[d].kind = "none")'
    BY <1>1, <1>3 DEF AgentOrder, OrderFits, CallsFit
  <2>3. ASSUME NEW d \in CallIds  PROVE (calls[d].kind \in {"Start", "Button"} /\ calls[d].at \in UnderWay => lifecycle = d)'
    BY <1>1, <1>2, <1>3 DEF AgentOrder, OrderFits, CallsFit, UnderWay
  <2>4. ASSUME NEW d \in CallIds  PROVE (calls[d].at = "dropped" => Begun(d))'
    BY <1>3, <1>7 DEF AgentOrder, OrderFits, CallsFit
  <2>5. ASSUME NEW d \in CallIds  PROVE (calls[d].kind = "Button" => calls[d].of \in CallIds /\ BackendMade(calls[d].of))'
    BY <1>3, <1>7 DEF AgentOrder, OrderFits, CallsFit
  <2>6. \A d \in CallIds : lifecycle' # 0 /\ lifecycle' < d => calls'[d].kind \in {"none", "Health"}
    BY <1>2, <1>3 DEF AgentOrder, OrderFits, CallsFit
  <2>7. QED  BY <1>3, <2>1, <2>2, <2>3, <2>4, <2>5, <2>6 DEF AgentOrder, OrderFits, CallsFit
<1>9. LineFits'
  <2>1. ASSUME NEW i \in 1 .. LineLen', Line'[i].call # 0  PROVE calls'[Line'[i].call].kind = Line'[i].kind
    <3>1. i \in 1 .. LineLen /\ Line'[i] = Line[i]
      BY <1>4 DEF LineKept
    <3>2. Line[i].call \in CallIds
      BY <2>1, <3>1, ItemsOfCalls DEF ItemsFit
    <3>3. QED  BY <2>1, <3>1, <3>2, <1>3 DEF AgentOrder, OrderFits, LineFits
  <2>2. \A i, j \in 1 .. LineLen' : i < j /\ Line'[i].call # 0 /\ Line'[j].call # 0 => Line'[i].call < Line'[j].call
    BY <1>4 DEF LineKept, AgentOrder, OrderFits, LineFits
  <2>3. ASSUME NEW d \in CallIds, calls'[d].at \in {"answered", "done", "dropped"}  PROVE ServedUpTo(d)'
    BY <2>3, <1>1, <1>3, <1>5 DEF AgentOrder, OrderFits, LineFits
  <2>4. QED  BY <2>1, <2>2, <2>3 DEF LineFits
\* The new backend: its Start has been served, and nothing is behind it that could end it.
<1>10. ASSUME calls[c].kind = "Start", well
       PROVE  /\ lifecycle = c /\ runtime = c /\ ServedUpTo(c)
              /\ \A i \in 1 .. LineLen : Line[i].kind # "Stop"
  <2>1. lifecycle = c
    BY <1>1, <1>10 DEF AgentOrder, OrderFits, CallsFit, UnderWay
  <2>2. ServedUpTo(c) /\ runtime = c
    BY <1>1, <1>10 DEF AgentOrder, OrderFits, LineFits, RuntimeFits, Begun
  <2>3. \A i \in 1 .. LineLen : Line[i].kind \in {"Health", "Cursor"}
    BY <2>1, <2>2, BehindAStart DEF AgentOrder
  <2>4. QED  BY <2>1, <2>2, <2>3
<1>11. StopsFit'
  BY <1>2, <1>4, <1>10 DEF LineKept, AgentOrder, OrderFits, StopsFit
<1>12. LeaseFits'
  <2>1. CASE calls[c].kind = "Start" /\ well
    <3>1. lease' = c /\ runtime' = c /\ lifecycle = c
      BY <2>1, <1>2, <1>10 DEF agentState
    <3>2. Begun(c)' /\ calls'[c].at = "done"
      BY <2>1, <1>3 DEF Begun
    <3>3. ASSUME NEW s \in CallIds, BackendMade(s)'  PROVE s <= c
      <4>1. ~(c < s)
        BY <3>1, <3>3, <1>6, <1>3 DEF AgentOrder, OrderFits, CallsFit, BackendMade, Begun
      <4>2. QED  BY <4>1, AgentNumbers
    <3>4. QED  BY <3>1, <3>2, <3>3 DEF LeaseFits
  <2>2. CASE ~(calls[c].kind = "Start" /\ well)
    <3>1. lease' = lease /\ runtime' = runtime /\ (lease # 0 => lease \in CallIds)
      BY <2>2, <1>2, AgentNumbers DEF agentState, AgentTypes
    <3>2. ASSUME lease # 0  PROVE Begun(lease)' /\ calls'[lease].at = "done"
      BY <3>1, <3>2, <1>1, <1>3, <1>7 DEF AgentOrder, OrderFits, LeaseFits
    <3>3. \A s \in CallIds : BackendMade(s)' => BackendMade(s)
      BY <2>2, <1>7
    <3>4. QED  BY <3>1, <3>2, <3>3, <1>7 DEF AgentOrder, OrderFits, LeaseFits
  <2>3. QED  BY <2>1, <2>2
<1>13. \A b, q : Excused(b, q) => Excused(b, q)'
  BY <1>7 DEF Excused
<1>14. ButtonsFit'
  <2>1. ASSUME NEW i \in 1 .. LineLen', Line'[i].kind = "Button"
        PROVE  /\ Excused(calls[Line[i].call].of, runtime)'
               /\ \A j \in 1 .. LineLen' : j < i => /\ Line'[j].kind # "Stop"
                                                    /\ Line'[j].kind = "Start" => calls'[Line'[j].call].at = "failed"
    <3>1. i \in 1 .. LineLen /\ Line'[i] = Line[i] /\ Line[i].call \in CallIds /\ runtime' = runtime
      BY <1>2, <1>4, <2>1, ItemsOfCalls DEF LineKept, ItemsFit, CallKinds, agentState
    <3>2. Excused(calls[Line[i].call].of, runtime)'
      <4>1. Excused(calls[Line[i].call].of, runtime)
        BY <2>1, <3>1 DEF AgentOrder, OrderFits, ButtonsFit
      <4>2. Excused(calls'[Line'[i].call].of, runtime')
        BY <4>1, <3>1, <1>3
      <4>3. QED  BY <4>2, <3>1, <1>7 DEF Excused
    <3>3. ASSUME NEW j \in 1 .. LineLen', j < i
          PROVE  Line'[j].kind # "Stop" /\ (Line'[j].kind = "Start" => calls'[Line'[j].call].at = "failed")
      <4>1. j \in 1 .. LineLen /\ Line'[j] = Line[j] /\ (Line[j].kind = "Start" => Line[j].call \in CallIds)
        BY <1>4, ItemsOfCalls DEF LineKept, ItemsFit, CallKinds
      <4>2. Line[j].kind # "Stop" /\ (Line[j].kind = "Start" => calls[Line[j].call].at = "failed")
        BY <2>1, <3>1, <3>3, <4>1 DEF AgentOrder, OrderFits, ButtonsFit
      <4>3. QED  BY <4>1, <4>2, <1>1, <1>3
    <3>4. QED  BY <3>2, <3>3
  <2>2. QED  BY <2>1 DEF ButtonsFit
<1>15. ActedFits'
  <2>1. ASSUME NEW d \in CallIds, acted'[d].at # 0  PROVE (calls[d].kind = "Button" /\ Excused(calls[d].of, acted[d].on))'
    <3>1. calls[d].kind = "Button" /\ Excused(calls[d].of, acted[d].on) /\ acted' = acted
      BY <2>1, <1>2 DEF AgentOrder, OrderFits, ActedFits, agentState
    <3>2. Excused(calls'[d].of, acted'[d].on)
      BY <3>1, <1>3
    <3>3. QED  BY <3>1, <3>2, <1>3, <1>7 DEF Excused
  <2>2. QED  BY <2>1 DEF ActedFits
<1>16. PipesFit'
  BY <1>2, <1>3, <1>5 DEF AgentOrder, PipesFit
<1>17. RuntimeFits'
  <2>1. \A d \in CallIds : calls'[d].at \in {"answered", "sent"} => calls'[d].at = calls[d].at
    BY <1>3
  <2>2. QED  BY <2>1, <1>2, <1>7 DEF AgentOrder, RuntimeFits, agentState
<1>18. QED  BY <1>8, <1>9, <1>11, <1>12, <1>14, <1>15, <1>16, <1>17 DEF AgentOrder, OrderFits

\* A backend is dropped; only the current one asks for a stop.
LEMMA DropsInOrder ==
    ASSUME AgentTypes, AgentTypes', AgentOrder, NEW b \in CallIds, DropBackend(b)
    PROVE  AgentOrder'
<1>1. /\ lifecycle = 0 /\ calls[b].kind = "Start" /\ calls[b].at = "done"
      /\ calls' = [calls EXCEPT ![b].at = "dropped"] /\ lease' = (IF lease = b THEN 0 ELSE lease)
      /\ items' = items \/ (lease = b /\ items' = Append(items, StopItem))
      /\ UNCHANGED <<clientUp, lifecycle, cursor, writing, awaited, requests, responses, agentState>>
  BY DEF DropBackend
<1>2. \A d \in CallIds :
         /\ calls'[d].kind = calls[d].kind /\ calls'[d].of = calls[d].of /\ calls'[d].aim = calls[d].aim
         /\ d # b => calls'[d] = calls[d]
         /\ d = b => calls'[d].at = "dropped"
  <2>1. calls \in [CallIds -> CallRecords]
    BY DEF AgentTypes
  <2>2. calls[b] \in CallRecords
    BY <2>1
  <2>3. QED  BY <1>1, <2>1, <2>2 DEF CallRecords
<1>3. /\ LineLen \in Nat /\ (LineLen' = LineLen \/ LineLen' = LineLen + 1)
      /\ \A i \in 1 .. LineLen : Line'[i] = Line[i]
      /\ LineLen' = LineLen + 1 => Line'[LineLen + 1] = StopItem /\ lease = b
  <2>1. LineLen \in Nat
    BY LineIsSized DEF LineSized
  <2>2. CASE items' = items
    <3>1. LineKept
      BY <2>2, <1>1, LineStays
    <3>2. QED  BY <2>1, <3>1 DEF LineKept
  <2>3. CASE lease = b /\ items' = Append(items, StopItem)
    <3>1. LineGrows(StopItem)
      BY <2>3, <1>1, QueueGrows, AgentItemTypes
    <3>2. QED  BY <2>1, <2>3, <3>1 DEF LineGrows
  <2>4. QED  BY <1>1, <2>2, <2>3
<1>4. ASSUME NEW i \in 1 .. LineLen'
      PROVE  \/ i \in 1 .. LineLen /\ Line'[i] = Line[i]
             \/ /\ i = LineLen + 1 /\ lease = b /\ Line'[i] = StopItem
                /\ Line'[i].kind = "Stop" /\ Line'[i].call = 0
  <2>1. CASE i \in 1 .. LineLen
    BY <2>1, <1>3
  <2>2. CASE i \notin 1 .. LineLen
    <3>1. i = LineLen + 1 /\ LineLen' = LineLen + 1
      BY <2>2, <1>3
    <3>2. Line'[i] = StopItem /\ lease = b
      BY <3>1, <1>3
    <3>3. QED  BY <3>1, <3>2 DEF StopItem
  <2>3. QED  BY <2>1, <2>2
<1>5. \A d \in CallIds : ServedUpTo(d) => ServedUpTo(d)'
  BY <1>4 DEF ServedUpTo
<1>6. /\ \A d \in CallIds : Begun(d)' <=> Begun(d)
      /\ \A d \in CallIds : BegunInVain(d) <=> BegunInVain(d)'
      /\ \A d \in CallIds : BackendMade(d) <=> BackendMade(d)'
  BY <1>1, <1>2 DEF Begun, BegunInVain, BackendMade
<1>7. CallsFit'
  <2>1. ASSUME NEW d \in CallIds  PROVE (calls[d].kind = "none" <=> calls[d] = NoCall)'
    BY <1>1, <1>2 DEF AgentOrder, OrderFits, CallsFit, NoCall
  <2>2. ASSUME NEW d \in CallIds  PROVE (calls[d].at = "new" <=> calls[d].kind = "none")'
    BY <1>1, <1>2 DEF AgentOrder, OrderFits, CallsFit
  <2>3. ASSUME NEW d \in CallIds  PROVE (calls[d].kind \in {"Start", "Button"} /\ calls[d].at \in UnderWay => lifecycle = d)'
    BY <1>1, <1>2 DEF AgentOrder, OrderFits, CallsFit, UnderWay
  <2>4. ASSUME NEW d \in CallIds  PROVE (calls[d].at = "dropped" => Begun(d))'
    BY <1>1, <1>2, <1>6 DEF AgentOrder, OrderFits, CallsFit, Begun
  <2>5. ASSUME NEW d \in CallIds  PROVE (calls[d].kind = "Button" => calls[d].of \in CallIds /\ BackendMade(calls[d].of))'
    BY <1>2, <1>6 DEF AgentOrder, OrderFits, CallsFit
  <2>6. \A d \in CallIds : lifecycle' # 0 /\ lifecycle' < d => calls'[d].kind \in {"none", "Health"}
    BY <1>1
  <2>7. QED  BY <1>2, <2>1, <2>2, <2>3, <2>4, <2>5, <2>6 DEF AgentOrder, OrderFits, CallsFit
<1>8. LineFits'
  <2>1. ASSUME NEW i \in 1 .. LineLen', Line'[i].call # 0  PROVE calls'[Line'[i].call].kind = Line'[i].kind
    <3>1. i \in 1 .. LineLen /\ Line'[i] = Line[i]
      BY <2>1, <1>4
    <3>2. Line[i].call \in CallIds
      BY <2>1, <3>1, ItemsOfCalls DEF ItemsFit
    <3>3. QED  BY <2>1, <3>1, <3>2, <1>2 DEF AgentOrder, OrderFits, LineFits
  <2>2. \A i, j \in 1 .. LineLen' : i < j /\ Line'[i].call # 0 /\ Line'[j].call # 0 => Line'[i].call < Line'[j].call
    BY <1>4 DEF AgentOrder, OrderFits, LineFits
  <2>3. ASSUME NEW d \in CallIds, calls'[d].at \in {"answered", "done", "dropped"}  PROVE ServedUpTo(d)'
    BY <2>3, <1>1, <1>2, <1>5 DEF AgentOrder, OrderFits, LineFits
  <2>4. QED  BY <2>1, <2>2, <2>3 DEF LineFits
<1>9. StopsFit'
  <2>1. ASSUME NEW i \in 1 .. LineLen', lease' # 0  PROVE Line'[i].kind # "Stop"
    <3>1. lease # 0 /\ lease # b
      BY <2>1, <1>1
    <3>2. QED  BY <3>1, <1>4 DEF AgentOrder, OrderFits, StopsFit
  <2>2. QED  BY <2>1, <1>1 DEF StopsFit
<1>10. LeaseFits'
  <2>1. SUFFICES ASSUME lease' # 0  PROVE LeaseFits'
    BY DEF LeaseFits
  <2>2. lease' = lease /\ lease # b /\ lease # 0 /\ runtime' = runtime /\ lease \in CallIds
    BY <2>1, <1>1, AgentNumbers DEF agentState, AgentTypes
  <2>3. Begun(lease)' /\ calls'[lease].at = "done"
    BY <2>2, <1>2, <1>6 DEF AgentOrder, OrderFits, LeaseFits
  <2>4. QED  BY <2>2, <2>3, <1>6 DEF AgentOrder, OrderFits, LeaseFits
<1>11. ButtonsFit'
  <2>1. ASSUME NEW i \in 1 .. LineLen', Line'[i].kind = "Button"
        PROVE  /\ Excused(calls[Line[i].call].of, runtime)'
               /\ \A j \in 1 .. LineLen' : j < i => /\ Line'[j].kind # "Stop"
                                                    /\ Line'[j].kind = "Start" => calls'[Line'[j].call].at = "failed"
    <3>1. i \in 1 .. LineLen /\ Line'[i] = Line[i]
      BY <1>4, <2>1
    <3>2. Line[i].call \in CallIds /\ runtime' = runtime
      BY <3>1, <1>1, <2>1, ItemsOfCalls DEF ItemsFit, CallKinds, agentState
    <3>3. Excused(calls[Line[i].call].of, runtime)'
      <4>1. Excused(calls[Line[i].call].of, runtime)
        BY <2>1, <3>1 DEF AgentOrder, OrderFits, ButtonsFit
      <4>2. Excused(calls'[Line'[i].call].of, runtime')
        BY <4>1, <3>1, <3>2, <1>2
      <4>3. QED  BY <4>2, <3>1, <3>2, <1>6 DEF Excused
    <3>4. ASSUME NEW j \in 1 .. LineLen', j < i
          PROVE  Line'[j].kind # "Stop" /\ (Line'[j].kind = "Start" => calls'[Line'[j].call].at = "failed")
      <4>1. j \in 1 .. LineLen
        BY <3>1, <3>4, <1>3
      <4>2. Line'[j] = Line[j] /\ (Line[j].kind = "Start" => Line[j].call \in CallIds)
        BY <4>1, <1>3, ItemsOfCalls DEF ItemsFit, CallKinds
      <4>3. Line[j].kind # "Stop" /\ (Line[j].kind = "Start" => calls[Line[j].call].at = "failed")
        BY <2>1, <3>1, <3>4, <4>1 DEF AgentOrder, OrderFits, ButtonsFit
      <4>4. QED  BY <4>2, <4>3, <1>1, <1>2
    <3>5. QED  BY <3>3, <3>4
  <2>2. QED  BY <2>1 DEF ButtonsFit
<1>12. ActedFits'
  <2>1. ASSUME NEW d \in CallIds, acted'[d].at # 0  PROVE (calls[d].kind = "Button" /\ Excused(calls[d].of, acted[d].on))'
    <3>1. calls[d].kind = "Button" /\ Excused(calls[d].of, acted[d].on) /\ acted' = acted
      BY <2>1, <1>1 DEF AgentOrder, OrderFits, ActedFits, agentState
    <3>2. Excused(calls'[d].of, acted'[d].on)
      BY <3>1, <1>2
    <3>3. QED  BY <3>1, <3>2, <1>2, <1>6 DEF Excused
  <2>2. QED  BY <2>1 DEF ActedFits
<1>13. PipesFit'
  BY <1>1, <1>2, <1>5 DEF AgentOrder, PipesFit
<1>14. RuntimeFits'
  <2>1. \A d \in CallIds : calls'[d].at \in {"answered", "sent"} => calls'[d].at = calls[d].at
    BY <1>2
  <2>2. QED  BY <2>1, <1>1, <1>6 DEF AgentOrder, RuntimeFits, agentState
<1>15. QED  BY <1>7, <1>8, <1>9, <1>10, <1>11, <1>12, <1>13, <1>14 DEF AgentOrder, OrderFits

\* The agent serves the first of the pipe.
LEMMA ServesInOrder ==
    ASSUME AgentTypes, Numbered, AgentTypes', AgentOrder, Serve
    PROVE  AgentOrder'
<1> DEFINE q == Head(requests)
           item == q.item
<1>0. LineServed /\ requests # <<>> /\ Line[1] = item
  BY LineServes
<1>1. SameOrder
  <2>1. LineSized /\ LineSized'
    BY LineIsSized, PTL
  <2>2. QED  BY <1>0, <2>1, ServedInOrder
<1>2. /\ requests' = Tail(requests)
      /\ UNCHANGED <<clientUp, calls, lifecycle, lease, items, cursor, writing, awaited>>
  BY DEF Serve
<1>3. PICK well \in BOOLEAN :
         /\ responses' = Append(responses, [id |-> q.id, well |-> well])
         /\ \/ item.kind = "Start" /\ runtime' \in {0, item.call} /\ (well => runtime' = item.call) /\ acted' = acted
            \/ item.kind = "Stop" /\ runtime' = 0 /\ acted' = acted
            \/ item.kind \in {"Health", "Cursor"} /\ runtime' = runtime /\ acted' = acted
            \/ /\ item.kind = "Button" /\ runtime' = runtime
               /\ acted' = [acted EXCEPT ![item.call] = [on |-> runtime, at |-> pointer + 1]]
  <2>1. CASE item.kind = "Start"
    BY <2>1 DEF Serve
  <2>2. CASE item.kind = "Stop"
    BY <2>2 DEF Serve
  <2>3. CASE item.kind \in {"Health", "Cursor"}
    BY <2>3 DEF Serve, agentState
  <2>4. CASE item.kind = "Button"
    BY <2>4 DEF Serve
  <2>5. QED  BY <2>1, <2>2, <2>3, <2>4 DEF Serve
<1>4. /\ requests \in Seq(AgentRequests) /\ responses \in Seq(AgentResponses) /\ requests # <<>>
      /\ acted \in [CallIds -> [on : CallNumbers, at : Nat]]
  BY <1>0 DEF AgentTypes
<1>5. /\ q = requests[1] /\ q \in AgentRequests /\ 1 \in DOMAIN requests /\ Len(requests) \in Nat
      /\ DOMAIN requests = 1 .. Len(requests)
      /\ DOMAIN requests' = 1 .. Len(requests) - 1 /\ \A i \in 1 .. Len(requests) - 1 : requests'[i] = requests[i + 1]
  <2>1. /\ q = requests[1] /\ q \in AgentRequests /\ Len(requests') = Len(requests) - 1
        /\ requests' \in Seq(AgentRequests) /\ \A i \in 1 .. Len(requests') : requests'[i] = requests[i + 1]
    BY <1>2, <1>4, HeadTailProperties
  <2>2. QED  BY <2>1, <1>4, LenProperties, EmptySeq
<1>6. \A i \in DOMAIN requests' : i + 1 \in DOMAIN requests /\ requests'[i] = requests[i + 1]
  BY <1>5
<1>7. q.id \in DOMAIN awaited /\ q.id \in Nat /\ awaited[q.id] \in {item.call, Completed}
  BY <1>5 DEF Numbered, AgentOrder, PipesFit, AgentRequests
<1>8. /\ DOMAIN responses = 1 .. Len(responses) /\ Len(responses) \in Nat
      /\ DOMAIN responses' = 1 .. Len(responses) + 1
      /\ \A i \in 1 .. Len(responses) : responses'[i] = responses[i]
      /\ responses'[Len(responses) + 1].id = q.id /\ responses'[Len(responses) + 1].well = well
  <2>1. [id |-> q.id, well |-> well] \in AgentResponses
    BY <1>7 DEF AgentResponses
  <2>2. /\ DOMAIN responses = 1 .. Len(responses) /\ Len(responses) \in Nat
        /\ DOMAIN responses' = 1 .. Len(responses) + 1
        /\ \A i \in 1 .. Len(responses) : responses'[i] = responses[i]
        /\ responses'[Len(responses) + 1] = [id |-> q.id, well |-> well]
    BY <1>3, <1>4, <2>1, AppendProperties, LenProperties
  <2>3. QED  BY <2>2
<1>9. \A i \in DOMAIN responses' : i \in DOMAIN responses \/ i = Len(responses) + 1
  BY <1>8
<1> HIDE DEF q, item
<1>10. /\ LineLen \in Nat /\ 1 \in 1 .. LineLen /\ Completed \notin CallIds /\ 0 \notin CallIds
       /\ \A i \in 1 .. LineLen' : i + 1 \in 1 .. LineLen /\ Line'[i] = Line[i + 1] /\ 1 < i + 1
  <2>1. LineSized
    BY LineIsSized
  <2>2. QED  BY <2>1, <1>0, AgentNumbers DEF LineSized, LineServed
<1>11. ItemsFit /\ item.call \in CallNumbers
  <2>1. item.call \in CallNumbers
    BY <1>0, <1>10, LineIsTyped DEF LineTyped, AgentItems
  <2>2. QED  BY <2>1, ItemsOfCalls
<1>12. \A d \in CallIds : ServedUpTo(d) => ServedUpTo(d)'
  BY <1>1, ServedStaysServed
\* What has been served is before everything that is left.
<1>13. ASSUME NEW c \in CallIds, item.call = c  PROVE ServedUpTo(c)' /\ calls[c].kind = item.kind
  <2>1. ASSUME NEW i \in 1 .. LineLen', Line'[i].call # 0  PROVE c < Line'[i].call
    BY <2>1, <1>0, <1>10, <1>13 DEF AgentOrder, OrderFits, LineFits
  <2>2. QED  BY <2>1, <1>0, <1>10, <1>13 DEF ServedUpTo, AgentOrder, OrderFits, LineFits
\* A Start that has been served holds the runtime until its caller knows.
<1>14. ASSUME NEW c \in CallIds, lifecycle = c, ServedUpTo(c)  PROVE runtime' = runtime
  <2>1. item.kind \in {"Health", "Cursor"}
    BY <1>14, <1>0, <1>10, BehindAStart DEF AgentOrder
  <2>2. QED  BY <2>1, <1>3
\* A Start that is served after a backend was made.
<1>15. ASSUME NEW b \in CallIds, ServedUpTo(b), item.kind = "Start"
       PROVE  item.call \in CallIds /\ b < item.call /\ Begun(item.call)
  <2>1. item.call \in CallIds /\ item.call # 0
    BY <1>15, <1>0, <1>10, <1>11 DEF ItemsFit, CallKinds
  <2>2. QED  BY <2>1, <1>15, <1>0, <1>10, <1>13 DEF ServedUpTo, Begun
<1>16. /\ \A d \in CallIds : (Begun(d)' <=> Begun(d)) /\ (BegunInVain(d)' <=> BegunInVain(d))
       /\ \A d \in CallIds : BackendMade(d)' <=> BackendMade(d)
  BY <1>2 DEF Begun, BegunInVain, BackendMade
<1>17. CallsFit'
  BY <1>2, <1>16 DEF AgentOrder, OrderFits, CallsFit
<1>18. LineFits'
  <2>1. \A i \in 1 .. LineLen' : Line'[i].call # 0 => calls'[Line'[i].call].kind = Line'[i].kind
    BY <1>2, <1>10 DEF AgentOrder, OrderFits, LineFits
  <2>2. ASSUME NEW i \in 1 .. LineLen', NEW j \in 1 .. LineLen', i < j, Line'[i].call # 0, Line'[j].call # 0
        PROVE  Line'[i].call < Line'[j].call
    <3>1. i + 1 < j + 1
      <4>1. LineSized'
        BY LineIsSized, PTL
      <4>2. QED  BY <2>2, <4>1 DEF LineSized
    <3>2. QED  BY <2>2, <3>1, <1>10 DEF AgentOrder, OrderFits, LineFits
  <2>3. \A d \in CallIds : calls'[d].at \in {"answered", "done", "dropped"} => ServedUpTo(d)'
    BY <1>2, <1>12 DEF AgentOrder, OrderFits, LineFits
  <2>4. QED  BY <2>1, <2>2, <2>3 DEF LineFits
<1>19. StopsFit'
  <2>1. \A i \in 1 .. LineLen' : lease' # 0 => Line'[i].kind # "Stop"
    BY <1>2, <1>10 DEF AgentOrder, OrderFits, StopsFit
  <2>2. ASSUME NEW i \in 1 .. LineLen', lifecycle' # 0, Line'[i].kind = "Stop"
        PROVE  \E j \in 1 .. LineLen' : i < j /\ Line'[j].call = lifecycle'
    <3>1. PICK k \in 1 .. LineLen : i + 1 < k /\ Line[k].call = lifecycle
      BY <2>2, <1>2, <1>10 DEF AgentOrder, OrderFits, StopsFit
    <3>2. PICK j \in Nat : k = j + 1
      BY <1>10
    <3>3. j \in 1 .. LineLen' /\ i < j
      <4>1. LineLen' = LineLen - 1 /\ i \in Nat /\ i >= 1
        BY <1>0, <1>10 DEF LineServed
      <4>2. QED  BY <4>1, <3>1, <3>2, <1>10
    <3>4. Line'[j] = Line[k]
      BY <3>2, <3>3, <1>10
    <3>5. QED  BY <3>1, <3>3, <3>4, <1>2
  <2>3. QED  BY <2>1, <2>2 DEF StopsFit
<1>20. LeaseFits'
  <2>1. SUFFICES ASSUME lease # 0  PROVE LeaseFits'
    BY <1>2 DEF LeaseFits
  <2>2. lease \in CallIds /\ lease' = lease /\ Begun(lease) /\ calls[lease].at = "done" /\ ServedUpTo(lease)
    BY <2>1, <1>2, AgentNumbers DEF AgentTypes, AgentOrder, OrderFits, LeaseFits, LineFits
  <2>3. item.kind # "Stop"
    BY <2>1, <1>0, <1>10 DEF AgentOrder, OrderFits, StopsFit
  <2>4. runtime' = lease \/ \E s \in CallIds : Begun(s) /\ lease < s /\ runtime' \in {0, s}
    <3>1. CASE item.kind = "Start"
      BY <3>1, <2>2, <1>3, <1>15
    <3>2. CASE item.kind # "Start"
      BY <3>2, <2>1, <2>3, <1>3 DEF AgentOrder, OrderFits, LeaseFits
    <3>3. QED  BY <3>1, <3>2
  <2>5. QED  BY <2>2, <2>4, <1>2, <1>16 DEF AgentOrder, OrderFits, LeaseFits
<1>21. \A b, s : Excused(b, s)' <=> Excused(b, s)
  BY <1>16 DEF Excused
<1>22. ButtonsFit'
  <2>1. ASSUME NEW i \in 1 .. LineLen', Line'[i].kind = "Button"
        PROVE  /\ Excused(calls[Line[i].call].of, runtime)'
               /\ \A j \in 1 .. LineLen' : j < i => /\ Line'[j].kind # "Stop"
                                                    /\ Line'[j].kind = "Start" => calls'[Line'[j].call].at = "failed"
    <3> DEFINE b == calls[Line[i + 1].call].of
    <3>1. i + 1 \in 1 .. LineLen /\ Line'[i] = Line[i + 1] /\ Line[i + 1].kind = "Button" /\ 1 < i + 1
      BY <2>1, <1>10
    <3>2. Line[i + 1].call \in CallIds /\ calls[Line[i + 1].call].kind = "Button"
      BY <3>1, <1>10, <1>11 DEF ItemsFit, CallKinds, AgentOrder, OrderFits, LineFits
    <3>3. b \in CallIds /\ BackendMade(b)
      BY <3>2 DEF AgentOrder, OrderFits, CallsFit
    <3>4. ServedUpTo(b)
      BY <3>3 DEF BackendMade, AgentOrder, OrderFits, LineFits
    <3>5. Excused(b, runtime) /\ item.kind # "Stop" /\ (item.kind = "Start" => calls[item.call].at = "failed")
      BY <3>1, <1>0, <1>10 DEF AgentOrder, OrderFits, ButtonsFit
    <3>6. Excused(b, runtime')
      <4>1. CASE item.kind = "Start"
        BY <4>1, <3>3, <3>4, <3>5, <1>3, <1>15 DEF Excused, BegunInVain
      <4>2. CASE item.kind # "Start"
        BY <4>2, <3>5, <1>3
      <4>3. QED  BY <4>1, <4>2
    <3>7. Excused(calls[Line[i].call].of, runtime)'
      <4>1. calls'[Line'[i].call].of = b
        BY <3>1, <1>2
      <4>2. QED  BY <3>6, <4>1, <1>16 DEF Excused
    <3>8. ASSUME NEW j \in 1 .. LineLen', j < i
          PROVE  Line'[j].kind # "Stop" /\ (Line'[j].kind = "Start" => calls'[Line'[j].call].at = "failed")
      <4>1. j + 1 \in 1 .. LineLen /\ Line'[j] = Line[j + 1] /\ j + 1 < i + 1
        <5>1. LineSized'
          BY LineIsSized, PTL
        <5>2. QED  BY <5>1, <3>8, <1>10 DEF LineSized
      <4>2. QED  BY <4>1, <3>1, <1>2 DEF AgentOrder, OrderFits, ButtonsFit
    <3>9. QED  BY <3>7, <3>8
  <2>2. QED  BY <2>1 DEF ButtonsFit
<1>23. ActedFits'
  <2>1. ASSUME NEW d \in CallIds, acted'[d].at # 0
        PROVE  calls[d].kind = "Button" /\ Excused(calls[d].of, acted'[d].on)
    <3>1. CASE item.kind = "Button" /\ d = item.call
      <4>1. acted'[d].on = runtime
        BY <3>1, <1>3, <1>4
      <4>2. Excused(calls[d].of, runtime)
        BY <3>1, <1>0, <1>10 DEF AgentOrder, OrderFits, ButtonsFit
      <4>3. QED  BY <3>1, <4>1, <4>2, <1>13
    <3>2. CASE ~(item.kind = "Button" /\ d = item.call)
      <4>1. acted'[d] = acted[d]
        BY <3>2, <1>3, <1>4
      <4>2. QED  BY <2>1, <4>1 DEF AgentOrder, OrderFits, ActedFits
    <3>3. QED  BY <3>1, <3>2
  <2>2. QED  BY <2>1, <1>2, <1>16 DEF ActedFits, Excused
<1>24. PipesFit'
  <2>1. \A i \in DOMAIN requests' : awaited'[requests'[i].id] \in {requests'[i].item.call, Completed'}
    BY <1>2, <1>6 DEF AgentOrder, PipesFit, Completed
  <2>2. ASSUME NEW i \in DOMAIN responses', NEW c \in CallIds, awaited'[responses'[i].id] = c
        PROVE  ServedUpTo(c)' /\ calls'[c].kind # "none"
    <3>1. CASE i \in DOMAIN responses
      BY <3>1, <2>2, <1>2, <1>8, <1>12 DEF AgentOrder, PipesFit
    <3>2. CASE i = Len(responses) + 1
      <4>1. item.call = c
        BY <3>2, <2>2, <1>2, <1>7, <1>8, <1>10
      <4>2. ServedUpTo(c)' /\ calls[c].kind = item.kind
        BY <4>1, <1>13
      <4>3. item.kind \in CallKinds
        BY <4>1, <1>0, <1>10, <1>11 DEF ItemsFit
      <4>4. QED  BY <4>2, <4>3, <1>2 DEF CallKinds
    <3>3. QED  BY <3>1, <3>2, <1>9
  <2>3. QED  BY <2>1, <2>2 DEF PipesFit
<1>25. RuntimeFits'
  <2>1. ASSUME NEW c \in CallIds, Begun(c)', calls'[c].at = "answered"  PROVE runtime' = c
    <3>1. Begun(c) /\ calls[c].at = "answered"
      BY <2>1, <1>2, <1>16
    <3>2. lifecycle = c /\ ServedUpTo(c) /\ runtime = c
      BY <3>1 DEF AgentOrder, OrderFits, CallsFit, LineFits, RuntimeFits, Begun, UnderWay
    <3>3. QED  BY <3>2, <1>14
  <2>2. ASSUME NEW i \in DOMAIN responses', NEW c \in CallIds,
               awaited'[responses'[i].id] = c, responses'[i].well, Begun(c)', calls'[c].at = "sent"
        PROVE  runtime' = c
    <3>1. Begun(c) /\ calls[c].at = "sent" /\ lifecycle = c
      BY <2>2, <1>2 DEF Begun, AgentOrder, OrderFits, CallsFit, UnderWay
    <3>2. CASE i \in DOMAIN responses
      <4>1. awaited[responses[i].id] = c /\ responses[i].well
        BY <3>2, <2>2, <1>2, <1>8
      <4>2. runtime = c /\ ServedUpTo(c)
        BY <3>1, <3>2, <4>1 DEF AgentOrder, RuntimeFits, PipesFit
      <4>3. QED  BY <3>1, <4>2, <1>14
    <3>3. CASE i = Len(responses) + 1
      <4>1. item.call = c /\ well
        BY <3>3, <2>2, <1>2, <1>7, <1>8, <1>10
      <4>2. item.kind = "Start"
        BY <3>1, <4>1, <1>13 DEF Begun
      <4>3. QED  BY <4>1, <4>2, <1>3
    <3>4. QED  BY <3>2, <3>3, <1>9
  <2>3. QED  BY <2>1, <2>2 DEF RuntimeFits
<1>26. QED  BY <1>17, <1>18, <1>19, <1>20, <1>22, <1>23, <1>24, <1>25 DEF AgentOrder, OrderFits

\* A new call is behind all others; for a backend, it finds no call of one under way.
LEMMA RequestsInOrder ==
    ASSUME AgentTypes, AgentTypes', AgentOrder, NEW c \in CallIds, NEW kind \in CallKinds, NEW of \in {0} \cup CallIds,
           Request(c, kind, of)
    PROVE  AgentOrder'
<1>1. /\ calls[c] = NoCall /\ (\A d \in CallIds : d < c => calls[d] # NoCall)
      /\ kind = "Health" \/ lifecycle = 0
      /\ kind = "Button" <=> of # 0
      /\ of = 0 \/ of = lease
      /\ lifecycle' = IF kind = "Health" THEN lifecycle ELSE c
      /\ items' = Append(items, CallItem(c, kind))
      /\ UNCHANGED <<clientUp, lease, cursor, writing, awaited, requests, responses, agentState>>
  BY DEF Request
<1>2. /\ calls'[c].kind = kind /\ calls'[c].of = of /\ calls'[c].at = "queued"
      /\ \A d \in CallIds : d # c => calls'[d] = calls[d]
  BY DEF Request, AgentTypes
<1>3. /\ c # 0 /\ c \in Nat /\ 0 \notin CallIds /\ CallIds \subseteq Nat /\ LineLen \in Nat
  <2>1. LineLen \in Nat
    BY LineIsSized DEF LineSized
  <2>2. QED  BY <2>1, AgentNumbers
<1>4. calls[c].kind = "none"
  BY <1>1 DEF NoCall
<1>5. \A d \in CallIds : calls[d].kind # "none" => d < c /\ d # c
  <2>1. \A d \in CallIds : c < d => calls[d].kind = "none"
    BY <1>4 DEF AgentOrder, OrderFits, CallsFit
  <2>2. QED  BY <2>1, <1>3, <1>4
<1>6. /\ LineLen' = LineLen + 1 /\ \A i \in 1 .. LineLen : Line'[i] = Line[i]
      /\ Line'[LineLen + 1] = CallItem(c, kind)
  BY <1>1, QueueGrows, AgentItemTypes DEF LineGrows
<1>7. CallItem(c, kind).kind = kind /\ CallItem(c, kind).call = c
  BY DEF CallItem
<1>8. ASSUME NEW i \in 1 .. LineLen'
      PROVE  \/ i \in 1 .. LineLen /\ Line'[i] = Line[i]
             \/ i = LineLen + 1 /\ Line'[i].kind = kind /\ Line'[i].call = c
  <2>1. i \in 1 .. LineLen \/ i = LineLen + 1
    BY <1>3, <1>6
  <2>2. QED  BY <2>1, <1>6, <1>7
<1>9. ASSUME NEW i \in 1 .. LineLen, Line[i].call # 0
      PROVE  /\ Line[i].call \in CallIds /\ calls[Line[i].call].kind = Line[i].kind
             /\ Line[i].call < c /\ Line[i].call # c
  <2>1. Line[i].call \in CallIds /\ Line[i].kind \in CallKinds
    BY <1>9, ItemsOfCalls DEF ItemsFit
  <2>2. calls[Line[i].call].kind = Line[i].kind
    BY <1>9 DEF AgentOrder, OrderFits, LineFits
  <2>3. QED  BY <2>1, <2>2, <1>5 DEF CallKinds
<1>10. ASSUME NEW d \in CallIds, calls[d].kind # "none", ServedUpTo(d)  PROVE ServedUpTo(d)'
  BY <1>10, <1>5, <1>8 DEF ServedUpTo
<1>11. /\ \A d \in CallIds : Begun(d) => Begun(d)' /\ d # c
       /\ \A d \in CallIds : BegunInVain(d) <=> BegunInVain(d)'
       /\ \A d \in CallIds : BackendMade(d) <=> BackendMade(d)'
  BY <1>2, <1>4 DEF Begun, BegunInVain, BackendMade
\* With no call of a backend under way, a Start that did not make one has failed.
<1>12. ASSUME lifecycle = 0, NEW s \in CallIds, Begun(s), ~BackendMade(s)  PROVE BegunInVain(s)
  <2>1. calls[s].at \notin UnderWay /\ calls[s].at # "new"
    BY <1>3, <1>12 DEF AgentOrder, OrderFits, CallsFit, Begun
  <2>2. calls[s].at \in CallStages
    BY DEF AgentTypes, CallRecords
  <2>3. QED  BY <2>1, <2>2, <1>12 DEF BegunInVain, BackendMade, CallStages, UnderWay
<1>13. CallsFit'
  <2>1. ASSUME NEW d \in CallIds  PROVE (calls[d].kind = "none" <=> calls[d] = NoCall)'
    BY <1>2 DEF AgentOrder, OrderFits, CallsFit, NoCall, CallKinds
  <2>2. ASSUME NEW d \in CallIds  PROVE (calls[d].at = "new" <=> calls[d].kind = "none")'
    BY <1>2 DEF AgentOrder, OrderFits, CallsFit, CallKinds
  <2>3. ASSUME NEW d \in CallIds  PROVE (calls[d].kind \in {"Start", "Button"} /\ calls[d].at \in UnderWay => lifecycle = d)'
    BY <1>1, <1>2, <1>3 DEF AgentOrder, OrderFits, CallsFit, UnderWay
  <2>4. ASSUME NEW d \in CallIds, lifecycle' # 0, lifecycle' < d  PROVE calls'[d].kind \in {"none", "Health"}
    <3>1. CASE kind = "Health"
      BY <3>1, <2>4, <1>1, <1>2 DEF AgentOrder, OrderFits, CallsFit
    <3>2. CASE kind # "Health"
      <4>1. lifecycle' = c /\ d \in Nat
        BY <3>2, <1>1, <1>3
      <4>2. d # c /\ ~(d < c)
        BY <4>1, <2>4, <1>3
      <4>3. QED  BY <4>2, <1>2, <1>5
    <3>3. QED  BY <3>1, <3>2
  <2>5. ASSUME NEW d \in CallIds, NEW e \in CallIds, d < e, calls'[d].kind = "none"  PROVE calls'[e].kind = "none"
    <3>1. d # c /\ calls[d].kind = "none" /\ calls[d] = NoCall
      BY <2>5, <1>2 DEF CallKinds, AgentOrder, OrderFits, CallsFit
    <3>2. e # c
      BY <3>1, <2>5, <1>1
    <3>3. QED  BY <3>1, <3>2, <2>5, <1>2 DEF AgentOrder, OrderFits, CallsFit
  <2>6. ASSUME NEW d \in CallIds  PROVE (calls[d].at = "dropped" => Begun(d))'
    BY <1>2, <1>11 DEF AgentOrder, OrderFits, CallsFit
  <2>7. ASSUME NEW d \in CallIds, calls'[d].kind = "Button"
        PROVE  calls'[d].of \in CallIds /\ BackendMade(calls[d].of)'
    <3>1. CASE d = c
      <4>1. of = lease /\ lease # 0 /\ lease \in CallIds /\ calls'[d].of = lease
        BY <3>1, <2>7, <1>1, <1>2, AgentNumbers DEF AgentTypes
      <4>2. BackendMade(lease)
        BY <4>1 DEF AgentOrder, OrderFits, LeaseFits, BackendMade
      <4>3. QED  BY <4>1, <4>2, <1>11 DEF BackendMade, Begun
    <3>2. CASE d # c
      <4>1. calls'[d] = calls[d] /\ calls[d].of \in CallIds /\ BackendMade(calls[d].of)
        BY <3>2, <2>7, <1>2 DEF AgentOrder, OrderFits, CallsFit
      <4>2. QED  BY <4>1, <1>11 DEF BackendMade, Begun
    <3>3. QED  BY <3>1, <3>2
  <2>8. QED  BY <2>1, <2>2, <2>3, <2>4, <2>5, <2>6, <2>7 DEF CallsFit
<1>14. LineFits'
  <2>1. ASSUME NEW i \in 1 .. LineLen', Line'[i].call # 0  PROVE calls'[Line'[i].call].kind = Line'[i].kind
    BY <2>1, <1>2, <1>8, <1>9
  <2>2. ASSUME NEW i \in 1 .. LineLen', NEW j \in 1 .. LineLen', i < j, Line'[i].call # 0, Line'[j].call # 0
        PROVE  Line'[i].call < Line'[j].call
    <3>1. i \in 1 .. LineLen
      <4>1. i \in Int /\ j \in Int /\ j <= LineLen + 1 /\ 1 <= i
        BY <1>3, <1>6
      <4>2. QED  BY <4>1, <2>2, <1>3
    <3>2. Line'[i] = Line[i]
      BY <3>1, <1>6
    <3>3. QED  BY <3>1, <3>2, <2>2, <1>8, <1>9 DEF AgentOrder, OrderFits, LineFits
  <2>3. ASSUME NEW d \in CallIds, calls'[d].at \in {"answered", "done", "dropped"}  PROVE ServedUpTo(d)'
    <3>1. d # c /\ calls[d].at \in {"answered", "done", "dropped"}
      BY <2>3, <1>2
    <3>2. calls[d].kind # "none" /\ ServedUpTo(d)
      BY <3>1 DEF AgentOrder, OrderFits, LineFits, CallsFit
    <3>3. QED  BY <3>2, <1>10
  <2>4. QED  BY <2>1, <2>2, <2>3 DEF LineFits
<1>15. StopsFit'
  <2>1. ASSUME NEW i \in 1 .. LineLen', lease' # 0  PROVE Line'[i].kind # "Stop"
    BY <2>1, <1>1, <1>8 DEF AgentOrder, OrderFits, StopsFit, CallKinds
  <2>2. ASSUME lifecycle' # 0, NEW i \in 1 .. LineLen', Line'[i].kind = "Stop"
        PROVE  \E j \in 1 .. LineLen' : i < j /\ Line'[j].call = lifecycle'
    <3>1. i \in 1 .. LineLen /\ Line'[i] = Line[i]
      BY <2>2, <1>8 DEF CallKinds
    <3>2. CASE kind = "Health"
      <4>1. PICK j \in 1 .. LineLen : i < j /\ Line[j].call = lifecycle
        BY <3>1, <3>2, <2>2, <1>1 DEF AgentOrder, OrderFits, StopsFit
      <4>2. j \in 1 .. LineLen' /\ Line'[j] = Line[j]
        BY <1>3, <1>6
      <4>3. QED  BY <4>1, <4>2, <3>2, <1>1
    <3>3. CASE kind # "Health"
      <4>1. LineLen + 1 \in 1 .. LineLen' /\ i < LineLen + 1
        BY <3>1, <1>3, <1>6
      <4>2. Line'[LineLen + 1].call = lifecycle'
        BY <3>3, <1>1, <1>6, <1>7
      <4>3. QED  BY <4>1, <4>2
    <3>4. QED  BY <3>2, <3>3
  <2>3. QED  BY <2>1, <2>2 DEF StopsFit
<1>16. LeaseFits'
  <2>1. SUFFICES ASSUME lease # 0  PROVE LeaseFits'
    BY <1>1 DEF LeaseFits
  <2>2. lease' = lease /\ runtime' = runtime /\ lease \in CallIds /\ Begun(lease) /\ calls[lease].at = "done"
    BY <2>1, <1>1, AgentNumbers DEF agentState, AgentTypes, AgentOrder, OrderFits, LeaseFits
  <2>3. Begun(lease)' /\ calls'[lease].at = "done"
    BY <2>2, <1>2, <1>11 DEF Begun
  <2>4. \A s \in CallIds : BackendMade(s)' => s <= lease
    BY <2>1, <1>11 DEF AgentOrder, OrderFits, LeaseFits
  <2>5. runtime = lease \/ \E s \in CallIds : Begun(s) /\ lease < s /\ runtime \in {0, s}
    BY <2>1 DEF AgentOrder, OrderFits, LeaseFits
  <2>6. runtime' = lease \/ \E s \in CallIds : Begun(s)' /\ lease < s /\ runtime' \in {0, s}
    BY <2>2, <2>5, <1>11
  <2>7. QED  BY <2>2, <2>3, <2>4, <2>6 DEF LeaseFits
<1>17. ButtonsFit'
  <2>1. ASSUME NEW i \in 1 .. LineLen', Line'[i].kind = "Button"
        PROVE  /\ Excused(calls[Line[i].call].of, runtime)'
               /\ \A j \in 1 .. LineLen' : j < i => /\ Line'[j].kind # "Stop"
                                                    /\ Line'[j].kind = "Start" => calls'[Line'[j].call].at = "failed"
    <3>1. CASE i \in 1 .. LineLen /\ Line'[i] = Line[i]
      <4>1. Line[i].call \in CallIds /\ Line[i].call # c /\ runtime' = runtime
        BY <3>1, <2>1, <1>1, <1>9, ItemsOfCalls DEF ItemsFit, CallKinds, agentState
      <4>2. Excused(calls[Line[i].call].of, runtime)'
        <5>1. Excused(calls[Line[i].call].of, runtime)
          BY <2>1, <3>1 DEF AgentOrder, OrderFits, ButtonsFit
        <5>2. Excused(calls'[Line'[i].call].of, runtime')
          BY <5>1, <3>1, <4>1, <1>2
        <5>3. QED  BY <5>2, <3>1, <4>1, <1>11 DEF Excused
      <4>3. ASSUME NEW j \in 1 .. LineLen', j < i
            PROVE  Line'[j].kind # "Stop" /\ (Line'[j].kind = "Start" => calls'[Line'[j].call].at = "failed")
        <5>1. j \in 1 .. LineLen
          BY <3>1, <4>3, <1>3, <1>6
        <5>2. Line'[j] = Line[j] /\ (Line[j].kind = "Start" => Line[j].call \in CallIds /\ Line[j].call # c)
          BY <5>1, <1>6, <1>9, ItemsOfCalls DEF ItemsFit, CallKinds
        <5>3. Line[j].kind # "Stop" /\ (Line[j].kind = "Start" => calls[Line[j].call].at = "failed")
          BY <2>1, <3>1, <4>3, <5>1 DEF AgentOrder, OrderFits, ButtonsFit
        <5>4. QED  BY <5>2, <5>3, <1>2
      <4>4. QED  BY <4>2, <4>3
    <3>2. CASE i = LineLen + 1 /\ Line'[i].kind = kind /\ Line'[i].call = c
      <4>1. /\ lifecycle = 0 /\ of = lease /\ lease # 0 /\ lease \in CallIds /\ runtime' = runtime
            /\ calls'[Line'[i].call].of = lease
        BY <3>2, <2>1, <1>1, <1>2, AgentNumbers DEF agentState, AgentTypes
      <4>2. Excused(lease, runtime)
        <5>1. SUFFICES ASSUME runtime # lease  PROVE Excused(lease, runtime)
          BY DEF Excused
        <5>2. PICK s \in CallIds : Begun(s) /\ lease < s /\ runtime \in {0, s}
          BY <4>1, <5>1 DEF AgentOrder, OrderFits, LeaseFits
        <5>3. ~BackendMade(s)
          <6>1. BackendMade(s) => s <= lease
            BY <4>1 DEF AgentOrder, OrderFits, LeaseFits
          <6>2. QED  BY <6>1, <5>2, <4>1, <1>3
        <5>4. QED  BY <4>1, <5>2, <5>3, <1>12 DEF Excused
      <4>3. Excused(calls[Line[i].call].of, runtime)'
        <5>1. Excused(calls'[Line'[i].call].of, runtime')
          BY <4>1, <4>2
        <5>2. QED  BY <5>1, <4>1, <1>11 DEF Excused
      <4>4. ASSUME NEW j \in 1 .. LineLen', j < i
            PROVE  Line'[j].kind # "Stop" /\ (Line'[j].kind = "Start" => calls'[Line'[j].call].at = "failed")
        <5>1. j \in 1 .. LineLen
          BY <3>2, <4>4, <1>3, <1>6
        <5>2. Line'[j] = Line[j] /\ Line[j].kind # "Stop"
          BY <5>1, <4>1, <1>6 DEF AgentOrder, OrderFits, StopsFit
        <5>3. ASSUME Line[j].kind = "Start"  PROVE calls'[Line[j].call].at = "failed"
          <6>1. Line[j].call \in CallIds /\ Begun(Line[j].call) /\ Line[j].call # c
            BY <5>1, <5>3, <1>9, ItemsOfCalls DEF ItemsFit, CallKinds, Begun
          <6>2. ~BackendMade(Line[j].call)
            <7>1. ~ServedUpTo(Line[j].call)
              BY <5>1, <6>1, <1>3 DEF ServedUpTo
            <7>2. QED  BY <6>1, <7>1 DEF BackendMade, AgentOrder, OrderFits, LineFits
          <6>3. QED  BY <4>1, <6>1, <6>2, <1>2, <1>12 DEF BegunInVain
        <5>4. QED  BY <5>2, <5>3
      <4>5. QED  BY <4>3, <4>4
    <3>3. QED  BY <3>1, <3>2, <1>8
  <2>2. QED  BY <2>1 DEF ButtonsFit
<1>18. ActedFits'
  <2>1. ASSUME NEW d \in CallIds, acted'[d].at # 0  PROVE (calls[d].kind = "Button" /\ Excused(calls[d].of, acted[d].on))'
    <3>1. calls[d].kind = "Button" /\ Excused(calls[d].of, acted[d].on) /\ acted' = acted
      BY <2>1, <1>1 DEF AgentOrder, OrderFits, ActedFits, agentState
    <3>2. d # c /\ calls'[d] = calls[d]
      BY <3>1, <1>2, <1>4
    <3>3. Excused(calls'[d].of, acted'[d].on)
      BY <3>1, <3>2
    <3>4. QED  BY <3>1, <3>2, <3>3, <1>11 DEF Excused
  <2>2. QED  BY <2>1 DEF ActedFits
<1>19. PipesFit'
  <2>1. \A i \in DOMAIN requests' : awaited'[requests'[i].id] \in {requests'[i].item.call, Completed'}
    BY <1>1 DEF AgentOrder, PipesFit, Completed
  <2>2. ASSUME NEW i \in DOMAIN responses', NEW d \in CallIds, awaited'[responses'[i].id] = d
        PROVE  ServedUpTo(d)' /\ calls'[d].kind # "none"
    <3>1. ServedUpTo(d) /\ calls[d].kind # "none"
      BY <2>2, <1>1 DEF AgentOrder, PipesFit
    <3>2. QED  BY <3>1, <1>2, <1>4, <1>10
  <2>3. QED  BY <2>1, <2>2 DEF PipesFit
<1>20. RuntimeFits'
  <2>1. \A d \in CallIds : calls'[d].at \in {"answered", "sent"} => calls'[d] = calls[d]
    BY <1>2
  <2>2. QED  BY <2>1, <1>1 DEF AgentOrder, RuntimeFits, agentState, Begun
<1>21. QED  BY <1>13, <1>14, <1>15, <1>16, <1>17, <1>18, <1>19, <1>20 DEF AgentOrder, OrderFits

\* Nothing is on its way at first.
LEMMA AgentBeginsInOrder == AgentInit => AgentOrder
<1> SUFFICES ASSUME AgentInit PROVE AgentOrder
  OBVIOUS
<1>1. LineLen = 0
  BY DEF AgentInit, LineLen, Committed, Piped, Prepared, Queued
<1>2. \A c \in CallIds : calls[c] = NoCall /\ NoCall.kind = "none" /\ NoCall.at = "new" /\ acted[c].at = 0
  BY DEF AgentInit, NoCall
<1>3. CallsFit
  BY <1>2 DEF AgentInit, CallsFit
<1>4. LineFits /\ StopsFit /\ LeaseFits /\ ButtonsFit /\ ActedFits
  BY <1>1, <1>2 DEF AgentInit, LineFits, StopsFit, LeaseFits, ButtonsFit, ActedFits
<1>5. PipesFit /\ RuntimeFits
  BY <1>2 DEF AgentInit, PipesFit, RuntimeFits, Begun
<1>6. QED  BY <1>3, <1>4, <1>5 DEF AgentOrder, OrderFits

\* Every step keeps the order of calls and runtimes.
LEMMA AgentKeepsOrder == AgentTypes /\ Numbered /\ AgentOrder /\ [AgentNext]_agentVars => AgentOrder'
<1> SUFFICES ASSUME AgentTypes, Numbered, AgentOrder, [AgentNext]_agentVars PROVE AgentOrder'
  OBVIOUS
<1>0. AgentTypes'
  BY AgentKeepsTyped
<1>1. ASSUME NEW c \in CallIds, CallEnds(c) \/ DropBackend(c)  PROVE AgentOrder'
  BY <1>0, <1>1, ReturnsInOrder, DropsInOrder
<1>2. ASSUME NEW c \in CallIds, NEW kind \in {"Start", "Button", "Health"}, NEW of \in {0} \cup CallIds, Request(c, kind, of)
      PROVE  AgentOrder'
  BY <1>0, <1>2, RequestsInOrder DEF CallKinds
<1>3. CASE Move
  BY <1>0, <1>3, MovesInOrder
<1>4. CASE Writer
  BY <1>0, <1>4, WriterTakesInOrder, WriterWritesInOrder, GoneInOrder DEF Writer
<1>5. CASE StopWaiting \/ TransportFails
  BY <1>0, <1>5, WaitEndsInOrder, GoneInOrder
<1>6. CASE Read \/ Serve
  BY <1>0, <1>6, ReadsInOrder, ServesInOrder
<1>7. CASE UNCHANGED agentVars
  <2>1. UNCHANGED <<calls, lifecycle, lease, items, writing, awaited, requests, responses, runtime, acted>>
    BY <1>7 DEF agentVars, agentState
  <2>2. SameOrder /\ NothingLost
    BY <1>0, <2>1, LineStays, KeptInOrder
  <2>3. OrderFits'
    BY <1>0, <2>1, <2>2, QuietlyFits DEF AgentOrder, CallsGoOn
  <2>4. \A c \in CallIds : ServedUpTo(c) => ServedUpTo(c)'
    BY <1>0, <2>2, ServedStaysServed
  <2>5. PipesFit' /\ RuntimeFits'
    BY <2>1, <2>4 DEF AgentOrder, PipesFit, RuntimeFits, Begun, Completed
  <2>6. QED  BY <2>3, <2>5 DEF AgentOrder
<1>8. QED  BY <1>1, <1>2, <1>3, <1>4, <1>5, <1>6, <1>7 DEF AgentNext

\* An excused runtime is a right one.
LEMMA OrderIsRight == ActedFits => RightRuntime
BY DEF ActedFits, RightRuntime, Excused, BegunInVain, Begun

--------------------------------------------------------------------------------
(* Where the cursor is when a button is pressed.                           *)

\* The agent's cursor has reached a position, or will have before the request at a place.
Reached(aim, i) ==
    \/ aim <= pointer
    \/ Committed < i /\ aim <= cursor.latest
    \/ \E j \in 1 .. LineLen : j < i /\ aim <= Line[j].point

PointsFit ==
    /\ cursor.latest \in {0, cursor.last} /\ pointer <= cursor.last
    /\ \A i \in 1 .. LineLen : Line[i].point # 0 => pointer <= Line[i].point /\ Line[i].point <= cursor.last
    /\ \A i, j \in 1 .. LineLen : i < j /\ Line[i].point # 0 /\ Line[j].point # 0 => Line[i].point <= Line[j].point
LastFits ==
    cursor.by # 0 =>
        /\ BackendMade(cursor.by)
        /\ clientUp /\ runtime = cursor.by => Reached(cursor.last, LineLen + 1)
OwedFits ==
    \A i \in 1 .. LineLen : Line[i].kind = "Button" /\ calls[Line[i].call].of = runtime =>
        Reached(calls[Line[i].call].aim, i)
AgentPoints == PointsFit /\ LastFits /\ OwedFits /\ ButtonAtCursor

\* A position has been settled, and only a position has one.
PointsSettled ==
    /\ pointer \in Nat /\ cursor.last \in Nat /\ cursor.latest \in Nat /\ cursor.by \in CallNumbers
    /\ \A i \in 1 .. LineLen :
          /\ Line[i].point \in Nat
          /\ Line[i].point # 0 => i <= Committed /\ Line[i].kind = "Cursor"
          /\ i <= Committed /\ Line[i].kind = "Cursor" => Line[i].point # 0

\* Positions are numbers, and only what is settled has one.
LEMMA PointsAreSettled == AgentTypes => PointsSettled
<1> SUFFICES ASSUME AgentTypes PROVE PointsSettled
  OBVIOUS
<1>1. LineTyped
  BY LineIsTyped
<1>2. cursor \in CursorStates /\ pointer \in Nat
  BY DEF AgentTypes
<1>3. ASSUME NEW i \in 1 .. LineLen
      PROVE  /\ Line[i].point \in Nat
             /\ Line[i].point # 0 => i <= Committed /\ Line[i].kind = "Cursor"
             /\ i <= Committed /\ Line[i].kind = "Cursor" => Line[i].point # 0
  <2>1. Line[i] \in AgentItems /\ Fitting(Line[i])
    BY <1>1 DEF LineTyped
  <2>2. i <= Committed => Line[i] \in SentItems
    BY <1>1 DEF LineTyped, LineSized
  <2>3. ~(i <= Committed) => Line[i] \in QueuedItems
    BY <1>1 DEF LineTyped, LineSized
  <2>4. QED  BY <2>1, <2>2, <2>3 DEF AgentItems, Fitting, SentItems, QueuedItems
<1>4. QED  BY <1>2, <1>3 DEF PointsSettled, CursorStates

\* A button on its way is of a backend that was made.
LEMMA ButtonsAreCalls ==
    ASSUME AgentTypes, AgentOrder, NEW i \in 1 .. LineLen, Line[i].kind = "Button"
    PROVE  /\ Line[i].call \in CallIds /\ calls[Line[i].call].kind = "Button"
           /\ calls[Line[i].call].of \in CallIds /\ BackendMade(calls[Line[i].call].of)
           /\ calls[Line[i].call].aim \in Nat
<1>1. Line[i].call \in CallIds /\ Line[i].call # 0
  BY ItemsOfCalls DEF ItemsFit, CallKinds
<1>2. calls[Line[i].call].kind = "Button"
  BY <1>1 DEF AgentOrder, OrderFits, LineFits
<1>3. calls[Line[i].call] \in CallRecords
  BY <1>1 DEF AgentTypes
<1>4. QED  BY <1>1, <1>2, <1>3 DEF CallRecords, AgentOrder, OrderFits, CallsFit

\* The calls that were made keep what they are for.
CallsLast ==
    /\ \A c \in CallIds : calls[c].kind # "none" =>
          calls'[c].kind = calls[c].kind /\ calls'[c].of = calls[c].of /\ calls'[c].aim = calls[c].aim
    /\ \A c \in CallIds : BackendMade(c) => BackendMade(c)'
    /\ clientUp' => clientUp
\* What is on its way stays, and no position joins it; a button only when its position is on its way.
LineExtends ==
    /\ LineLen <= LineLen' /\ Committed' = Committed
    /\ \A i \in 1 .. LineLen : Line'[i] = Line[i]
    /\ \A i \in 1 .. LineLen' : i \notin 1 .. LineLen =>
          /\ Line'[i].point = 0
          /\ Line'[i].kind = "Button" /\ calls'[Line'[i].call].of = runtime => Reached(calls'[Line'[i].call].aim, i)
\* A new position is the latest, and a backend's.
CursorMoves ==
    /\ cursor'.latest = cursor'.last /\ cursor.last <= cursor'.last
    /\ cursor'.by \in CallIds /\ BackendMade(cursor'.by)

\* What a button waits for stays before it.
LEMMA ReachedStays ==
    ASSUME AgentTypes, AgentTypes', AgentPoints, LineExtends, cursor' = cursor \/ CursorMoves, pointer' = pointer,
           NEW aim \in Nat, NEW i \in Nat, Reached(aim, i)
    PROVE  Reached(aim, i)'
<1>1. PointsSettled /\ PointsSettled' /\ LineSized /\ LineSized'
  BY PointsAreSettled, LineIsSized, PTL
<1>2. \A j \in 1 .. LineLen : j \in 1 .. LineLen' /\ Line'[j] = Line[j]
  BY <1>1 DEF LineExtends, LineSized
<1>3. Committed' = Committed
  BY DEF LineExtends
<1>4. cursor.latest <= cursor'.latest
  BY <1>1 DEF CursorMoves, PointsSettled, AgentPoints, PointsFit
<1>5. aim <= cursor.latest => aim <= cursor'.latest
  BY <1>1, <1>4 DEF PointsSettled
<1>6. QED  BY <1>2, <1>3, <1>5 DEF Reached

\* A step that only adds to the line, or to the positions.
LEMMA PointsStay ==
    ASSUME AgentTypes, AgentTypes', AgentOrder, AgentPoints, LineExtends, CallsLast,
           cursor' = cursor \/ CursorMoves, UNCHANGED <<runtime, pointer, acted>>
    PROVE  AgentPoints'
<1>1. PointsSettled /\ PointsSettled' /\ LineSized /\ LineSized'
  BY PointsAreSettled, LineIsSized, PTL
<1>2. ASSUME NEW i \in 1 .. LineLen', Line'[i].point # 0  PROVE i \in 1 .. LineLen /\ Line'[i] = Line[i]
  BY <1>2 DEF LineExtends
<1>a. PICK before \in Nat, after \in Nat, settled \in Nat :
         LineLen = before /\ LineLen' = after /\ Committed' = settled
  BY <1>1 DEF LineSized
<1>b. before <= after /\ settled <= after
  BY <1>a, <1>1 DEF LineSized, LineExtends
<1>3. cursor.last <= cursor'.last
  BY <1>1 DEF CursorMoves, PointsSettled
<1>4. PointsFit'
  <2>1. cursor'.latest \in {0, cursor'.last} /\ pointer' <= cursor'.last
    BY <1>1, <1>3 DEF CursorMoves, AgentPoints, PointsFit, PointsSettled
  <2>2. ASSUME NEW i \in 1 .. LineLen', Line'[i].point # 0
        PROVE  pointer' <= Line'[i].point /\ Line'[i].point <= cursor'.last
    <3>1. i \in 1 .. LineLen /\ Line'[i] = Line[i]
      BY <1>2, <2>2
    <3>2. pointer <= Line[i].point /\ Line[i].point <= cursor.last /\ Line[i].point \in Nat
      BY <1>1, <2>2, <3>1 DEF AgentPoints, PointsFit, PointsSettled
    <3>3. QED  BY <1>1, <1>3, <3>1, <3>2 DEF PointsSettled
  <2>3. ASSUME NEW i \in 1 .. LineLen', NEW j \in 1 .. LineLen', i < j, Line'[i].point # 0, Line'[j].point # 0
        PROVE  Line'[i].point <= Line'[j].point
    BY <1>2, <2>3 DEF AgentPoints, PointsFit
  <2>4. QED  BY <2>1, <2>2, <2>3 DEF PointsFit
<1>5. \A n \in CallNumbers : n # 0 => n \in CallIds
  BY AgentNumbers
<1>6. LastFits'
  <2>1. SUFFICES ASSUME cursor'.by # 0
                 PROVE  BackendMade(cursor.by)' /\ (clientUp' /\ runtime' = cursor'.by => Reached(cursor.last, LineLen + 1)')
    BY DEF LastFits
  <2>2. cursor'.by \in CallIds /\ BackendMade(cursor'.by)
    BY <1>1, <1>5, <2>1 DEF CursorMoves, AgentPoints, LastFits, PointsSettled
  <2>3. BackendMade(cursor.by)'
    <3>1. \A c \in CallIds : BackendMade(c) => BackendMade(c)'
      BY DEF CallsLast
    <3>2. QED  BY <2>2, <3>1 DEF BackendMade, Begun
  <2>4. ASSUME clientUp', runtime' = cursor'.by  PROVE Reached(cursor.last, LineLen + 1)'
    <3>1. CASE cursor' = cursor
      <4>1. Reached(cursor.last, LineLen + 1)
        BY <2>1, <2>4, <3>1 DEF CallsLast, AgentPoints, LastFits
      <4>a. PICK i \in Nat : i = before + 1
        OBVIOUS
      <4>b. PICK aim \in Nat : aim = cursor.last
        BY <1>1 DEF PointsSettled
      <4>2. i = LineLen + 1 /\ i = before + 1 /\ aim = cursor.last
        BY <4>a, <4>b, <1>a
      <4>3. Reached(aim, i)'
        BY <3>1, <4>1, <4>2, ReachedStays
      <4>4. aim = cursor'.last
        BY <3>1, <4>2
      <4>5. i <= after + 1 /\ (settled < i => settled < after + 1) /\ \A j \in 1 .. after : j < i => j < after + 1
        BY <1>a, <1>b, <4>2
      <4>6. Reached(aim, after + 1)'
        BY <4>3, <4>5, <1>a DEF Reached
      <4>7. QED  BY <4>4, <4>6, <1>a DEF Reached
    <3>2. CASE CursorMoves
      <4>1. settled < after + 1
        BY <1>b
      <4>2. cursor'.last <= cursor'.latest
        BY <3>2, <1>1 DEF CursorMoves, PointsSettled
      <4>3. QED  BY <4>1, <4>2, <1>a DEF Reached
    <3>3. QED  BY <3>1, <3>2
  <2>5. QED  BY <2>3, <2>4
<1>7. OwedFits'
  <2>1. ASSUME NEW i \in 1 .. LineLen', Line'[i].kind = "Button", calls'[Line'[i].call].of = runtime'
        PROVE  Reached(calls[Line[i].call].aim, i)'
    <3>1. CASE i \in 1 .. LineLen
      <4>1. Line'[i] = Line[i]
        BY <3>1 DEF LineExtends
      <4>2. Line[i].call \in CallIds /\ calls[Line[i].call].kind = "Button" /\ calls[Line[i].call].aim \in Nat
        BY <2>1, <3>1, <4>1, ButtonsAreCalls
      <4>3. calls'[Line'[i].call].of = calls[Line[i].call].of /\ calls'[Line'[i].call].aim = calls[Line[i].call].aim
        BY <4>1, <4>2 DEF CallsLast
      <4>4. Reached(calls[Line[i].call].aim, i)
        BY <2>1, <3>1, <4>1, <4>3 DEF AgentPoints, OwedFits
      <4>5. PICK aim \in Nat : aim = calls[Line[i].call].aim
        BY <4>2
      <4>6. Reached(aim, i)'
        BY <4>4, <4>5, ReachedStays
      <4>7. QED  BY <4>3, <4>5, <4>6 DEF Reached
    <3>2. CASE i \notin 1 .. LineLen
      <4>1. Reached(calls'[Line'[i].call].aim, i)
        BY <2>1, <3>2 DEF LineExtends
      <4>2. PICK aim \in Nat : aim = calls'[Line'[i].call].aim
        <5>1. Line'[i].call \in CallIds
          <6>1. ItemsFit'
            BY ItemsOfCalls, PTL
          <6>2. QED  BY <2>1, <6>1 DEF ItemsFit, CallKinds
        <5>2. calls'[Line'[i].call] \in CallRecords
          BY <5>1 DEF AgentTypes
        <5>3. QED  BY <5>2 DEF CallRecords
      <4>3. Reached(aim, i)'
        BY <4>1, <4>2, ReachedStays
      <4>4. QED  BY <4>2, <4>3 DEF Reached
    <3>3. QED  BY <3>1, <3>2
  <2>2. QED  BY <2>1 DEF OwedFits
<1>8. ButtonAtCursor'
  <2>1. ASSUME NEW c \in CallIds, acted'[c].on = calls'[c].of, acted'[c].at # 0  PROVE calls'[c].aim < acted'[c].at
    <3>1. calls[c].kind = "Button" /\ acted' = acted
      BY <2>1 DEF AgentOrder, OrderFits, ActedFits
    <3>2. calls'[c].of = calls[c].of /\ calls'[c].aim = calls[c].aim
      BY <3>1 DEF CallsLast
    <3>3. QED  BY <2>1, <3>1, <3>2 DEF AgentPoints, ButtonAtCursor
  <2>2. QED  BY <2>1 DEF ButtonAtCursor
<1>9. QED  BY <1>4, <1>6, <1>7, <1>8 DEF AgentPoints

\* A call ends or is passed on; what is under way stays or goes with its client.
LEMMA QuietPoints ==
    ASSUME AgentTypes, AgentTypes', AgentOrder, AgentPoints, CallsLast, UNCHANGED <<cursor, runtime, pointer, acted>>,
           LineKept \/ (LineLen' = 0 /\ ~clientUp')
    PROVE  AgentPoints'
<1>1. CASE LineKept
  <2>1. LineSized /\ LineSized'
    BY LineIsSized, PTL
  <2>2. LineExtends
    BY <1>1, <2>1 DEF LineKept, LineExtends, LineSized
  <2>3. QED  BY <2>2, PointsStay
<1>2. CASE LineLen' = 0 /\ ~clientUp'
  <2>1. PointsFit'
    BY <1>2 DEF AgentPoints, PointsFit
  <2>2. LastFits'
    <3>1. cursor.by # 0 => cursor.by \in CallIds /\ BackendMade(cursor.by)
      BY PointsAreSettled, AgentNumbers DEF PointsSettled, AgentPoints, LastFits
    <3>2. cursor'.by # 0 => BackendMade(cursor.by)'
      BY <3>1 DEF CallsLast, BackendMade, Begun
    <3>3. QED  BY <3>2, <1>2 DEF LastFits
  <2>3. OwedFits'
    BY <1>2 DEF OwedFits
  <2>4. ButtonAtCursor'
    <3>1. ASSUME NEW c \in CallIds, acted'[c].on = calls'[c].of, acted'[c].at # 0  PROVE calls'[c].aim < acted'[c].at
      <4>1. calls[c].kind = "Button"
        BY <3>1 DEF AgentOrder, OrderFits, ActedFits
      <4>2. calls'[c].of = calls[c].of /\ calls'[c].aim = calls[c].aim
        BY <4>1 DEF CallsLast
      <4>3. QED  BY <3>1, <4>2 DEF AgentPoints, ButtonAtCursor
    <3>2. QED  BY <3>1 DEF ButtonAtCursor
  <2>5. QED  BY <2>1, <2>2, <2>3, <2>4 DEF AgentPoints
<1>3. QED  BY <1>1, <1>2

\* What a told or ended call keeps.
LEMMA CallsGoOnLast ==
    ASSUME \A c \in CallIds : /\ calls'[c].kind = calls[c].kind /\ calls'[c].of = calls[c].of
                              /\ calls'[c].aim = calls[c].aim
                              /\ calls[c].at \in {"done", "dropped"} => calls'[c].at \in {"done", "dropped"},
           clientUp' => clientUp
    PROVE  CallsLast
BY DEF CallsLast, BackendMade, Begun

\* A call ends.
LEMMA CallsEndAtPoints ==
    ASSUME AgentTypes, AgentTypes', AgentOrder, AgentPoints, NEW c \in CallIds, CallEnds(c)
    PROVE  AgentPoints'
<1>1. PICK well \in BOOLEAN : Return(c, well) /\ calls[c].at \in {"queued", "answered", "refused"}
  BY DEF CallEnds, DispatchFails, CallReturns
<1>2. UNCHANGED <<items, cursor, writing, awaited, requests, responses, agentState>>
  BY DEF CallEnds, DispatchFails, CallReturns
<1>3. PICK stage \in CallStages : calls' = [calls EXCEPT ![c].at = stage]
  BY <1>1 DEF Return, CallStages
<1>4. \A d \in CallIds : /\ calls'[d].kind = calls[d].kind /\ calls'[d].of = calls[d].of
                         /\ calls'[d].aim = calls[d].aim
                         /\ calls[d].at \in {"done", "dropped"} => calls'[d].at \in {"done", "dropped"}
  <2>1. calls \in [CallIds -> CallRecords]
    BY DEF AgentTypes
  <2>2. calls[c] \in CallRecords
    BY <2>1
  <2>3. QED  BY <1>1, <1>3, <2>1, <2>2 DEF CallRecords
<1>5. clientUp' => clientUp
  BY <1>1 DEF Return
<1>6. LineKept
  BY <1>2, LineStays
<1>7. QED  BY <1>2, <1>4, <1>5, <1>6, CallsGoOnLast, QuietPoints DEF agentState

\* A backend is dropped.
LEMMA DropsAtPoints ==
    ASSUME AgentTypes, AgentTypes', AgentOrder, AgentPoints, NEW b \in CallIds, DropBackend(b)
    PROVE  AgentPoints'
<1>1. /\ calls[b].at = "done" /\ calls' = [calls EXCEPT ![b].at = "dropped"]
      /\ items' = items \/ items' = Append(items, StopItem)
      /\ UNCHANGED <<clientUp, lifecycle, cursor, writing, awaited, requests, responses, agentState>>
  BY DEF DropBackend
<1>2. CallsLast
  <2>1. calls \in [CallIds -> CallRecords]
    BY DEF AgentTypes
  <2>2. calls[b] \in CallRecords
    BY <2>1
  <2>3. \A d \in CallIds : /\ calls'[d].kind = calls[d].kind /\ calls'[d].of = calls[d].of
                           /\ calls'[d].aim = calls[d].aim
                           /\ calls[d].at \in {"done", "dropped"} => calls'[d].at \in {"done", "dropped"}
    BY <1>1, <2>1, <2>2 DEF CallRecords
  <2>4. QED  BY <1>1, <2>3, CallsGoOnLast
<1>3. LineSized /\ LineSized'
  BY LineIsSized, PTL
<1>4. CASE items' = items
  <2>1. LineKept
    BY <1>1, <1>4, LineStays
  <2>2. QED  BY <1>1, <1>2, <2>1, QuietPoints DEF agentState
<1>5. CASE items' = Append(items, StopItem)
  <2>1. LineGrows(StopItem)
    BY <1>1, <1>5, QueueGrows, AgentItemTypes
  <2>2. StopItem.point = 0 /\ StopItem.kind = "Stop"
    BY DEF StopItem
  <2>3. LineExtends
    BY <1>3, <2>1, <2>2 DEF LineGrows, LineExtends, LineSized
  <2>4. QED  BY <1>1, <1>2, <2>3, PointsStay DEF agentState
<1>6. QED  BY <1>1, <1>4, <1>5

\* A position is given.
LEMMA MovesAtPoints ==
    ASSUME AgentTypes, AgentTypes', AgentOrder, AgentPoints, Move
    PROVE  AgentPoints'
<1>1. /\ items' = items \/ items' = Append(items, CursorItem)
      /\ lease # 0
      /\ UNCHANGED <<clientUp, calls, lifecycle, lease, writing, awaited, requests, responses, agentState>>
  BY DEF Move
<1>2. CallsLast
  BY <1>1 DEF CallsLast, BackendMade, Begun
<1>3. LineSized /\ LineSized'
  BY LineIsSized, PTL
<1>4. CursorMoves
  <2>1. cursor'.latest = cursor.last + 1 /\ cursor'.last = cursor.last + 1 /\ cursor'.by = lease
    BY DEF Move
  <2>2. cursor.last <= cursor.last + 1
    BY PointsAreSettled DEF PointsSettled
  <2>3. lease \in CallIds /\ BackendMade(lease)
    BY <1>1, AgentNumbers DEF AgentTypes, AgentOrder, OrderFits, LeaseFits, BackendMade
  <2>4. QED  BY <2>1, <2>2, <2>3 DEF CursorMoves
<1>5. LineExtends
  <2>1. CASE items' = items
    <3>1. LineKept
      BY <1>1, <2>1, LineStays
    <3>2. QED  BY <1>3, <3>1 DEF LineKept, LineExtends, LineSized
  <2>2. CASE items' = Append(items, CursorItem)
    <3>1. LineGrows(CursorItem)
      BY <1>1, <2>2, QueueGrows, AgentItemTypes
    <3>2. CursorItem.point = 0 /\ CursorItem.kind = "Cursor"
      BY DEF CursorItem
    <3>3. QED  BY <1>3, <3>1, <3>2 DEF LineGrows, LineExtends, LineSized
  <2>3. QED  BY <1>1, <2>1, <2>2
<1>6. QED  BY <1>1, <1>2, <1>4, <1>5, PointsStay DEF agentState

\* A button waits behind the last position its backend gave.
LEMMA RequestsAtPoints ==
    ASSUME AgentTypes, AgentTypes', AgentOrder, AgentPoints, NEW c \in CallIds, NEW kind \in CallKinds,
           NEW of \in {0} \cup CallIds, Request(c, kind, of)
    PROVE  AgentPoints'
<1>1. /\ calls[c] = NoCall /\ clientUp /\ (kind = "Button" => of # 0)
      /\ items' = Append(items, CallItem(c, kind))
      /\ UNCHANGED <<clientUp, lease, cursor, writing, awaited, requests, responses, agentState>>
  BY DEF Request
<1>2. /\ calls'[c].of = of /\ calls'[c].aim = (IF cursor.by = of THEN cursor.last ELSE 0)
      /\ \A d \in CallIds : d # c => calls'[d] = calls[d]
  BY DEF Request, AgentTypes
<1>3. LineSized /\ LineSized' /\ PointsSettled
  BY LineIsSized, PointsAreSettled, PTL
<1>4. CallsLast
  <2>1. calls[c].kind = "none"
    BY <1>1 DEF NoCall
  <2>2. QED  BY <1>1, <1>2, <2>1 DEF CallsLast, BackendMade, Begun
<1>5. LineGrows(CallItem(c, kind))
  BY <1>1, QueueGrows, AgentItemTypes
<1>6. /\ CallItem(c, kind).point = 0 /\ CallItem(c, kind).kind = kind /\ CallItem(c, kind).call = c
  BY DEF CallItem
<1>7. ASSUME kind = "Button", of = runtime  PROVE Reached(calls'[c].aim, LineLen + 1)
  <2>1. CASE cursor.by = of
    BY <1>1, <1>2, <1>7, <2>1 DEF AgentPoints, LastFits
  <2>2. CASE cursor.by # of
    BY <1>2, <1>3, <2>2 DEF Reached, PointsSettled
  <2>3. QED  BY <2>1, <2>2
<1>8. LineExtends
  <2>1. ASSUME NEW i \in 1 .. LineLen', i \notin 1 .. LineLen
        PROVE  /\ Line'[i].point = 0
               /\ Line'[i].kind = "Button" /\ calls'[Line'[i].call].of = runtime => Reached(calls'[Line'[i].call].aim, i)
    <3>1. i = LineLen + 1 /\ Line'[i] = CallItem(c, kind)
      BY <2>1, <1>3, <1>5 DEF LineGrows, LineSized
    <3>2. QED  BY <3>1, <1>2, <1>6, <1>7
  <2>2. QED  BY <2>1, <1>3, <1>5 DEF LineGrows, LineExtends, LineSized
<1>9. QED  BY <1>1, <1>4, <1>8, PointsStay DEF agentState

\* A call that is passed on or told of its end was on its way, and keeps what it is for.
LEMMA ToldCallsLast ==
    ASSUME AgentTypes, Numbered, Write \/ StopWaiting \/ Read \/ WriterLeaves \/ TransportFails
    PROVE  CallsLast
<1>1. ASSUME NEW d \in CallIds
      PROVE  calls'[d] = calls[d] \/ (calls[d].at \in {"queued", "sent"} /\ \E how \in CallStages : calls'[d] = [calls[d] EXCEPT !.at = how])
  <2>1. ASSUME NEW w, NEW how \in {"answered", "refused"}, calls' = Tell(w, how)
        PROVE  calls'[d] = calls[d] \/ (calls[d].at \in {"queued", "sent"} /\ calls'[d] = [calls[d] EXCEPT !.at = how])
    BY <2>1 DEF Tell, AgentTypes
  <2>2. {"answered", "refused", "sent"} \subseteq CallStages
    BY DEF CallStages
  <2>3. CASE Write
    <3>1. calls' = calls \/ \E c \in CallIds : calls[c].at = "queued" /\ calls' = [calls EXCEPT ![c].at = "sent"]
      <4> DEFINE item == Head(writing.rest)
      <4>1. item \in SentItems /\ writing.rest # <<>>
        BY <2>3, HeadTailProperties DEF Write, AgentTypes, WriterStates
      <4>2. item.call # 0 => item.call \in CallIds
        BY <4>1, AgentNumbers DEF SentItems, AgentItems
      <4>3. calls' = calls \/ (item.call # 0 /\ calls[item.call].at = "queued" /\ calls' = [calls EXCEPT ![item.call].at = "sent"])
        BY <2>3 DEF Write
      <4>4. QED  BY <4>2, <4>3
    <3>2. QED  BY <2>2, <3>1 DEF AgentTypes
  <2>4. CASE StopWaiting
    BY <2>1, <2>2, <2>4 DEF StopWaiting, Complete
  <2>5. CASE Read
    <3>1. calls' = calls \/ \E w \in {awaited[Head(responses).id]}, how \in {"answered", "refused"} : calls' = Tell(w, how)
      BY <2>5 DEF Read, Complete
    <3>2. QED  BY <2>1, <2>2, <3>1
  <2>6. CASE WriterLeaves
    BY <2>6 DEF WriterLeaves
  <2>7. CASE TransportFails
    BY <2>2, <2>7 DEF TransportFails
  <2>8. QED  BY <2>3, <2>4, <2>5, <2>6, <2>7
<1>2. \A d \in CallIds : /\ calls'[d].kind = calls[d].kind /\ calls'[d].of = calls[d].of
                         /\ calls'[d].aim = calls[d].aim
                         /\ calls[d].at \in {"done", "dropped"} => calls'[d].at \in {"done", "dropped"}
  <2>1. \A d \in CallIds : calls[d] \in CallRecords
    BY DEF AgentTypes
  <2>2. QED  BY <1>1, <2>1 DEF CallRecords
<1>3. clientUp' => clientUp
  BY DEF Write, StopWaiting, Read, WriterLeaves, TransportFails
<1>4. QED  BY <1>2, <1>3, CallsGoOnLast

\* Writing, reading and waiting move no position.
LEMMA PassesOnAtPoints ==
    ASSUME AgentTypes, AgentTypes', Numbered, AgentOrder, AgentPoints,
           Write \/ StopWaiting \/ Read \/ WriterLeaves \/ TransportFails
    PROVE  AgentPoints'
<1>1. UNCHANGED <<cursor, runtime, pointer, acted>>
  BY DEF Write, StopWaiting, Read, WriterLeaves, TransportFails, agentState
<1>2. LineKept \/ (LineLen' = 0 /\ ~clientUp')
  <2>1. CASE Write
    BY <2>1, LineWrites
  <2>2. CASE StopWaiting \/ Read
    <3>1. UNCHANGED <<requests, items>> /\ writing'.rest = writing.rest
      BY <2>2 DEF StopWaiting, TooLate, Read, Complete, AgentTypes, WriterStates
    <3>2. QED  BY <3>1, LineStays
  <2>3. CASE WriterLeaves \/ TransportFails
    BY <2>3, GoneInOrder DEF WriterLeaves, TransportFails
  <2>4. QED  BY <2>1, <2>2, <2>3
<1>3. QED  BY <1>1, <1>2, ToldCallsLast, QuietPoints

\* The latest position is settled before a button that was given behind it.
LEMMA TakesAtPoints ==
    ASSUME AgentTypes, AgentTypes', AgentOrder, AgentPoints, Take \/ Tick
    PROVE  AgentPoints'
<1>1. PICK added \in {0, 1}, gone \in {0, 1}, more \in 0 .. 2 : LineSettles(added, gone, more)
  BY LineIsTaken
<1>2. LineSized /\ LineSized' /\ PointsSettled /\ PointsSettled'
  BY LineIsSized, PointsAreSettled, PTL
<1>3. UNCHANGED <<clientUp, calls, runtime, pointer, acted>>
  BY DEF Take, Tick, agentState
<1>4. PICK before \in Nat, after \in Nat, settled \in Nat, last \in Nat, latest \in Nat :
         LineLen = before /\ LineLen' = after /\ Committed = settled /\ cursor.last = last /\ cursor.latest = latest
  BY <1>2 DEF LineSized, PointsSettled
<1>5. /\ after = before + added - gone /\ Committed' = settled + more
      /\ settled + gone <= before /\ settled + added <= after /\ latest \in {0, last} /\ pointer <= last /\ pointer \in Nat
  BY <1>1, <1>2, <1>4 DEF LineSettles, AgentPoints, PointsFit, PointsSettled
<1>6. /\ \A i \in 1 .. settled : Line'[i] = Line[i]
      /\ \A i \in (settled + added + 1) .. after : Line'[i] = Line[i + gone - added]
      /\ added = 1 => latest # 0 /\ Line'[settled + 1] = PointItem(latest) /\ cursor' = Flushed
      /\ cursor' = cursor \/ cursor' = Flushed
      /\ cursor' # cursor => added = 1 \/ latest = 0
      /\ more = added \/ more = added + 1
      /\ gone = 1 => Line[settled + 1].kind = "Cursor" /\ more = added
      /\ more = added + 1 => /\ settled < before /\ Line[settled + 1].kind # "Cursor"
                             /\ Line[settled + 1].kind = "Button" => added = 1 \/ latest = 0
  BY <1>1, <1>4 DEF LineSettles
<1>7. /\ cursor'.last = last /\ cursor'.by = cursor.by /\ cursor'.latest \in {0, latest}
      /\ cursor' = cursor => cursor'.latest = latest
  BY <1>4, <1>6 DEF Flushed, AgentTypes, CursorStates
<1>8. PointItem(latest).point = latest /\ PointItem(latest).kind = "Cursor"
  BY DEF PointItem
<1>9. ASSUME NEW i \in 1 .. before, Line[i].point # 0
      PROVE  /\ i <= settled /\ i \in 1 .. after /\ Line'[i] = Line[i] /\ Line[i].point \in Nat
             /\ pointer <= Line[i].point /\ Line[i].point <= last
  BY <1>9, <1>2, <1>4, <1>5, <1>6 DEF PointsSettled, AgentPoints, PointsFit
<1>10. ASSUME NEW i \in 1 .. after
       PROVE  \/ i <= settled /\ i \in 1 .. before /\ Line'[i] = Line[i]
              \/ i = settled + 1 /\ added = 1 /\ Line'[i] = PointItem(latest)
              \/ /\ settled + added < i /\ i + gone - added \in 1 .. before /\ settled < i + gone - added
                 /\ Line'[i] = Line[i + gone - added]
  <2>1. CASE i <= settled
    BY <2>1, <1>5, <1>6
  <2>2. CASE i = settled + 1 /\ added = 1
    BY <2>2, <1>6
  <2>3. CASE ~(i <= settled) /\ ~(i = settled + 1 /\ added = 1)
    <3>1. i \in (settled + added + 1) .. after
      BY <2>3
    <3>2. i + gone - added \in 1 .. before /\ settled < i + gone - added /\ settled + added < i
      BY <3>1, <1>5
    <3>3. QED  BY <3>1, <3>2, <1>6
  <2>4. QED  BY <2>1, <2>2, <2>3
<1>11. ASSUME NEW i \in 1 .. after, Line'[i].point # 0
       PROVE  \/ i <= settled /\ i \in 1 .. before /\ Line'[i] = Line[i]
              \/ i = settled + 1 /\ added = 1 /\ Line'[i].point = latest
  <2>1. ASSUME NEW k \in 1 .. before, settled < k, Line'[i] = Line[k]  PROVE FALSE
    BY <2>1, <1>9, <1>11
  <2>2. QED  BY <2>1, <1>8, <1>10
<1>12. PointsFit'
  <2>1. cursor'.latest \in {0, cursor'.last} /\ pointer' <= cursor'.last
    BY <1>3, <1>5, <1>7
  <2>2. ASSUME NEW i \in 1 .. LineLen', Line'[i].point # 0
        PROVE  pointer' <= Line'[i].point /\ Line'[i].point <= cursor'.last
    BY <2>2, <1>3, <1>4, <1>5, <1>6, <1>7, <1>9, <1>11
  <2>3. ASSUME NEW i \in 1 .. LineLen', NEW j \in 1 .. LineLen', i < j, Line'[i].point # 0, Line'[j].point # 0
        PROVE  Line'[i].point <= Line'[j].point
    <3>1. i \in 1 .. after /\ j \in 1 .. after
      BY <1>4
    <3>2. CASE j <= settled /\ j \in 1 .. before /\ Line'[j] = Line[j]
      <4>1. i <= settled /\ i \in 1 .. before
        BY <2>3, <3>1, <3>2
      <4>2. Line'[i] = Line[i]
        BY <4>1, <1>6
      <4>3. QED  BY <2>3, <3>2, <4>1, <4>2, <1>4 DEF AgentPoints, PointsFit
    <3>3. CASE j = settled + 1 /\ added = 1 /\ Line'[j].point = latest
      <4>1. i <= settled /\ i \in 1 .. before /\ Line'[i] = Line[i]
        BY <2>3, <3>1, <3>3, <1>11
      <4>2. latest = last
        BY <3>3, <1>5, <1>6
      <4>3. QED  BY <2>3, <3>3, <4>1, <4>2, <1>9
    <3>4. QED  BY <2>3, <3>1, <3>2, <3>3, <1>11
  <2>4. QED  BY <2>1, <2>2, <2>3 DEF PointsFit
\* A position that is on its way stays on its way, or is settled.
<1>13. ASSUME NEW aim \in Nat, aim <= latest, aim # 0
       PROVE  \/ added = 1 /\ settled + 1 \in 1 .. after /\ aim <= Line'[settled + 1].point
              \/ added = 0 /\ cursor' = cursor
  BY <1>13, <1>4, <1>5, <1>6, <1>8
<1>14. LastFits'
  <2>1. BackendMade(cursor.by)' <=> BackendMade(cursor.by)
    BY <1>3, <1>7 DEF BackendMade, Begun
  <2>2. ASSUME Reached(last, before + 1)  PROVE Reached(last, after + 1)'
    <3>1. CASE last <= pointer
      BY <3>1, <1>3 DEF Reached
    <3>2. CASE last <= latest /\ last # 0
      <4>1. CASE added = 1 /\ settled + 1 \in 1 .. after /\ last <= Line'[settled + 1].point
        <5>1. settled + 1 < after + 1
          BY <4>1
        <5>2. QED  BY <4>1, <5>1, <1>4 DEF Reached
      <4>2. CASE added = 0 /\ cursor' = cursor
        <5>1. Committed' < after + 1
          BY <1>2, <1>4 DEF LineSized
        <5>2. QED  BY <3>2, <4>2, <5>1, <1>7 DEF Reached
      <4>3. QED  BY <3>2, <4>1, <4>2, <1>13
    <3>3. CASE last # 0 /\ \E j \in 1 .. before : last <= Line[j].point
      <4>1. PICK j \in 1 .. before : last <= Line[j].point
        BY <3>3
      <4>2. Line[j].point # 0
        BY <3>3, <4>1
      <4>3. j \in 1 .. after /\ Line'[j] = Line[j] /\ j < after + 1
        BY <4>2, <1>9
      <4>4. QED  BY <4>1, <4>3, <1>4 DEF Reached
    <3>4. last = 0 => last <= pointer
      BY <1>5
    <3>5. QED  BY <2>2, <3>1, <3>2, <3>3, <3>4, <1>4 DEF Reached
  <2>3. cursor.by # 0 /\ clientUp /\ runtime = cursor.by => Reached(last, before + 1)
    BY <1>4 DEF AgentPoints, LastFits
  <2>4. cursor'.by # 0 /\ clientUp' /\ runtime' = cursor'.by => Reached(cursor.last, LineLen + 1)'
    <3>1. SUFFICES ASSUME Reached(last, after + 1)'  PROVE Reached(cursor.last, LineLen + 1)'
      BY <2>2, <2>3, <1>3, <1>7
    <3>2. QED  BY <3>1, <1>4, <1>7 DEF Reached
  <2>5. QED  BY <2>1, <2>4, <1>7 DEF LastFits, AgentPoints
<1>15. OwedFits'
  <2>1. ASSUME NEW i \in 1 .. LineLen', Line'[i].kind = "Button", calls'[Line'[i].call].of = runtime'
        PROVE  Reached(calls[Line[i].call].aim, i)'
    <3>0. i \in 1 .. after /\ Line'[i].kind # "Cursor"
      BY <2>1, <1>4
    <3>1. PICK k \in 1 .. before : /\ Line'[i] = Line[k]
                                   /\ \/ i <= settled /\ k = i
                                      \/ settled + added < i /\ settled < k /\ k = i + gone - added
      BY <3>0, <1>8, <1>10
    <3>2. PICK aim \in Nat : aim = calls[Line[k].call].aim
      BY <2>1, <3>1, <1>4, ButtonsAreCalls
    <3>3. Reached(aim, k)
      BY <2>1, <3>1, <3>2, <1>3, <1>4 DEF AgentPoints, OwedFits
    <3>4. ASSUME aim <= pointer  PROVE Reached(aim, i)'
      BY <3>4, <1>3 DEF Reached
    <3>5. ASSUME aim # 0, settled < k, aim <= latest  PROVE Reached(aim, i)'
      <4>1. settled + added < i
        BY <3>1, <3>5
      <4>2. CASE added = 1 /\ settled + 1 \in 1 .. after /\ aim <= Line'[settled + 1].point
        <5>1. settled + 1 < i
          BY <4>1, <4>2
        <5>2. QED  BY <4>2, <5>1, <1>4 DEF Reached
      <4>3. CASE added = 0 /\ cursor' = cursor
        <5>1. settled + more < i
          <6>1. CASE more = 0
            BY <6>1, <4>1, <4>3
          <6>2. CASE more = 1
            <7>1. settled < before /\ Line[settled + 1].kind # "Cursor"
                  /\ ~(Line[settled + 1].kind = "Button") /\ gone # 1
              BY <3>5, <4>3, <6>2, <1>6
            <7>2. k = i
              BY <3>1, <3>5, <4>3, <7>1
            <7>3. i # settled + 1
              BY <2>1, <3>1, <7>1, <7>2
            <7>4. QED  BY <4>1, <4>3, <6>2, <7>3
          <6>3. QED  BY <4>3, <6>1, <6>2, <1>6
        <5>2. Committed' < i /\ aim <= cursor'.latest
          BY <5>1, <3>5, <4>3, <1>5, <1>7
        <5>3. QED  BY <5>2 DEF Reached
      <4>4. QED  BY <3>5, <4>2, <4>3, <1>13
    <3>6. ASSUME aim # 0, \E j \in 1 .. before : j < k /\ aim <= Line[j].point  PROVE Reached(aim, i)'
      <4>1. PICK j \in 1 .. before : j < k /\ aim <= Line[j].point
        BY <3>6
      <4>2. Line[j].point # 0
        BY <3>6, <4>1
      <4>3. j \in 1 .. after /\ Line'[j] = Line[j] /\ j <= settled
        BY <4>2, <1>9
      <4>4. j < i
        BY <3>1, <4>1, <4>3
      <4>5. QED  BY <4>1, <4>3, <4>4, <1>4 DEF Reached
    <3>7. Reached(aim, i)'
      <4>1. aim = 0 => aim <= pointer
        BY <1>5
      <4>2. QED  BY <4>1, <3>3, <3>4, <3>5, <3>6, <1>4 DEF Reached
    <3>8. calls'[Line'[i].call].aim = aim
      BY <3>1, <3>2, <1>3
    <3>9. QED  BY <3>7, <3>8 DEF Reached
  <2>2. QED  BY <2>1 DEF OwedFits
<1>16. ButtonAtCursor'
  BY <1>3 DEF AgentPoints, ButtonAtCursor
<1>17. QED  BY <1>12, <1>14, <1>15, <1>16 DEF AgentPoints

\* The agent serves the first: its cursor follows the positions in their order.
LEMMA ServesAtPoints ==
    ASSUME AgentTypes, AgentTypes', AgentOrder, AgentPoints, Serve
    PROVE  AgentPoints'
<1> DEFINE item == Head(requests).item
<1>1. LineServed /\ Line[1] = item
  BY LineServes
<1>2. LineSized /\ LineSized' /\ PointsSettled /\ PointsSettled'
  BY LineIsSized, PointsAreSettled, PTL
<1>3. UNCHANGED <<clientUp, calls, cursor>>
  BY DEF Serve
<1>4. \/ item.kind = "Start" /\ runtime' \in {0, item.call} /\ UNCHANGED <<pointer, acted>>
      \/ item.kind = "Stop" /\ runtime' = 0 /\ UNCHANGED <<pointer, acted>>
      \/ item.kind = "Health" /\ UNCHANGED <<runtime, pointer, acted>>
      \/ item.kind = "Cursor" /\ UNCHANGED <<runtime, acted>> /\ pointer' = IF runtime # 0 THEN item.point ELSE pointer
      \/ /\ item.kind = "Button" /\ UNCHANGED <<runtime, pointer>>
         /\ acted' = [acted EXCEPT ![item.call] = [on |-> runtime, at |-> pointer + 1]]
  <2>1. CASE item.kind = "Start"
    BY <2>1 DEF Serve
  <2>2. CASE item.kind = "Stop"
    BY <2>2 DEF Serve
  <2>3. CASE item.kind = "Health"
    BY <2>3 DEF Serve, agentState
  <2>4. CASE item.kind = "Cursor"
    BY <2>4 DEF Serve
  <2>5. CASE item.kind = "Button"
    BY <2>5 DEF Serve
  <2>6. QED  BY <2>1, <2>2, <2>3, <2>4, <2>5 DEF Serve
<1> HIDE DEF item
<1>5. PICK after \in Nat, settled \in Nat, last \in Nat, latest \in Nat :
         LineLen' = after /\ Committed' = settled /\ cursor.last = last /\ cursor.latest = latest
  BY <1>2 DEF LineSized, PointsSettled
<1>6. /\ LineLen = after + 1 /\ Committed = settled + 1 /\ settled <= after
      /\ \A i \in 1 .. after : Line'[i] = Line[i + 1] /\ i + 1 \in 1 .. after + 1 /\ 1 < i + 1
      /\ cursor'.last = last /\ cursor'.latest = latest /\ cursor'.by = cursor.by
  BY <1>1, <1>2, <1>3, <1>5 DEF LineServed, LineSized
<1>7. /\ 1 \in 1 .. after + 1 /\ item.point \in Nat
      /\ item.point # 0 <=> item.kind = "Cursor"
      /\ item.point # 0 => pointer <= item.point /\ item.point <= last
      /\ pointer \in Nat /\ pointer <= last /\ latest \in {0, last}
  <2>1. 1 \in 1 .. after + 1 /\ 1 <= Committed
    BY <1>6
  <2>2. QED  BY <1>1, <1>2, <1>5, <1>6, <2>1 DEF PointsSettled, AgentPoints, PointsFit
<1>8. /\ pointer' \in Nat /\ pointer <= pointer' /\ pointer' <= last
      /\ pointer' = pointer \/ (pointer' = item.point /\ item.point # 0)
  BY <1>2, <1>4, <1>7 DEF PointsSettled
\* The runtime of a backend that was made is never made again.
<1>9. ASSUME NEW b \in CallIds, BackendMade(b), runtime' = b
      PROVE  runtime = b /\ item.point <= pointer'
  <2>1. b # 0 /\ b \in Nat
    BY AgentNumbers
  <2>2. ServedUpTo(b)
    BY <1>9 DEF BackendMade, AgentOrder, OrderFits, LineFits
  <2>3. item.call # b
    <3>1. item.call = 0 \/ b < item.call
      BY <2>2, <1>1, <1>6, <1>7 DEF ServedUpTo
    <3>2. QED  BY <2>1, <3>1
  <2>4. QED  BY <2>1, <2>3, <1>4, <1>7, <1>8, <1>9
<1>10. PointsFit'
  <2>1. cursor'.latest \in {0, cursor'.last} /\ pointer' <= cursor'.last
    BY <1>6, <1>7, <1>8
  <2>2. ASSUME NEW i \in 1 .. LineLen', Line'[i].point # 0
        PROVE  pointer' <= Line'[i].point /\ Line'[i].point <= cursor'.last
    <3>1. i \in 1 .. after /\ i + 1 \in 1 .. LineLen /\ Line'[i] = Line[i + 1] /\ 1 < i + 1 /\ 1 \in 1 .. LineLen
      BY <1>5, <1>6, <1>7
    <3>2. pointer <= Line[i + 1].point /\ Line[i + 1].point <= last
      BY <2>2, <3>1, <1>5 DEF AgentPoints, PointsFit
    <3>3. item.point # 0 => item.point <= Line[i + 1].point
      BY <2>2, <3>1, <1>1 DEF AgentPoints, PointsFit
    <3>4. QED  BY <3>1, <3>2, <3>3, <1>6, <1>8
  <2>3. ASSUME NEW i \in 1 .. LineLen', NEW j \in 1 .. LineLen', i < j, Line'[i].point # 0, Line'[j].point # 0
        PROVE  Line'[i].point <= Line'[j].point
    <3>1. i + 1 < j + 1 /\ i + 1 \in 1 .. LineLen /\ j + 1 \in 1 .. LineLen /\ Line'[i] = Line[i + 1] /\ Line'[j] = Line[j + 1]
      BY <2>3, <1>5, <1>6
    <3>2. QED  BY <2>3, <3>1 DEF AgentPoints, PointsFit
  <2>4. QED  BY <2>1, <2>2, <2>3 DEF PointsFit
\* For a backend whose runtime goes on, what was to be reached is reached one place earlier.
<1>11. ASSUME NEW aim \in Nat, NEW i \in Nat, NEW k \in Nat, k = i + 1, i # 0, Reached(aim, k), item.point <= pointer'
       PROVE  Reached(aim, i)'
  <2>1. CASE aim <= pointer
    <3>1. aim <= pointer'
      BY <2>1, <1>7, <1>8
    <3>2. QED  BY <3>1 DEF Reached
  <2>2. CASE Committed < k /\ aim <= cursor.latest
    <3>1. settled < i /\ aim <= cursor'.latest
      BY <2>2, <1>5, <1>6, <1>11
    <3>2. QED  BY <3>1, <1>5 DEF Reached
  <2>3. CASE \E j \in 1 .. LineLen : j < k /\ aim <= Line[j].point
    <3>1. PICK j \in 1 .. after + 1 : j < k /\ aim <= Line[j].point
      BY <2>3, <1>6
    <3>2. CASE j = 1
      <4>1. aim <= pointer'
        BY <3>1, <3>2, <1>1, <1>7, <1>8, <1>11
      <4>2. QED  BY <4>1 DEF Reached
    <3>3. CASE j # 1
      <4>1. PICK l \in Nat : j = l + 1
        BY <3>3
      <4>2. l \in 1 .. after /\ l < i
        BY <3>1, <3>3, <4>1, <1>11
      <4>3. Line'[l] = Line[j]
        BY <4>1, <4>2, <1>6
      <4>4. QED  BY <3>1, <4>2, <4>3, <1>5 DEF Reached
    <3>4. QED  BY <3>2, <3>3
  <2>4. QED  BY <2>1, <2>2, <2>3, <1>11 DEF Reached
<1>12. LastFits'
  <2>1. SUFFICES ASSUME cursor.by # 0
                 PROVE  BackendMade(cursor.by)' /\ (clientUp' /\ runtime' = cursor'.by => Reached(cursor.last, LineLen + 1)')
    BY <1>6 DEF LastFits
  <2>2. cursor.by \in CallIds /\ BackendMade(cursor.by)
    BY <2>1, <1>2, AgentNumbers DEF PointsSettled, AgentPoints, LastFits
  <2>3. BackendMade(cursor.by)'
    BY <2>2, <1>3 DEF BackendMade, Begun
  <2>4. ASSUME clientUp', runtime' = cursor'.by  PROVE Reached(cursor.last, LineLen + 1)'
    <3>1. runtime = cursor.by /\ item.point <= pointer' /\ clientUp
      BY <2>2, <2>4, <1>3, <1>6, <1>9
    <3>2. Reached(cursor.last, LineLen + 1)
      BY <2>1, <3>1 DEF AgentPoints, LastFits
    <3>3. PICK k \in Nat, i \in Nat : i = after + 1 /\ k = i + 1
      OBVIOUS
    <3>4. k = LineLen + 1 /\ i # 0
      BY <3>3, <1>6
    <3>5. Reached(last, k)
      BY <3>2, <3>4, <1>5
    <3>6. Reached(last, i)'
      BY <3>1, <3>3, <3>4, <3>5, <1>11
    <3>7. QED  BY <3>3, <3>6, <1>5, <1>6 DEF Reached
  <2>5. QED  BY <2>3, <2>4
<1>13. OwedFits'
  <2>1. ASSUME NEW i \in 1 .. LineLen', Line'[i].kind = "Button", calls'[Line'[i].call].of = runtime'
        PROVE  Reached(calls[Line[i].call].aim, i)'
    <3>1. i \in 1 .. after /\ i # 0 /\ i \in Nat
      BY <1>5
    <3>2. PICK k \in 1 .. LineLen : k = i + 1
      BY <3>1, <1>6
    <3>3. Line'[i] = Line[k] /\ Line[k].kind = "Button"
      BY <2>1, <3>1, <3>2, <1>6
    <3>4. calls[Line[k].call].of \in CallIds /\ BackendMade(calls[Line[k].call].of) /\ calls[Line[k].call].aim \in Nat
      BY <3>3, ButtonsAreCalls
    <3>5. runtime = calls[Line[k].call].of /\ item.point <= pointer'
      BY <2>1, <3>3, <3>4, <1>3, <1>9
    <3>6. PICK aim \in Nat : aim = calls[Line[k].call].aim
      BY <3>4
    <3>7. Reached(aim, k)
      BY <3>3, <3>5, <3>6 DEF AgentPoints, OwedFits
    <3>8. Reached(aim, i)'
      <4>1. k \in Nat
        BY <3>1, <3>2
      <4>2. QED  BY <4>1, <3>1, <3>2, <3>5, <3>7, <1>11
    <3>9. calls'[Line'[i].call].aim = aim
      BY <3>3, <3>6, <1>3
    <3>10. QED  BY <3>8, <3>9 DEF Reached
  <2>2. QED  BY <2>1 DEF OwedFits
<1>14. ButtonAtCursor'
  <2>1. ASSUME NEW c \in CallIds, acted'[c].on = calls'[c].of, acted'[c].at # 0  PROVE calls'[c].aim < acted'[c].at
    <3>1. CASE item.kind = "Button" /\ c = item.call
      <4>1. acted'[c].on = runtime /\ acted'[c].at = pointer + 1
        BY <3>1, <1>4 DEF AgentTypes
      <4>2. calls[c].of = runtime /\ Line[1].kind = "Button" /\ Line[1].call = c
        BY <2>1, <3>1, <4>1, <1>1, <1>3
      <4>3. Reached(calls[c].aim, 1) /\ calls[c].aim \in Nat
        BY <4>2, <1>6, <1>7, ButtonsAreCalls DEF AgentPoints, OwedFits
      <4>4. calls[c].aim <= pointer
        <5>1. ~(Committed < 1) /\ \A j \in 1 .. LineLen : ~(j < 1)
          BY <1>6
        <5>2. QED  BY <4>3, <5>1 DEF Reached
      <4>5. QED  BY <4>1, <4>3, <4>4, <1>3, <1>7
    <3>2. CASE ~(item.kind = "Button" /\ c = item.call)
      <4>1. acted'[c] = acted[c]
        BY <3>2, <1>4 DEF AgentTypes
      <4>2. QED  BY <2>1, <4>1, <1>3 DEF AgentPoints, ButtonAtCursor
    <3>3. QED  BY <3>1, <3>2
  <2>2. QED  BY <2>1 DEF ButtonAtCursor
<1>15. QED  BY <1>10, <1>12, <1>13, <1>14 DEF AgentPoints

\* No position has been given yet.
LEMMA AgentBeginsAtPoints == AgentInit => AgentPoints
<1> SUFFICES ASSUME AgentInit PROVE AgentPoints
  OBVIOUS
<1>1. LineLen = 0 /\ cursor.latest = 0 /\ cursor.last = 0 /\ cursor.by = 0 /\ pointer = 0
  BY DEF AgentInit, LineLen, Committed, Piped, Prepared, Queued
<1>2. ButtonAtCursor
  BY DEF AgentInit, ButtonAtCursor
<1>3. QED  BY <1>1, <1>2 DEF AgentPoints, PointsFit, LastFits, OwedFits

\* Every step keeps the positions.
LEMMA AgentKeepsPoints == AgentTypes /\ Numbered /\ AgentOrder /\ AgentPoints /\ [AgentNext]_agentVars => AgentPoints'
<1> SUFFICES ASSUME AgentTypes, Numbered, AgentOrder, AgentPoints, [AgentNext]_agentVars PROVE AgentPoints'
  OBVIOUS
<1>0. AgentTypes'
  BY AgentKeepsTyped
<1>1. ASSUME NEW c \in CallIds, CallEnds(c) \/ DropBackend(c)  PROVE AgentPoints'
  BY <1>0, <1>1, CallsEndAtPoints, DropsAtPoints
<1>2. ASSUME NEW c \in CallIds, NEW kind \in {"Start", "Button", "Health"}, NEW of \in {0} \cup CallIds, Request(c, kind, of)
      PROVE  AgentPoints'
  BY <1>0, <1>2, RequestsAtPoints DEF CallKinds
<1>3. CASE Move
  BY <1>0, <1>3, MovesAtPoints
<1>4. CASE Writer \/ StopWaiting \/ TransportFails \/ Read
  BY <1>0, <1>4, TakesAtPoints, PassesOnAtPoints DEF Writer
<1>5. CASE Serve
  BY <1>0, <1>5, ServesAtPoints
<1>6. CASE UNCHANGED agentVars
  <2>1. UNCHANGED <<clientUp, calls, items, cursor, writing, requests, runtime, pointer, acted>>
    BY <1>6 DEF agentVars, agentState
  <2>2. CallsLast
    BY <2>1 DEF CallsLast, BackendMade, Begun
  <2>3. LineKept
    BY <1>0, <2>1, LineStays
  <2>4. QED  BY <1>0, <2>1, <2>2, <2>3, QuietPoints
<1>7. QED  BY <1>1, <1>2, <1>3, <1>4, <1>5, <1>6 DEF AgentNext

\* The state of the calls to the input agent is well typed, and each request and response
\* that is on its way carries the number of a call that was written to the pipe.
THEOREM AgentTypeCorrect == AgentSpec => [](AgentTypes /\ Numbered)
<1>1. AgentInit => AgentTypes /\ Numbered
  BY AgentBeginsTyped
<1>2. AgentTypes /\ Numbered /\ [AgentNext]_agentVars => AgentTypes' /\ Numbered'
  BY AgentKeepsTyped
<1>3. QED  BY <1>1, <1>2, PTL DEF AgentSpec

\* A button is pressed where its backend had meant the cursor to be, and by the runtime that
\* was started for that backend, for any number of calls, positions and late answers.
THEOREM EventsStayInOrder == AgentSpec => []EventsInOrder
<1> DEFINE IInv == AgentTypes /\ Numbered /\ AgentOrder /\ AgentPoints
<1>1. AgentInit => IInv
  BY AgentBeginsTyped, AgentBeginsInOrder, AgentBeginsAtPoints
<1>2. IInv /\ [AgentNext]_agentVars => IInv'
  BY AgentKeepsTyped, AgentKeepsOrder, AgentKeepsPoints
<1>3. IInv => EventsInOrder
  BY OrderIsRight DEF EventsInOrder, AgentOrder, OrderFits, AgentPoints
<1>4. QED  BY <1>1, <1>2, <1>3, PTL DEF AgentSpec
=============================================================================
