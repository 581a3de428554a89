---------------------------- MODULE PeersProofs ----------------------------
(***************************************************************************)
(* Proofs about what two devices agree on without the clipboard (the       *)
(* world of MCPeers): EndsAgree, part by part.  First the slots of         *)
(* LinkBinding: a transport is never kept out by a slot that nobody will   *)
(* free.  Then the keys of InputControl, and the session of Reconnect.     *)
(***************************************************************************)
EXTENDS MCPeers, TLAPS

Maybe == Attempts \cup {NoAttempt}

(* What is under way on a connection, and what a binding waits for.        *)
Texts == {"", "ask", "challenge", "proof", "ready", "commit"}
Awaited == {"nothing", "challenge", "ready", "proof", "commit"}

Tables == [open : BOOLEAN, slot : Maybe, pending : Maybe, expired : BOOLEAN]
Bindings == [att : Maybe, waits : Awaited]
Wires == [alive : BOOLEAN, client : Texts, host : Texts]

LinkTypes ==
    /\ link \in [Ends -> Tables]
    /\ task \in [Ends -> Bindings]
    /\ inbox \in [Ends -> Maybe] /\ tunnel \in [Ends -> Maybe]
    /\ wire \in [Attempts -> Wires]
    /\ mishaps \in 0..MaxMishaps

(* One end holds its slot well.  A binding that waits for anything but the *)
(* commit has not taken the slot yet, and nobody else has: the slot is     *)
(* free.  A slot that is taken belongs to the binding that waits for its   *)
(* commit, to the mailbox or to the session, and these take turns.         *)
WaitsAt(e) == IF e = "client" THEN {"nothing", "challenge", "ready"} ELSE {"nothing", "proof", "commit"}

HeldWell(e, slot, binding, box, used) ==
    /\ binding.waits \in WaitsAt(e)
    /\ binding.att = NoAttempt <=> binding.waits = "nothing"
    /\ binding.waits \in {"challenge", "ready", "proof"} => slot = NoAttempt
    /\ binding.waits = "commit" => slot = binding.att /\ box = NoAttempt /\ used = NoAttempt
    /\ box # NoAttempt => slot = box /\ used = NoAttempt
    /\ used # NoAttempt => slot = used
    /\ slot # NoAttempt => binding.waits = "commit" \/ box = slot \/ used = slot

SlotIsHeld == \A e \in Ends : HeldWell(e, link[e].slot, task[e], inbox[e], tunnel[e])

LinkInv == LinkTypes /\ SlotIsHeld

(* A step changes one end.                                                 *)
LEMMA EndKeepsSlot ==
    ASSUME LinkInv, NEW e \in Ends,
           NEW l \in Tables, NEW t \in Bindings, NEW i \in Maybe, NEW u \in Maybe,
           link' = [link EXCEPT ![e] = l], task' = [task EXCEPT ![e] = t],
           inbox' = [inbox EXCEPT ![e] = i], tunnel' = [tunnel EXCEPT ![e] = u],
           wire' \in [Attempts -> Wires], mishaps' \in 0..MaxMishaps,
           HeldWell(e, l.slot, t, i, u)
    PROVE  LinkInv'
<1>1. LinkTypes'
  BY DEF LinkInv, LinkTypes
<1>2. SlotIsHeld'
  <2> SUFFICES ASSUME NEW d \in Ends
               PROVE  HeldWell(d, link'[d].slot, task'[d], inbox'[d], tunnel'[d])
    BY DEF SlotIsHeld
  <2>1. CASE d = e
    BY <2>1 DEF LinkInv, LinkTypes
  <2>2. CASE d # e
    <3>1. link'[d] = link[d] /\ task'[d] = task[d] /\ inbox'[d] = inbox[d] /\ tunnel'[d] = tunnel[d]
      BY <2>2 DEF LinkInv, LinkTypes
    <3>2. QED  BY <3>1 DEF LinkInv, SlotIsHeld
  <2>3. QED  BY <2>1, <2>2
<1>3. QED  BY <1>1, <1>2 DEF LinkInv

(* What is in a table, a binding and a wire.                               *)
LEMMA TableFacts ==
    ASSUME NEW l \in Tables, NEW a \in Maybe
    PROVE  /\ l.slot \in Maybe /\ l.pending \in Maybe /\ l.open \in BOOLEAN
           /\ [l EXCEPT !.pending = a, !.expired = FALSE] \in Tables
           /\ [l EXCEPT !.pending = a, !.expired = FALSE].slot = l.slot
           /\ [l EXCEPT !.slot = a, !.pending = NoAttempt] \in Tables
           /\ [l EXCEPT !.slot = a, !.pending = NoAttempt].slot = a
           /\ [l EXCEPT !.expired = TRUE] \in Tables
           /\ [l EXCEPT !.expired = TRUE].slot = l.slot
BY DEF Tables, Maybe

LEMMA FreedFacts ==
    ASSUME LinkTypes, NEW e \in Ends, NEW a \in Maybe
    PROVE  \E l \in Tables :
              /\ Freed(e, a) = [link EXCEPT ![e] = l]
              /\ l.slot = IF link[e].slot = a THEN NoAttempt ELSE link[e].slot
<1> DEFINE old == link[e]
           l == [old EXCEPT !.pending = IF @ = a THEN NoAttempt ELSE @,
                            !.slot = IF @ = a THEN NoAttempt ELSE @]
<1>1. \A o \in Tables :
          LET k == [o EXCEPT !.pending = IF @ = a THEN NoAttempt ELSE @,
                             !.slot = IF @ = a THEN NoAttempt ELSE @]
          IN  k \in Tables /\ k.slot = IF o.slot = a THEN NoAttempt ELSE o.slot
  BY DEF Tables, Maybe
<1>2. old \in Tables
  BY DEF LinkTypes
<1>3. l \in Tables /\ l.slot = IF link[e].slot = a THEN NoAttempt ELSE link[e].slot
  BY <1>1, <1>2
<1>4. Freed(e, a) = [link EXCEPT ![e] = l]
  BY DEF Freed, LinkTypes
<1>5. QED  BY <1>3, <1>4

(* Writing, closing and breaking keep the wire a wire.                     *)
LEMMA WireFacts ==
    ASSUME LinkTypes, NEW a \in Attempts, NEW e \in Ends, NEW m \in Texts
    PROVE  /\ Answered(a, e, m) \in [Attempts -> Wires]
           /\ ClosedBy(a, e) \in [Attempts -> Wires]
<1>1. \A w \in Wires, b \in BOOLEAN :
         /\ [w EXCEPT !.client = "", !.host = IF b THEN m ELSE @] \in Wires
         /\ [w EXCEPT !.host = "", !.client = IF b THEN m ELSE @] \in Wires
         /\ [w EXCEPT !.alive = FALSE, !.client = ""] \in Wires
         /\ [w EXCEPT !.alive = FALSE, !.host = ""] \in Wires
  BY DEF Wires, Texts
<1>2. wire[a] \in Wires /\ wire[a].alive \in BOOLEAN
  BY DEF LinkTypes, Wires
<1>3. QED
  BY <1>1, <1>2 DEF LinkTypes, Answered, ClosedBy, Ends, Other

(* A binding, a slot, a mailbox or a session that stays as it is.          *)
LEMMA StaysFacts ==
    ASSUME LinkTypes, NEW e \in Ends
    PROVE  /\ link[e] \in Tables /\ link = [link EXCEPT ![e] = link[e]]
           /\ task[e] \in Bindings /\ task = [task EXCEPT ![e] = task[e]]
           /\ task[e].att \in Maybe /\ task[e].waits \in Awaited
           /\ inbox[e] \in Maybe /\ inbox = [inbox EXCEPT ![e] = inbox[e]]
           /\ tunnel[e] \in Maybe /\ tunnel = [tunnel EXCEPT ![e] = tunnel[e]]
           /\ Idle \in Bindings /\ NoAttempt \in Maybe /\ {"client", "host"} = Ends
<1>1. task[e] \in Bindings
  BY DEF LinkTypes
<1>2. task[e].att \in Maybe /\ task[e].waits \in Awaited
  BY <1>1 DEF Bindings
<1>3. QED
  BY <1>1, <1>2 DEF LinkTypes, Idle, Bindings, Maybe, Awaited, Ends

(* A step that changes what is under way and nothing else.                 *)
LEMMA TablesKeep ==
    ASSUME LinkInv, UNCHANGED <<link, task, inbox, tunnel>>,
           wire' \in [Attempts -> Wires], mishaps' \in 0..MaxMishaps
    PROVE  LinkInv'
BY DEF LinkInv, LinkTypes, SlotIsHeld

(* A dropped binding leaves a slot that is free, or that was taken by      *)
(* somebody else.                                                          *)
LEMMA DropKeeps ==
    ASSUME LinkInv, NEW e \in Ends, task[e].att # NoAttempt, Drop(e), mishaps' \in 0..MaxMishaps
    PROVE  LinkInv'
<1>1. LinkTypes /\ HeldWell(e, link[e].slot, task[e], inbox[e], tunnel[e])
  BY DEF LinkInv, SlotIsHeld
<1> DEFINE a == task[e].att
<1>2. a \in Maybe /\ a # NoAttempt /\ a \in Attempts
  BY <1>1, StaysFacts DEF Maybe
<1>3. PICK l \in Tables : /\ Freed(e, a) = [link EXCEPT ![e] = l]
                          /\ l.slot = IF link[e].slot = a THEN NoAttempt ELSE link[e].slot
  BY <1>1, <1>2, FreedFacts
<1>4. /\ link' = [link EXCEPT ![e] = l] /\ task' = [task EXCEPT ![e] = Idle]
      /\ inbox' = [inbox EXCEPT ![e] = inbox[e]] /\ tunnel' = [tunnel EXCEPT ![e] = tunnel[e]]
      /\ inbox[e] \in Maybe /\ tunnel[e] \in Maybe /\ Idle \in Bindings
  BY <1>1, <1>3, StaysFacts DEF Drop, Done
<1>5. wire' \in [Attempts -> Wires]
  <2>1. "" \in Texts
    BY DEF Texts
  <2>2. QED  BY <1>1, <1>2, <2>1, WireFacts DEF Drop
<1>6. HeldWell(e, l.slot, Idle, inbox[e], tunnel[e])
  BY <1>1, <1>2, <1>3 DEF HeldWell, WaitsAt, Idle
<1>7. QED  BY <1>4, <1>5, <1>6, EndKeepsSlot

(* The steps of a binding.                                                 *)
LEMMA BindingKeeps ==
    ASSUME LinkInv, ClientBinds \/ HostAttaches \/ Commit \/ \E a \in Attempts : Admit(a)
    PROVE  LinkInv'
<1>0. LinkTypes /\ \A e \in Ends : HeldWell(e, link[e].slot, task[e], inbox[e], tunnel[e])
  BY DEF LinkInv, SlotIsHeld
<1>T. {"", "ask", "challenge", "proof", "ready", "commit"} \subseteq Texts
      /\ "client" \in Ends /\ "host" \in Ends /\ mishaps \in 0..MaxMishaps
      /\ wire \in [Attempts -> Wires]
  BY <1>0 DEF Texts, Ends, LinkTypes
<1>B. ASSUME NEW a \in Maybe, NEW m \in Awaited
      PROVE  [att |-> a, waits |-> m] \in Bindings
  BY DEF Bindings
<1>W. {"challenge", "ready", "proof", "commit"} \subseteq Awaited
  BY DEF Awaited
<1>A. \A e \in Ends : task[e].waits # "nothing" => task[e].att \in Attempts /\ task[e].att # NoAttempt
  BY <1>0, StaysFacts DEF HeldWell, Maybe
<1>1. CASE Seek
  <2>1. PICK a \in Attempts :
          /\ Wait("client", a, "challenge")
          /\ wire' = [wire EXCEPT ![a] = [alive |-> TRUE, client |-> "", host |-> "ask"]]
    BY <1>1 DEF Seek
  <2>2. a \in Maybe /\ a # NoAttempt
    BY LinkAssumption DEF Maybe
  <2>3. [alive |-> TRUE, client |-> "", host |-> "ask"] \in Wires
    BY <1>T DEF Wires
  <2>4. HeldWell("client", link["client"].slot, [att |-> a, waits |-> "challenge"],
                 inbox["client"], tunnel["client"])
    BY <1>0, <1>1, <1>T, <2>2 DEF HeldWell, WaitsAt, Seek, Idle
  <2>5. /\ link["client"] \in Tables /\ link' = [link EXCEPT !["client"] = link["client"]]
        /\ [att |-> a, waits |-> "challenge"] \in Bindings
        /\ task' = [task EXCEPT !["client"] = [att |-> a, waits |-> "challenge"]]
        /\ inbox["client"] \in Maybe /\ inbox' = [inbox EXCEPT !["client"] = inbox["client"]]
        /\ tunnel["client"] \in Maybe /\ tunnel' = [tunnel EXCEPT !["client"] = tunnel["client"]]
        /\ wire' \in [Attempts -> Wires] /\ mishaps' \in 0..MaxMishaps
    BY <1>0, <1>1, <1>B, <1>T, <1>W, <2>1, <2>2, <2>3, StaysFacts DEF Seek, Wait
  <2>6. QED  BY <1>T, <2>4, <2>5, EndKeepsSlot
<1>2. CASE Adopt
  <2>1. task["client"].waits = "challenge" /\ mishaps' = mishaps
    BY <1>2 DEF Adopt
  <2> DEFINE a == task["client"].att
             l == [link["client"] EXCEPT !.pending = a, !.expired = FALSE]
  <2>2. a \in Attempts /\ a # NoAttempt /\ a \in Maybe
    BY <1>A, <1>T, <2>1 DEF Maybe
  <2>3. CASE MayPend("client") /\ link' = Pended("client", a) /\ Wait("client", a, "ready")
             /\ Reply("client", "proof") /\ UNCHANGED <<inbox, tunnel>>
    <3>1. l \in Tables /\ l.slot = link["client"].slot
      BY <1>0, <1>T, <2>2, StaysFacts, TableFacts
    <3>2. link' = [link EXCEPT !["client"] = l]
      BY <1>0, <1>T, <2>3, StaysFacts DEF Pended, LinkTypes
    <3>3. HeldWell("client", l.slot, [att |-> a, waits |-> "ready"], inbox["client"], tunnel["client"])
      BY <1>0, <1>T, <2>1, <2>2, <3>1 DEF HeldWell, WaitsAt
    <3>4. wire' \in [Attempts -> Wires]
      BY <1>0, <1>T, <2>2, <2>3, WireFacts DEF Reply
    <3>5. /\ [att |-> a, waits |-> "ready"] \in Bindings
          /\ task' = [task EXCEPT !["client"] = [att |-> a, waits |-> "ready"]]
          /\ inbox["client"] \in Maybe /\ inbox' = [inbox EXCEPT !["client"] = inbox["client"]]
          /\ tunnel["client"] \in Maybe /\ tunnel' = [tunnel EXCEPT !["client"] = tunnel["client"]]
          /\ mishaps' \in 0..MaxMishaps
      BY <1>0, <1>B, <1>T, <1>W, <2>1, <2>2, <2>3, StaysFacts DEF Wait
    <3> HIDE DEF l
    <3>6. QED  BY <1>T, <3>1, <3>2, <3>3, <3>4, <3>5, EndKeepsSlot
  <2>4. CASE Drop("client")
    BY <1>T, <2>1, <2>2, <2>4, DropKeeps
  <2>5. QED  BY <1>2, <2>3, <2>4 DEF Adopt
<1>3. CASE HostAttaches
  <2>1. task["host"].waits = "proof" /\ mishaps' = mishaps
    BY <1>3 DEF HostAttaches
  <2> DEFINE a == task["host"].att
             l == [link["host"] EXCEPT !.slot = a, !.pending = NoAttempt]
  <2>2. a \in Attempts /\ a # NoAttempt /\ a \in Maybe
    BY <1>A, <1>T, <2>1 DEF Maybe
  <2>3. CASE link' = Attached("host", a) /\ Wait("host", a, "commit")
             /\ Reply("host", "ready") /\ UNCHANGED <<inbox, tunnel>>
    <3>1. l \in Tables /\ l.slot = a
      BY <1>0, <1>T, <2>2, StaysFacts, TableFacts
    <3>2. link' = [link EXCEPT !["host"] = l]
      BY <1>0, <1>T, <2>3, StaysFacts DEF Attached, LinkTypes
    <3>3. HeldWell("host", l.slot, [att |-> a, waits |-> "commit"], inbox["host"], tunnel["host"])
      BY <1>0, <1>T, <2>1, <2>2, <3>1 DEF HeldWell, WaitsAt
    <3>4. wire' \in [Attempts -> Wires]
      BY <1>0, <1>T, <2>2, <2>3, WireFacts DEF Reply
    <3>5. /\ [att |-> a, waits |-> "commit"] \in Bindings
          /\ task' = [task EXCEPT !["host"] = [att |-> a, waits |-> "commit"]]
          /\ inbox["host"] \in Maybe /\ inbox' = [inbox EXCEPT !["host"] = inbox["host"]]
          /\ tunnel["host"] \in Maybe /\ tunnel' = [tunnel EXCEPT !["host"] = tunnel["host"]]
          /\ mishaps' \in 0..MaxMishaps
      BY <1>0, <1>B, <1>T, <1>W, <2>1, <2>2, <2>3, StaysFacts DEF Wait
    <3> HIDE DEF l
    <3>6. QED  BY <1>T, <3>1, <3>2, <3>3, <3>4, <3>5, EndKeepsSlot
  <2>4. CASE Drop("host")
    BY <1>T, <2>1, <2>2, <2>4, DropKeeps
  <2>5. QED  BY <1>3, <2>3, <2>4 DEF HostAttaches
<1>4. CASE ClientAttaches
  <2>1. task["client"].waits = "ready" /\ mishaps' = mishaps
    BY <1>4 DEF ClientAttaches
  <2> DEFINE a == task["client"].att
             l == [link["client"] EXCEPT !.slot = a, !.pending = NoAttempt]
  <2>2. a \in Attempts /\ a # NoAttempt /\ a \in Maybe
    BY <1>A, <1>T, <2>1 DEF Maybe
  <2>3. CASE /\ link' = Attached("client", a) /\ inbox' = [inbox EXCEPT !["client"] = a]
             /\ Reply("client", "commit") /\ Done("client") /\ UNCHANGED tunnel
    <3>1. l \in Tables /\ l.slot = a
      BY <1>0, <1>T, <2>2, StaysFacts, TableFacts
    <3>2. link' = [link EXCEPT !["client"] = l]
      BY <1>0, <1>T, <2>3, StaysFacts DEF Attached, LinkTypes
    <3>3. HeldWell("client", l.slot, Idle, a, tunnel["client"])
      BY <1>0, <1>T, <2>1, <2>2, <3>1 DEF HeldWell, WaitsAt, Idle
    <3>4. wire' \in [Attempts -> Wires]
      BY <1>0, <1>T, <2>2, <2>3, WireFacts DEF Reply
    <3>5. /\ Idle \in Bindings /\ task' = [task EXCEPT !["client"] = Idle]
          /\ a \in Maybe /\ inbox' = [inbox EXCEPT !["client"] = a]
          /\ tunnel["client"] \in Maybe /\ tunnel' = [tunnel EXCEPT !["client"] = tunnel["client"]]
          /\ mishaps' \in 0..MaxMishaps
      BY <1>0, <1>T, <2>1, <2>2, <2>3, StaysFacts DEF Done
    <3> HIDE DEF l
    <3>6. QED  BY <1>T, <3>1, <3>2, <3>3, <3>4, <3>5, EndKeepsSlot
  <2>4. CASE Drop("client")
    BY <1>T, <2>1, <2>2, <2>4, DropKeeps
  <2>5. QED  BY <1>4, <2>3, <2>4 DEF ClientAttaches
<1>5. CASE Commit
  <2> DEFINE a == task["host"].att
  <2>1. task["host"].waits = "commit" /\ a \in Attempts /\ a # NoAttempt /\ a \in Maybe
    BY <1>5, <1>A, <1>T DEF Commit, Maybe
  <2>2. HeldWell("host", link["host"].slot, Idle, a, tunnel["host"])
    BY <1>0, <1>T, <2>1 DEF HeldWell, WaitsAt, Idle
  <2>3. wire' \in [Attempts -> Wires]
    <3>1. \A w \in Wires : [w EXCEPT !.host = ""] \in Wires
      BY <1>T DEF Wires
    <3>2. wire' = [wire EXCEPT ![a] = [wire[a] EXCEPT !.host = ""]]
      BY <1>5, <1>T, <2>1 DEF Commit
    <3>3. QED  BY <1>T, <2>1, <3>1, <3>2
  <2>4. /\ link["host"] \in Tables /\ link' = [link EXCEPT !["host"] = link["host"]]
        /\ Idle \in Bindings /\ task' = [task EXCEPT !["host"] = Idle]
        /\ inbox' = [inbox EXCEPT !["host"] = a]
        /\ tunnel["host"] \in Maybe /\ tunnel' = [tunnel EXCEPT !["host"] = tunnel["host"]]
        /\ mishaps' \in 0..MaxMishaps
    BY <1>0, <1>5, <1>T, StaysFacts DEF Commit, Done
  <2>5. QED  BY <1>T, <2>1, <2>2, <2>3, <2>4, EndKeepsSlot
<1>6. ASSUME NEW a \in Attempts, Admit(a)
      PROVE  LinkInv'
  <2>1. a \in Maybe /\ a # NoAttempt
    BY LinkAssumption DEF Maybe
  <2>2. CASE /\ task["host"] = Idle /\ inbox["host"] = NoAttempt /\ MayPend("host")
             /\ link' = Pended("host", a) /\ Wait("host", a, "proof")
             /\ wire' = [wire EXCEPT ![a].host = "",
                                     ![a].client = IF wire[a].alive THEN "challenge" ELSE @]
    <3> DEFINE l == [link["host"] EXCEPT !.pending = a, !.expired = FALSE]
    <3>1. l \in Tables /\ l.slot = link["host"].slot
      BY <1>0, <1>T, <2>1, StaysFacts, TableFacts
    <3>2. link' = [link EXCEPT !["host"] = l]
      BY <1>0, <1>T, <2>2, StaysFacts DEF Pended, LinkTypes
    <3>3. HeldWell("host", l.slot, [att |-> a, waits |-> "proof"], inbox["host"], tunnel["host"])
      BY <1>0, <1>T, <2>1, <2>2, <3>1 DEF HeldWell, WaitsAt, MayPend
    <3>4. wire' \in [Attempts -> Wires]
      <4>1. \A w \in Wires : [w EXCEPT !.host = "", !.client = IF w.alive THEN "challenge" ELSE @] \in Wires
        BY <1>T DEF Wires
      <4>2. wire' = [wire EXCEPT ![a] = [wire[a] EXCEPT !.host = "",
                                                        !.client = IF wire[a].alive THEN "challenge" ELSE @]]
        BY <1>T, <2>2
      <4>3. QED  BY <1>T, <4>1, <4>2
    <3>5. /\ [att |-> a, waits |-> "proof"] \in Bindings
          /\ task' = [task EXCEPT !["host"] = [att |-> a, waits |-> "proof"]]
          /\ inbox["host"] \in Maybe /\ inbox' = [inbox EXCEPT !["host"] = inbox["host"]]
          /\ tunnel["host"] \in Maybe /\ tunnel' = [tunnel EXCEPT !["host"] = tunnel["host"]]
          /\ mishaps' \in 0..MaxMishaps
      BY <1>0, <1>6, <1>B, <1>T, <1>W, <2>1, <2>2, StaysFacts DEF Admit, Wait
    <3> HIDE DEF l
    <3>6. QED  BY <1>T, <3>1, <3>2, <3>3, <3>4, <3>5, EndKeepsSlot
  <2>3. CASE wire' = ClosedBy(a, "host") /\ UNCHANGED <<link, task>>
    <3>1. wire' \in [Attempts -> Wires]
      BY <1>0, <1>T, <2>3, WireFacts
    <3>2. QED  BY <1>6, <1>T, <2>3, <3>1, TablesKeep DEF Admit
  <2>4. QED  BY <1>6, <2>2, <2>3 DEF Admit
<1>7. QED  BY <1>1, <1>2, <1>3, <1>4, <1>5, <1>6 DEF ClientBinds

(* The session takes the candidate, loses its connection, or ends.         *)
LEMMA SessionEndKeeps ==
    ASSUME LinkInv, NEW e \in Ends, CloseSession(e), mishaps' \in 0..MaxMishaps
    PROVE  LinkInv'
<1>0. LinkTypes
  BY DEF LinkInv
<1> DEFINE l == [open |-> FALSE, slot |-> NoAttempt, pending |-> NoAttempt, expired |-> FALSE]
<1>1. /\ l \in Tables /\ l.slot = NoAttempt /\ link' = [link EXCEPT ![e] = l]
      /\ Idle \in Bindings /\ task' = [task EXCEPT ![e] = Idle]
      /\ NoAttempt \in Maybe /\ inbox' = [inbox EXCEPT ![e] = NoAttempt]
      /\ tunnel' = [tunnel EXCEPT ![e] = NoAttempt]
  BY <1>0, StaysFacts DEF CloseSession, Tables, Maybe
<1>2. wire' \in [Attempts -> Wires]
  <2>1. \A w \in Wires : /\ [w EXCEPT !.alive = FALSE, !.client = ""] \in Wires
                         /\ [w EXCEPT !.alive = FALSE, !.host = ""] \in Wires
    BY DEF Wires, Texts
  <2>2. \A w \in Wires : [w EXCEPT !.alive = FALSE, ![e] = ""] \in Wires
    BY <2>1 DEF Ends
  <2>3. QED  BY <1>0, <2>2 DEF LinkTypes, CloseSession
<1>3. HeldWell(e, l.slot, Idle, NoAttempt, NoAttempt)
  BY <1>1 DEF HeldWell, WaitsAt, Idle
<1> HIDE DEF l
<1>4. QED  BY <1>1, <1>2, <1>3, EndKeepsSlot

LEMMA SessionKeeps ==
    ASSUME LinkInv, NEW e \in Ends, TakeCandidate(e) \/ TunnelFails(e) \/ BoundSessionEnds(e)
    PROVE  LinkInv'
<1>0. /\ LinkTypes /\ HeldWell(e, link[e].slot, task[e], inbox[e], tunnel[e])
      /\ wire \in [Attempts -> Wires] /\ mishaps \in 0..MaxMishaps
  BY DEF LinkInv, LinkTypes, SlotIsHeld
<1>1. CASE TakeCandidate(e)
  <2>1. inbox[e] # NoAttempt /\ mishaps' = mishaps
    BY <1>1 DEF TakeCandidate
  <2>2. CASE /\ tunnel' = [tunnel EXCEPT ![e] = inbox[e]] /\ inbox' = [inbox EXCEPT ![e] = NoAttempt]
             /\ UNCHANGED <<link, task, wire>>
    <3>1. HeldWell(e, link[e].slot, task[e], NoAttempt, inbox[e])
      BY <1>0, <2>1 DEF HeldWell, WaitsAt
    <3>2. /\ link[e] \in Tables /\ link' = [link EXCEPT ![e] = link[e]]
          /\ task[e] \in Bindings /\ task' = [task EXCEPT ![e] = task[e]]
          /\ NoAttempt \in Maybe /\ inbox[e] \in Maybe
      BY <1>0, <2>2, StaysFacts
    <3>3. QED  BY <1>0, <2>1, <2>2, <3>1, <3>2, EndKeepsSlot
  <2>3. CASE CloseSession(e)
    BY <1>0, <2>1, <2>3, SessionEndKeeps
  <2>4. QED  BY <1>1, <2>2, <2>3 DEF TakeCandidate
<1>2. CASE TunnelFails(e)
  <2> DEFINE a == tunnel[e]
  <2>1. a # NoAttempt /\ a \in Maybe /\ a \in Attempts /\ mishaps' = mishaps
    BY <1>0, <1>2, StaysFacts DEF TunnelFails, Maybe
  <2>2. PICK l \in Tables : /\ Freed(e, a) = [link EXCEPT ![e] = l]
                            /\ l.slot = IF link[e].slot = a THEN NoAttempt ELSE link[e].slot
    BY <1>0, <2>1, FreedFacts
  <2>3. HeldWell(e, l.slot, task[e], inbox[e], NoAttempt)
    BY <1>0, <2>1, <2>2 DEF HeldWell
  <2>4. /\ link' = [link EXCEPT ![e] = l]
        /\ task[e] \in Bindings /\ task' = [task EXCEPT ![e] = task[e]]
        /\ inbox[e] \in Maybe /\ inbox' = [inbox EXCEPT ![e] = inbox[e]]
        /\ NoAttempt \in Maybe /\ tunnel' = [tunnel EXCEPT ![e] = NoAttempt]
    BY <1>0, <1>2, <2>2, StaysFacts DEF TunnelFails
  <2>5. wire' \in [Attempts -> Wires]
    <3>1. "" \in Texts
      BY DEF Texts
    <3>2. QED  BY <1>0, <1>2, <2>1, <3>1, WireFacts DEF TunnelFails
  <2>6. QED  BY <1>0, <2>1, <2>3, <2>4, <2>5, EndKeepsSlot
<1>3. CASE BoundSessionEnds(e)
  <2>1. mishaps' \in 0..MaxMishaps
    BY <1>0, <1>3, LinkAssumption DEF BoundSessionEnds
  <2>2. QED  BY <1>3, <2>1, SessionEndKeeps DEF BoundSessionEnds
<1>4. QED  BY <1>1, <1>2, <1>3

(* Connections break, challenges expire, bindings are given up.            *)
LEMMA MishapsKeep ==
    ASSUME LinkInv,
           \/ \E a \in Attempts : Break(a)
           \/ \E e \in Ends : Expire(e) \/ GiveUp(e) \/ TooSlow(e)
    PROVE  LinkInv'
<1>0. /\ LinkTypes /\ wire \in [Attempts -> Wires] /\ mishaps \in 0..MaxMishaps
  BY DEF LinkInv, LinkTypes
<1>M. Mishap => mishaps' \in 0..MaxMishaps
  BY <1>0, LinkAssumption DEF Mishap
<1>1. ASSUME NEW a \in Attempts, Break(a)
      PROVE  LinkInv'
  <2>1. Broken \in Wires
    BY DEF Broken, Wires, Texts
  <2>2. QED  BY <1>0, <1>1, <1>M, <2>1, TablesKeep DEF Break
<1>2. ASSUME NEW e \in Ends, Expire(e)
      PROVE  LinkInv'
  <2> DEFINE l == [link[e] EXCEPT !.expired = TRUE]
  <2>1. l \in Tables /\ l.slot = link[e].slot /\ link' = [link EXCEPT ![e] = l]
    BY <1>0, <1>2, StaysFacts, TableFacts DEF Expire
  <2>2. HeldWell(e, l.slot, task[e], inbox[e], tunnel[e])
    BY <2>1 DEF LinkInv, SlotIsHeld
  <2>3. /\ task[e] \in Bindings /\ task' = [task EXCEPT ![e] = task[e]]
        /\ inbox[e] \in Maybe /\ inbox' = [inbox EXCEPT ![e] = inbox[e]]
        /\ tunnel[e] \in Maybe /\ tunnel' = [tunnel EXCEPT ![e] = tunnel[e]]
        /\ wire' \in [Attempts -> Wires] /\ mishaps' \in 0..MaxMishaps
    BY <1>0, <1>2, <1>M, StaysFacts DEF Expire
  <2> HIDE DEF l
  <2>4. QED  BY <2>1, <2>2, <2>3, EndKeepsSlot
<1>3. ASSUME NEW e \in Ends, GiveUp(e) \/ TooSlow(e)
      PROVE  LinkInv'
  <2>1. Drop(e) /\ task[e] # Idle /\ mishaps' \in 0..MaxMishaps
    BY <1>0, <1>3, <1>M DEF GiveUp, TooSlow
  <2>2. task[e].att # NoAttempt
    <3>1. task[e] \in Bindings /\ HeldWell(e, link[e].slot, task[e], inbox[e], tunnel[e])
      BY <1>0, StaysFacts DEF LinkInv, SlotIsHeld
    <3>2. task[e] = [att |-> task[e].att, waits |-> task[e].waits]
      BY <3>1 DEF Bindings
    <3>3. QED  BY <2>1, <3>1, <3>2 DEF HeldWell, Idle
  <2>3. QED  BY <2>1, <2>2, DropKeeps
<1>4. QED  BY <1>1, <1>2, <1>3

LEMMA LinkBegins == LinkInit => LinkInv
<1> SUFFICES ASSUME LinkInit
             PROVE  LinkInv
    OBVIOUS
<1>1. /\ [open |-> TRUE, slot |-> NoAttempt, pending |-> NoAttempt, expired |-> FALSE] \in Tables
      /\ Idle \in Bindings /\ NoAttempt \in Maybe /\ Broken \in Wires
  BY DEF Tables, Idle, Bindings, Broken, Wires, Maybe, Texts, Awaited
<1>2. LinkTypes
  BY <1>1, LinkAssumption DEF LinkInit, LinkTypes
<1>3. SlotIsHeld
  BY DEF LinkInit, SlotIsHeld, HeldWell, WaitsAt, Idle
<1>4. QED  BY <1>2, <1>3 DEF LinkInv

LEMMA LinkKeeps == LinkInv /\ [LinkNext]_linkVars => LinkInv'
<1> SUFFICES ASSUME LinkInv, [LinkNext]_linkVars
             PROVE  LinkInv'
    OBVIOUS
<1>1. CASE LinkNext
  BY <1>1, BindingKeeps, SessionKeeps, MishapsKeep DEF LinkNext
<1>2. CASE UNCHANGED linkVars
  BY <1>2 DEF linkVars, LinkInv, LinkTypes, SlotIsHeld
<1>3. QED  BY <1>1, <1>2

LEMMA LinkHolds == LinkSpec => []LinkInv
<1>1. QED  BY LinkBegins, LinkKeeps, PTL DEF LinkSpec

(* Every variable of LinkBinding keeps its type.                           *)
THEOREM LinkTypeCorrect == LinkSpec => []LinkTypeOK
<1>1. LinkInv => LinkTypeOK
  <2> SUFFICES ASSUME LinkInv
               PROVE  LinkTypeOK
    OBVIOUS
  <2>1. \A e \in Ends : /\ link[e].slot \in Maybe /\ link[e].pending \in Maybe
                        /\ task[e].att \in Maybe /\ inbox[e] \in Maybe /\ tunnel[e] \in Maybe
    BY StaysFacts, TableFacts DEF LinkInv
  <2>2. \A a \in Attempts : wire[a].alive \in BOOLEAN
    BY DEF LinkInv, LinkTypes, Wires
  <2>3. QED  BY <2>1, <2>2 DEF LinkInv, LinkTypes, LinkTypeOK, Maybe
<1>2. QED  BY <1>1, LinkHolds, PTL

LEMMA SlotsAreRight ==
    ASSUME LinkInv
    PROVE  SlotHasOwner
<1> SUFFICES ASSUME NEW e \in Ends, link[e].slot # NoAttempt
             PROVE  /\ link[e].slot \in Gone(e)
                    /\ inbox[e] = NoAttempt \/ tunnel[e] = NoAttempt
                    /\ link[e].slot = task[e].att => inbox[e] = NoAttempt /\ tunnel[e] = NoAttempt
  BY DEF SlotHasOwner
<1>1. HeldWell(e, link[e].slot, task[e], inbox[e], tunnel[e])
  BY DEF LinkInv, SlotIsHeld
<1>2. link[e].slot = task[e].att => task[e].waits = "commit"
  BY <1>1 DEF HeldWell, WaitsAt
<1>3. QED  BY <1>1, <1>2 DEF HeldWell, Gone

(* A taken slot has exactly one owner that will free it (SessionLinks in   *)
(* logical.rs is freed only by the guard of the binding or by the session  *)
(* that took the connection): in every order of the four messages of a     *)
(* binding, expiry, loss and the end of a session at either side.          *)
THEOREM SlotsAreOwned == LinkSpec => []SlotHasOwner
BY SlotsAreRight, LinkHolds, PTL


-----------------------------------------------------------------------------
(* Input control: KeysAgree.                                               *)

Generations == 0..MaxGenerations
Reports == [key : Keys, down : BOOLEAN]

(* What goes to the receiver.                                              *)
Activations == [kind : {"activate"}, gen : Generations, keys : SUBSET Keys]
KeyOrders == [kind : {"key"}, gen : Generations, key : Keys, down : BOOLEAN]
Endings == [kind : {"deactivate", "return"}, gen : Generations]
Orders == Activations \cup KeyOrders \cup Endings
Requests == [kind : {"ask", "deactivate"}, gen : Generations]

SenderStates == [up : BOOLEAN, gen : Generations, phase : {"watching", "arming", "sending"},
                 pressed : SUBSET Keys, wants : BOOLEAN, secure : BOOLEAN, gate : BOOLEAN]
ReceiverStates == [up : BOOLEAN, gen : Generations, active : BOOLEAN, held : SUBSET Keys,
                   secure : BOOLEAN]

InputTypes ==
    /\ keyboard \in SUBSET Keys /\ missed \in SUBSET Keys
    /\ hooked \in Seq(Reports)
    /\ sender \in SenderStates /\ receiver \in ReceiverStates
    /\ toReceiver \in Seq(Orders) /\ Len(toReceiver) <= Capacity
    /\ toSender \in Seq(Requests) /\ Len(toSender) <= Capacity
    /\ cut \in BOOLEAN /\ blocking \in BOOLEAN
    /\ tally \in [{"toggles", "upsets", "substreams"} -> Nat]

(* The sender is in control, or about to be.                               *)
Holds(s) == s.phase \in {"arming", "sending"}

(* Generations only grow on their way: what is under way is of the         *)
(* sender's generation or an older one, and of its own, while it is in     *)
(* control, only the activation and then keys.                             *)
Begins(m, g) == m.kind = "activate" /\ m.gen = g
InGeneration(s, r, q) ==
    /\ r.gen <= s.gen
    /\ \A i \in DOMAIN q : q[i].gen <= s.gen
    /\ \A i, j \in DOMAIN q : Begins(q[j], s.gen) => r.gen < s.gen /\ (q[i].gen = s.gen => j <= i)
    /\ Holds(s) => \A i \in DOMAIN q : q[i].gen = s.gen => q[i].kind \in {"activate", "key"}

(* Who knows best of key k: the last report of the hooks, the last order   *)
(* of this generation, the activation, the receiver.                       *)
On(e, k) == e.key = k
Sets(m, g, k) == m.kind = "key" /\ m.gen = g /\ m.key = k
Silent(hs, k) == \A i \in DOMAIN hs : ~On(hs[i], k)
Unset(q, g, k) == \A i \in DOMAIN q : ~Sets(q[i], g, k)

RightKey(k, v, hs, q, g, r) ==
    /\ \A i \in DOMAIN hs : On(hs[i], k) /\ (\A j \in DOMAIN hs : j > i => ~On(hs[j], k)) =>
           hs[i].down = v
    /\ Silent(hs, k) =>
           \A i \in DOMAIN q : Sets(q[i], g, k) /\ (\A j \in DOMAIN q : j > i => ~Sets(q[j], g, k)) =>
               q[i].down = v
    /\ Silent(hs, k) /\ Unset(q, g, k) =>
           /\ \A i \in DOMAIN q : Begins(q[i], g) => (k \in q[i].keys <=> v)
           /\ r.active /\ r.gen = g => (k \in r.held <=> v)

KeysFollow ==
    Holds(sender) /\ ~cut =>
        \A k \in Keys \ missed, v \in BOOLEAN :
            (v <=> k \in keyboard) => RightKey(k, v, hooked, toReceiver, sender.gen, receiver)

(* While capture starts the hooks report nothing.                          *)
HooksWait == sender.phase = "arming" => hooked = <<>>

InputInv ==
    /\ InputTypes /\ InGeneration(sender, receiver, toReceiver)
    /\ HooksWait /\ KeysFollow

(* What an order is, and what a queue grown by one is.                     *)
LEMMA OrderFacts ==
    ASSUME NEW m \in Orders
    PROVE  /\ m.gen \in Generations /\ m.gen \in Nat
           /\ m.kind \in {"activate", "key", "deactivate", "return"}
           /\ m.kind = "activate" => m.keys \in SUBSET Keys
           /\ m.kind = "key" => m.key \in Keys /\ m.down \in BOOLEAN
BY DEF Orders, Activations, KeyOrders, Endings, Generations

LEMMA OrdersAre ==
    ASSUME NEW g \in Generations, NEW k \in Keys, NEW ks \in SUBSET Keys, NEW d \in BOOLEAN
    PROVE  /\ [kind |-> "activate", gen |-> g, keys |-> ks] \in Orders
           /\ [kind |-> "key", gen |-> g, key |-> k, down |-> d] \in Orders
BY DEF Orders, Activations, KeyOrders

LEMMA EndingsAre ==
    ASSUME NEW g \in Generations
    PROVE  /\ [kind |-> "return", gen |-> g] \in Orders
           /\ [kind |-> "deactivate", gen |-> g] \in Orders
BY DEF Orders, Endings

LEMMA QueueGrows ==
    ASSUME NEW S, NEW q \in Seq(S), NEW m \in S
    PROVE  /\ Append(q, m) \in Seq(S) /\ Len(Append(q, m)) = Len(q) + 1 /\ Len(q) \in Nat
           /\ \A i \in 1..Len(q) : Append(q, m)[i] = q[i]
           /\ Append(q, m)[Len(q) + 1] = m
           /\ DOMAIN q = 1..Len(q) /\ DOMAIN Append(q, m) = 1..(Len(q) + 1)
OBVIOUS

LEMMA QueueShrinks ==
    ASSUME NEW S, NEW q \in Seq(S), q # <<>>
    PROVE  /\ Head(q) = q[1] /\ Head(q) \in S /\ Tail(q) \in Seq(S) /\ Len(Tail(q)) = Len(q) - 1
           /\ Len(q) \in Nat \ {0} /\ DOMAIN q = 1..Len(q) /\ DOMAIN Tail(q) = 1..(Len(q) - 1)
           /\ \A i \in 1..(Len(q) - 1) : Tail(q)[i] = q[i + 1]
OBVIOUS

(* The sender appends an order of its generation, or falls silent.         *)
LEMMA GenerationGoesOn ==
    ASSUME NEW s, NEW s2, NEW r, NEW q \in Seq(Orders), NEW m \in Orders,
           s.gen \in Nat, r.gen \in Nat, s2.gen = s.gen, InGeneration(s, r, q),
           m.gen = s.gen, m.kind # "activate", Holds(s2) => Holds(s) /\ m.kind = "key"
    PROVE  InGeneration(s2, r, Append(q, m))
<1> DEFINE a == Append(q, m)
<1>1. /\ Len(q) \in Nat /\ DOMAIN q = 1..Len(q) /\ DOMAIN a = 1..(Len(q) + 1)
      /\ \A i \in 1..Len(q) : a[i] = q[i]
      /\ a[Len(q) + 1] = m
  BY QueueGrows
<1> HIDE DEF a
<1>2. \A i \in DOMAIN a : (i \in DOMAIN q /\ a[i] = q[i]) \/ (i = Len(q) + 1 /\ a[i] = m)
  BY <1>1
<1>3. \A i \in DOMAIN a : a[i].gen <= s2.gen
  BY <1>2 DEF InGeneration
<1>4. \A i, j \in DOMAIN a : Begins(a[j], s2.gen) => r.gen < s2.gen /\ (a[i].gen = s2.gen => j <= i)
  BY <1>1, <1>2 DEF InGeneration, Begins
<1>5. Holds(s2) => \A i \in DOMAIN a : a[i].gen = s2.gen => a[i].kind \in {"activate", "key"}
  BY <1>2 DEF InGeneration
<1>6. r.gen <= s2.gen
  BY DEF InGeneration
<1>7. QED  BY <1>3, <1>4, <1>5, <1>6 DEF InGeneration, a

LEMMA GenerationHeard ==
    ASSUME NEW s, NEW r, NEW r2, NEW q \in Seq(Orders), q # <<>>,
           s.gen \in Nat, r.gen \in Nat, r2.gen \in Nat, InGeneration(s, r, q),
           r2.gen = r.gen \/ (r2.gen = Head(q).gen /\ Head(q).kind = "activate")
    PROVE  InGeneration(s, r2, Tail(q))
<1> DEFINE t == Tail(q)
           m == Head(q)
<1>1. /\ m = q[1] /\ m \in Orders /\ Len(q) \in Nat \ {0} /\ DOMAIN q = 1..Len(q)
      /\ DOMAIN t = 1..(Len(q) - 1) /\ \A i \in 1..(Len(q) - 1) : t[i] = q[i + 1]
  BY QueueShrinks
<1>G. \A i \in DOMAIN q : q[i].gen \in Nat
  BY OrderFacts
<1> HIDE DEF t, m
<1>2. \A i \in DOMAIN t : i + 1 \in DOMAIN q /\ t[i] = q[i + 1] /\ i \in Nat \ {0}
  BY <1>1
<1>3. 1 \in DOMAIN q /\ q[1] = m
  BY <1>1
<1>4. r2.gen <= s.gen /\ \A i \in DOMAIN t : t[i].gen <= s.gen
  BY <1>2, <1>3 DEF InGeneration, m
<1>5. ASSUME NEW i \in DOMAIN t, NEW j \in DOMAIN t, Begins(t[j], s.gen)
      PROVE  r2.gen < s.gen /\ (t[i].gen = s.gen => j <= i)
  <2>1. r.gen < s.gen /\ (q[i + 1].gen = s.gen => j + 1 <= i + 1) /\ (m.gen = s.gen => j + 1 <= 1)
    BY <1>2, <1>3, <1>5 DEF InGeneration
  <2>2. m.gen # s.gen /\ m.gen <= s.gen /\ m.gen \in Nat
    BY <1>2, <1>3, <1>G, <2>1 DEF InGeneration
  <2>3. r2.gen < s.gen
    BY <2>1, <2>2 DEF m
  <2>4. QED  BY <1>2, <2>1, <2>3
<1>6. Holds(s) => \A i \in DOMAIN t : t[i].gen = s.gen => t[i].kind \in {"activate", "key"}
  BY <1>2 DEF InGeneration
<1>7. QED  BY <1>4, <1>5, <1>6 DEF InGeneration, t

(* What is known of a key when a report becomes an order, and when the     *)
(* receiver takes one.                                                     *)
LEMMA RightForwarded ==
    ASSUME NEW k \in Keys, NEW v \in BOOLEAN, NEW hs \in Seq(Reports), hs # <<>>,
           NEW q \in Seq(Orders), NEW g \in Generations, NEW r, NEW m \in Orders,
           m.kind = "key", m.gen = g, m.key = Head(hs).key, m.down = Head(hs).down,
           RightKey(k, v, hs, q, g, r)
    PROVE  RightKey(k, v, Tail(hs), Append(q, m), g, r)
<1> DEFINE a == Append(q, m)
           t == Tail(hs)
           h == Head(hs)
<1>1. /\ Len(q) \in Nat /\ DOMAIN q = 1..Len(q) /\ DOMAIN a = 1..(Len(q) + 1)
      /\ \A i \in 1..Len(q) : a[i] = q[i]
      /\ a[Len(q) + 1] = m
  BY QueueGrows
<1>2. /\ h = hs[1] /\ Len(hs) \in Nat \ {0} /\ DOMAIN hs = 1..Len(hs)
      /\ DOMAIN t = 1..(Len(hs) - 1) /\ \A i \in 1..(Len(hs) - 1) : t[i] = hs[i + 1]
  BY QueueShrinks
<1>M. m.key = h.key /\ m.down = h.down
  OBVIOUS
<1> HIDE DEF a, t, h
<1>3. \A i \in DOMAIN a : (i \in DOMAIN q /\ a[i] = q[i] /\ i < Len(q) + 1)
         \/ (i = Len(q) + 1 /\ a[i] = m)
  BY <1>1
<1>4. \A i \in DOMAIN t : i + 1 \in DOMAIN hs /\ t[i] = hs[i + 1] /\ i \in Nat
  BY <1>2
<1>5. \A j \in DOMAIN hs : (j = 1 /\ hs[j] = h)
         \/ (j - 1 \in DOMAIN t /\ t[j - 1] = hs[j] /\ j \in Nat)
  BY <1>2
<1>6. ASSUME NEW i \in DOMAIN t, On(t[i], k), \A j \in DOMAIN t : j > i => ~On(t[j], k)
      PROVE  t[i].down = v
  <2>1. i + 1 \in DOMAIN hs /\ On(hs[i + 1], k) /\ t[i] = hs[i + 1] /\ i \in Nat
    BY <1>4, <1>6
  <2>2. \A j \in DOMAIN hs : j > i + 1 => ~On(hs[j], k)
    BY <1>2, <1>5, <1>6, <2>1
  <2>3. QED  BY <2>1, <2>2 DEF RightKey
<1>7. ASSUME Silent(t, k), On(h, k)
      PROVE  h.down = v
  <2>1. \A j \in DOMAIN hs : j > 1 => ~On(hs[j], k)
    BY <1>2, <1>5, <1>7 DEF Silent
  <2>2. 1 \in DOMAIN hs /\ hs[1] = h
    BY <1>2
  <2>3. QED  BY <1>7, <2>1, <2>2 DEF RightKey
<1>8. ASSUME Silent(t, k), ~On(h, k)
      PROVE  Silent(hs, k)
  BY <1>5, <1>8 DEF Silent
<1>9. Sets(m, g, k) <=> On(h, k)
  BY <1>M DEF Sets, On
<1>10. ASSUME Silent(t, k), NEW i \in DOMAIN a, Sets(a[i], g, k),
              \A j \in DOMAIN a : j > i => ~Sets(a[j], g, k)
       PROVE  a[i].down = v
  <2>1. CASE i = Len(q) + 1
    BY <1>3, <1>7, <1>9, <1>10, <1>M, <2>1, <1>1
  <2>2. CASE i # Len(q) + 1
    <3>1. i \in DOMAIN q /\ a[i] = q[i] /\ i < Len(q) + 1
      BY <1>3, <2>2
    <3>2. ~On(h, k)
      BY <1>1, <1>9, <1>10, <3>1
    <3>3. \A j \in DOMAIN q : j > i => ~Sets(q[j], g, k)
      BY <1>1, <1>10
    <3>4. QED  BY <1>8, <1>10, <3>1, <3>2, <3>3 DEF RightKey
  <2>3. QED  BY <2>1, <2>2
<1>11. ASSUME Silent(t, k), Unset(a, g, k)
       PROVE  /\ \A i \in DOMAIN a : Begins(a[i], g) => (k \in a[i].keys <=> v)
              /\ r.active /\ r.gen = g => (k \in r.held <=> v)
  <2>1. ~On(h, k) /\ Unset(q, g, k)
    BY <1>1, <1>9, <1>11 DEF Unset
  <2>2. Silent(hs, k)
    BY <1>8, <1>11, <2>1
  <2>3. ~Begins(m, g)
    BY DEF Begins
  <2>4. QED  BY <1>3, <2>1, <2>2, <2>3 DEF RightKey
<1>12. QED  BY <1>6, <1>10, <1>11 DEF RightKey, a, t

LEMMA RightHeard ==
    ASSUME NEW k \in Keys, NEW v \in BOOLEAN, NEW hs, NEW q \in Seq(Orders), q # <<>>,
           NEW g \in Generations, NEW r, NEW r2, NEW m, m = Head(q),
           r2.active /\ r2.gen = g =>
               \/ Begins(m, g) /\ r2.held = m.keys
               \/ Sets(m, g, k) /\ (k \in r2.held <=> m.down)
               \/ ~Sets(m, g, k) /\ r.active /\ r.gen = g /\ (k \in r2.held <=> k \in r.held),
           m.gen = g => \A i \in DOMAIN Tail(q) : ~Begins(Tail(q)[i], g),
           RightKey(k, v, hs, q, g, r)
    PROVE  RightKey(k, v, hs, Tail(q), g, r2)
<1> DEFINE t == Tail(q)
<1>1. /\ m = q[1] /\ Len(q) \in Nat \ {0} /\ DOMAIN q = 1..Len(q)
      /\ DOMAIN t = 1..(Len(q) - 1) /\ \A i \in 1..(Len(q) - 1) : t[i] = q[i + 1]
  BY QueueShrinks
<1> HIDE DEF t
<1>2. \A i \in DOMAIN t : i + 1 \in DOMAIN q /\ t[i] = q[i + 1] /\ i \in Nat
  BY <1>1
<1>3. \A j \in DOMAIN q : (j = 1 /\ q[j] = m)
         \/ (j - 1 \in DOMAIN t /\ t[j - 1] = q[j] /\ j \in Nat)
  BY <1>1
<1>4. 1 \in DOMAIN q /\ q[1] = m
  BY <1>1
<1>5. ASSUME Silent(hs, k), NEW i \in DOMAIN t, Sets(t[i], g, k),
             \A j \in DOMAIN t : j > i => ~Sets(t[j], g, k)
      PROVE  t[i].down = v
  <2>1. i + 1 \in DOMAIN q /\ t[i] = q[i + 1] /\ i \in Nat
    BY <1>2
  <2>2. \A j \in DOMAIN q : j > i + 1 => ~Sets(q[j], g, k)
    BY <1>3, <1>5, <2>1, <1>1
  <2>3. QED  BY <1>5, <2>1, <2>2 DEF RightKey
<1>6. ASSUME Silent(hs, k), Unset(t, g, k)
      PROVE  /\ \A i \in DOMAIN t : Begins(t[i], g) => (k \in t[i].keys <=> v)
             /\ r2.active /\ r2.gen = g => (k \in r2.held <=> v)
  <2>1. CASE Sets(m, g, k)
    <3>1. \A j \in DOMAIN q : j > 1 => ~Sets(q[j], g, k)
      BY <1>1, <1>3, <1>6 DEF Unset
    <3>2. m.down = v /\ ~Begins(m, g)
      BY <1>4, <1>6, <2>1, <3>1 DEF RightKey, Sets, Begins
    <3>3. r2.active /\ r2.gen = g => (k \in r2.held <=> v)
      BY <2>1, <3>2
    <3>4. \A i \in DOMAIN t : ~Begins(t[i], g)
      BY <2>1 DEF Sets, t
    <3>5. QED  BY <3>3, <3>4
  <2>2. CASE ~Sets(m, g, k)
    <3>1. Unset(q, g, k)
      BY <1>3, <1>6, <2>2 DEF Unset
    <3>2. /\ \A i \in DOMAIN q : Begins(q[i], g) => (k \in q[i].keys <=> v)
          /\ r.active /\ r.gen = g => (k \in r.held <=> v)
      BY <1>6, <3>1 DEF RightKey
    <3>3. QED  BY <1>2, <1>4, <2>2, <3>2
  <2>3. QED  BY <2>1, <2>2
<1>7. QED  BY <1>5, <1>6 DEF RightKey, t

(* The parts of the two ends that steps change.                            *)
LEMMA SenderFacts ==
    ASSUME NEW s \in SenderStates
    PROVE  /\ s.gen \in Generations /\ s.gen \in Nat /\ s.pressed \in SUBSET Keys
           /\ s.secure \in BOOLEAN /\ s.wants \in BOOLEAN /\ s.gate \in BOOLEAN
           /\ \A p \in SUBSET Keys :
                  /\ [s EXCEPT !.pressed = p] \in SenderStates
                  /\ [s EXCEPT !.pressed = p].gen = s.gen /\ [s EXCEPT !.pressed = p].phase = s.phase
           /\ \A ph \in {"watching", "arming", "sending"} :
                  /\ [s EXCEPT !.phase = ph] \in SenderStates /\ [s EXCEPT !.phase = ph].gen = s.gen
                  /\ [s EXCEPT !.phase = ph].phase = ph
           /\ \A b \in BOOLEAN :
                  /\ [s EXCEPT !.wants = b] \in SenderStates /\ [s EXCEPT !.wants = b].gen = s.gen
                  /\ [s EXCEPT !.wants = b].phase = s.phase
           /\ [s EXCEPT !.phase = "watching", !.wants = FALSE] \in SenderStates
           /\ [s EXCEPT !.phase = "watching", !.wants = FALSE].gen = s.gen
           /\ [s EXCEPT !.phase = "watching", !.wants = FALSE].phase = "watching"
           /\ \A b \in BOOLEAN :
                  LET e == [s EXCEPT !.up = FALSE, !.phase = "watching", !.wants = FALSE, !.gate = b]
                  IN e \in SenderStates /\ e.gen = s.gen /\ e.phase = "watching"
<1>1. /\ s.gen \in Generations /\ s.pressed \in SUBSET Keys
      /\ s.secure \in BOOLEAN /\ s.wants \in BOOLEAN /\ s.gate \in BOOLEAN
  BY DEF SenderStates
<1>2. s.gen \in Nat
  BY <1>1, InputAssumption DEF Generations
<1>3. ASSUME NEW p \in SUBSET Keys
      PROVE  /\ [s EXCEPT !.pressed = p] \in SenderStates
             /\ [s EXCEPT !.pressed = p].gen = s.gen /\ [s EXCEPT !.pressed = p].phase = s.phase
  BY DEF SenderStates
<1>4. ASSUME NEW ph \in {"watching", "arming", "sending"}
      PROVE  /\ [s EXCEPT !.phase = ph] \in SenderStates /\ [s EXCEPT !.phase = ph].gen = s.gen
             /\ [s EXCEPT !.phase = ph].phase = ph
  BY DEF SenderStates
<1>5. ASSUME NEW b \in BOOLEAN
      PROVE  /\ [s EXCEPT !.wants = b] \in SenderStates /\ [s EXCEPT !.wants = b].gen = s.gen
             /\ [s EXCEPT !.wants = b].phase = s.phase
  BY DEF SenderStates
<1>6. /\ [s EXCEPT !.phase = "watching", !.wants = FALSE] \in SenderStates
      /\ [s EXCEPT !.phase = "watching", !.wants = FALSE].gen = s.gen
      /\ [s EXCEPT !.phase = "watching", !.wants = FALSE].phase = "watching"
  BY DEF SenderStates
<1>7. ASSUME NEW b \in BOOLEAN
      PROVE  LET e == [s EXCEPT !.up = FALSE, !.phase = "watching", !.wants = FALSE, !.gate = b]
             IN e \in SenderStates /\ e.gen = s.gen /\ e.phase = "watching"
  BY DEF SenderStates
<1>8. QED  BY <1>1, <1>2, <1>3, <1>4, <1>5, <1>6, <1>7

LEMMA SenderGeneration ==
    ASSUME NEW s \in SenderStates
    PROVE  s.gen \in Generations /\ s.gen \in Nat
BY SenderFacts

LEMMA ReceiverFacts ==
    ASSUME NEW r \in ReceiverStates
    PROVE  /\ r.gen \in Generations /\ r.gen \in Nat /\ r.active \in BOOLEAN /\ r.held \in SUBSET Keys
           /\ r.secure \in BOOLEAN
           /\ [r EXCEPT !.active = FALSE, !.held = {}] \in ReceiverStates
           /\ [r EXCEPT !.active = FALSE, !.held = {}].gen = r.gen
           /\ [r EXCEPT !.active = FALSE, !.held = {}].active = FALSE
           /\ [r EXCEPT !.up = FALSE, !.active = FALSE, !.held = {}] \in ReceiverStates
           /\ [r EXCEPT !.up = FALSE, !.active = FALSE, !.held = {}].gen = r.gen
           /\ [r EXCEPT !.up = FALSE, !.active = FALSE, !.held = {}].active = FALSE
<1>1. /\ r.gen \in Generations /\ r.active \in BOOLEAN /\ r.held \in SUBSET Keys /\ r.secure \in BOOLEAN
  BY DEF ReceiverStates
<1>2. r.gen \in Nat
  BY <1>1, InputAssumption DEF Generations
<1>3. /\ [r EXCEPT !.active = FALSE, !.held = {}] \in ReceiverStates
      /\ [r EXCEPT !.up = FALSE, !.active = FALSE, !.held = {}] \in ReceiverStates
  BY DEF ReceiverStates
<1>4. QED  BY <1>1, <1>2, <1>3 DEF ReceiverStates

LEMMA TallyFacts ==
    ASSUME InputTypes, NEW what \in {"toggles", "upsets", "substreams"}, NEW bound, Count(what, bound)
    PROVE  tally' \in [{"toggles", "upsets", "substreams"} -> Nat]
BY DEF InputTypes, Count

LEMMA UpsetFacts ==
    ASSUME InputTypes, Upset
    PROVE  tally' \in [{"toggles", "upsets", "substreams"} -> Nat]
BY TallyFacts DEF Upset

(* The sender stops to hold, with or without a word.                       *)
LEMMA QuitKeeps ==
    ASSUME InputInv, sender' \in SenderStates, sender'.gen = sender.gen, sender'.phase = "watching",
           toReceiver' \in Seq(Orders), Len(toReceiver') <= Capacity,
           InGeneration(sender', receiver, toReceiver'),
           hooked' \in Seq(Reports), toSender' \in Seq(Requests), Len(toSender') <= Capacity,
           tally' \in [{"toggles", "upsets", "substreams"} -> Nat],
           missed' \in SUBSET Keys, UNCHANGED <<keyboard, receiver, cut, blocking>>
    PROVE  InputInv'
<1>1. InputTypes'
  BY DEF InputInv, InputTypes
<1>2. InGeneration(sender, receiver, toReceiver)'
  OBVIOUS
<1>3. HooksWait' /\ KeysFollow'
  BY DEF HooksWait, KeysFollow, Holds
<1>4. QED  BY <1>1, <1>2, <1>3 DEF InputInv

LEMMA EndingFits ==
    ASSUME NEW s \in SenderStates, NEW s2 \in SenderStates, s2.gen = s.gen, s2.phase = "watching",
           NEW r \in ReceiverStates, NEW q \in Seq(Orders), InGeneration(s, r, q)
    PROVE  /\ InGeneration(s2, r, q)
           /\ \A kind \in {"deactivate", "return"} :
                  /\ [kind |-> kind, gen |-> s.gen] \in Orders
                  /\ InGeneration(s2, r, Append(q, [kind |-> kind, gen |-> s.gen]))
<1>0. s.gen \in Generations /\ s.gen \in Nat /\ r.gen \in Nat
  BY SenderFacts, ReceiverFacts
<1>1. InGeneration(s2, r, q)
  BY DEF InGeneration, Holds
<1>2. ASSUME NEW kind \in {"deactivate", "return"}
      PROVE  /\ [kind |-> kind, gen |-> s.gen] \in Orders
             /\ InGeneration(s2, r, Append(q, [kind |-> kind, gen |-> s.gen]))
  <2>1. PICK m : m = [kind |-> kind, gen |-> s.gen]
    OBVIOUS
  <2>2. m \in Orders /\ m.gen = s.gen /\ m.kind # "activate"
    BY <1>0, <2>1, EndingsAre
  <2>3. ~Holds(s2)
    BY DEF Holds
  <2>4. InGeneration(s2, r, Append(q, m))
    BY <1>0, <2>2, <2>3, GenerationGoesOn
  <2>5. QED  BY <2>1, <2>2, <2>4
<1>3. QED  BY <1>1, <1>2

(* What a return, or none, leaves.                                         *)
LEMMA ReturnFacts ==
    ASSUME InputTypes, NEW s \in SenderStates, s.gen = sender.gen,
           NEW q \in Seq(Orders), Len(q) <= Capacity, InGeneration(s, receiver, q),
           ReturnNow(s, q) \/ FinishReturn(s, q)
    PROVE  /\ toReceiver' \in Seq(Orders) /\ Len(toReceiver') <= Capacity
           /\ sender' \in SenderStates /\ sender'.gen = s.gen
           /\ InGeneration(sender', receiver, toReceiver')
           /\ sender'.phase = "watching" \/ (sender' = s /\ toReceiver' = q /\ ~ReturnNow(s, q))
<1>0. sender \in SenderStates /\ receiver \in ReceiverStates /\ TRUE \in BOOLEAN
  BY DEF InputTypes
<1>1. CASE ReturnNow(s, q)
  <2>1. CASE Len(q) < Capacity
    <3>1. toReceiver' = Append(q, [kind |-> "return", gen |-> s.gen])
          /\ sender' = [s EXCEPT !.phase = "watching", !.wants = FALSE]
      BY <1>1, <2>1 DEF ReturnNow
    <3>2. sender' \in SenderStates /\ sender'.gen = s.gen /\ sender'.phase = "watching"
      BY <3>1, SenderFacts, <1>0
    <3>3. [kind |-> "return", gen |-> s.gen] \in Orders /\ InGeneration(sender', receiver, toReceiver')
      BY <1>0, <3>1, <3>2, EndingFits
    <3>4. toReceiver' \in Seq(Orders) /\ Len(toReceiver') <= Capacity
      BY <2>1, <3>1, <3>3, InputAssumption
    <3>5. QED  BY <3>2, <3>3, <3>4
  <2>2. CASE ~(Len(q) < Capacity)
    <3>1. toReceiver' = q
          /\ sender' = [sender EXCEPT !.up = FALSE, !.phase = "watching", !.wants = FALSE, !.gate = TRUE]
      BY <1>1, <2>2 DEF ReturnNow, SenderEnd
    <3>2. sender' \in SenderStates /\ sender'.gen = s.gen /\ sender'.phase = "watching"
      BY <3>1, SenderFacts, <1>0
    <3>3. InGeneration(sender', receiver, toReceiver')
      BY <1>0, <3>1, <3>2, EndingFits
    <3>4. QED  BY <3>1, <3>2, <3>3
  <2>3. QED  BY <2>1, <2>2
<1>2. CASE sender' = s /\ toReceiver' = q /\ ~ReturnNow(s, q)
  BY <1>2
<1>3. QED  BY <1>1, <1>2 DEF FinishReturn

(* The user.                                                               *)
LEMMA ToggleKeeps ==
    ASSUME InputInv, NEW k \in Keys, Toggle(k)
    PROVE  InputInv'
<1>0. InputTypes /\ InGeneration(sender, receiver, toReceiver) /\ HooksWait /\ KeysFollow
  BY DEF InputInv
<1>1. UNCHANGED <<sender, receiver, toReceiver, toSender, cut, blocking, lost>>
      /\ tally' \in [{"toggles", "upsets", "substreams"} -> Nat]
  BY <1>0, TallyFacts DEF Toggle
<1>2. PICK d \in BOOLEAN : d <=> k \notin keyboard
  OBVIOUS
<1>3. PICK e : e = [key |-> k, down |-> d]
  OBVIOUS
<1>4. e \in Reports /\ e.key = k /\ e.down = d
  BY <1>3 DEF Reports
<1>5. hooked' = IF InControl THEN Append(hooked, e) ELSE hooked
  BY <1>2, <1>3 DEF Toggle
<1>6. hooked \in Seq(Reports) /\ keyboard \in SUBSET Keys /\ missed \in SUBSET Keys
  BY <1>0 DEF InputTypes
<1>7. hooked' \in Seq(Reports)
  BY <1>4, <1>5, <1>6
<1>8. /\ keyboard' = (IF k \in keyboard THEN keyboard \ {k} ELSE keyboard \cup {k})
      /\ missed' = (IF sender.phase = "arming" THEN missed \cup {k} ELSE missed \ {k})
  BY DEF Toggle
<1>9. InputTypes'
  BY <1>0, <1>1, <1>6, <1>7, <1>8 DEF InputTypes
<1>10. HooksWait'
  BY <1>0, <1>1, <1>5 DEF HooksWait, InControl
<1>11. KeysFollow'
  <2> SUFFICES ASSUME Holds(sender), ~cut, NEW l \in Keys \ missed', NEW v \in BOOLEAN,
                      v <=> l \in keyboard'
               PROVE  RightKey(l, v, hooked', toReceiver, sender.gen, receiver)
    BY <1>1 DEF KeysFollow
  <2>1. CASE sender.phase = "arming"
    <3>1. l # k /\ l \in Keys \ missed /\ (v <=> l \in keyboard)
      BY <1>8, <2>1
    <3>2. hooked' = hooked
      BY <1>5, <2>1 DEF InControl
    <3>3. QED  BY <1>0, <3>1, <3>2 DEF KeysFollow
  <2>2. CASE sender.phase = "sending"
    <3>1. hooked' = Append(hooked, e)
      BY <1>5, <2>2 DEF InControl
    <3>2. /\ Len(hooked) \in Nat /\ DOMAIN hooked = 1..Len(hooked)
          /\ DOMAIN hooked' = 1..(Len(hooked) + 1)
          /\ \A i \in 1..Len(hooked) : hooked'[i] = hooked[i]
          /\ hooked'[Len(hooked) + 1] = e
      BY <1>4, <1>6, <3>1, QueueGrows
    <3>3. CASE l = k
      <4>1. On(e, l) /\ e.down = v
        BY <1>2, <1>4, <1>8, <3>3 DEF On
      <4>2. ~Silent(hooked', l)
        BY <3>2, <4>1 DEF Silent
      <4>3. ASSUME NEW i \in DOMAIN hooked', \A j \in DOMAIN hooked' : j > i => ~On(hooked'[j], l)
            PROVE  hooked'[i].down = v
        BY <3>2, <4>1, <4>3
      <4>4. QED  BY <4>2, <4>3 DEF RightKey
    <3>4. CASE l # k
      <4>1. ~On(e, l)
        BY <1>4, <3>4 DEF On
      <4>2. l \in Keys \ missed /\ (v <=> l \in keyboard)
        BY <1>8, <3>4
      <4>3. RightKey(l, v, hooked, toReceiver, sender.gen, receiver)
        BY <1>0, <4>2 DEF KeysFollow
      <4>4. Silent(hooked', l) => Silent(hooked, l)
        BY <3>2 DEF Silent
      <4>5. ASSUME NEW i \in DOMAIN hooked', On(hooked'[i], l),
                   \A j \in DOMAIN hooked' : j > i => ~On(hooked'[j], l)
            PROVE  hooked'[i].down = v
        <5>1. i \in DOMAIN hooked /\ hooked'[i] = hooked[i]
          BY <3>2, <4>1, <4>5
        <5>2. \A j \in DOMAIN hooked : j > i => ~On(hooked[j], l)
          BY <3>2, <4>5
        <5>3. QED  BY <4>3, <4>5, <5>1, <5>2 DEF RightKey
      <4>6. QED  BY <4>3, <4>4, <4>5 DEF RightKey
    <3>5. QED  BY <3>3, <3>4
  <2>3. QED  BY <2>1, <2>2 DEF Holds
<1>12. QED  BY <1>0, <1>1, <1>9, <1>10, <1>11 DEF InputInv

(* Control goes over.                                                      *)
LEMMA ActivateKeeps ==
    ASSUME InputInv, Activate
    PROVE  InputInv'
<1>0. InputTypes /\ InGeneration(sender, receiver, toReceiver) /\ HooksWait /\ KeysFollow
  BY DEF InputInv
<1>1. /\ sender \in SenderStates /\ receiver \in ReceiverStates /\ TRUE \in BOOLEAN
      /\ toReceiver \in Seq(Orders) /\ Len(toReceiver) <= Capacity /\ keyboard \in SUBSET Keys
  BY <1>0 DEF InputTypes
<1>2. /\ UNCHANGED <<keyboard, cut, blocking, hooked, receiver, toSender, lost, tally>>
      /\ missed' = {} /\ hooked = <<>> /\ sender.phase = "watching" /\ sender.gen < MaxGenerations
  BY DEF Activate, SenderTurn
<1>3. CASE Room(toReceiver)
  <2> DEFINE g == sender.gen + 1
  <2>1. PICK m : m = [kind |-> "activate", gen |-> g, keys |-> keyboard]
    OBVIOUS
  <2>2. /\ toReceiver' = Append(toReceiver, m)
        /\ sender' = [sender EXCEPT !.gen = g, !.phase = "arming", !.pressed = keyboard, !.wants = FALSE]
    BY <1>3, <2>1 DEF Activate
  <2>3. g \in Generations /\ sender.gen \in Nat
    <3>1. sender.gen \in 0..MaxGenerations /\ MaxGenerations \in Nat
      BY <1>1, SenderGeneration, InputAssumption DEF Generations
    <3>2. QED  BY <1>2, <3>1 DEF Generations
  <2>4. m \in Orders /\ m.gen = g /\ m.kind = "activate" /\ m.keys = keyboard
    BY <1>1, <2>1, <2>3 DEF Orders, Activations
  <2>5. sender' \in SenderStates /\ sender'.gen = g /\ sender'.phase = "arming"
    BY <1>1, <2>2, <2>3 DEF SenderStates
  <2> HIDE DEF g
  <2>6. /\ Len(toReceiver) \in Nat /\ DOMAIN toReceiver = 1..Len(toReceiver)
        /\ DOMAIN toReceiver' = 1..(Len(toReceiver) + 1)
        /\ \A i \in 1..Len(toReceiver) : toReceiver'[i] = toReceiver[i]
        /\ toReceiver'[Len(toReceiver) + 1] = m
        /\ toReceiver' \in Seq(Orders) /\ Len(toReceiver') = Len(toReceiver) + 1
    BY <1>1, <2>2, <2>4, QueueGrows
  <2>7. Len(toReceiver') <= Capacity
    BY <1>3, <2>6, InputAssumption DEF Room
  <2>8. InputTypes'
    BY <1>0, <1>2, <2>5, <2>6, <2>7 DEF InputTypes
  <2>9. /\ \A i \in DOMAIN toReceiver : toReceiver[i].gen < g /\ toReceiver[i].gen \in Nat
        /\ receiver.gen < g /\ g \in Nat
    <3>1. \A i \in DOMAIN toReceiver : toReceiver[i].gen \in Nat
      BY <1>1, OrderFacts
    <3>2. receiver.gen \in Nat
      BY <1>1, ReceiverFacts
    <3>3. QED  BY <1>0, <2>3, <3>1, <3>2 DEF InGeneration, g
  <2>10. \A i \in DOMAIN toReceiver' :
            \/ i \in DOMAIN toReceiver /\ toReceiver'[i] = toReceiver[i] /\ toReceiver'[i].gen < g
            \/ i = Len(toReceiver) + 1 /\ toReceiver'[i] = m
    BY <2>6, <2>9
  <2>11. InGeneration(sender', receiver, toReceiver')
    <3>1. \A i \in DOMAIN toReceiver' : toReceiver'[i].gen <= g
      BY <2>4, <2>9, <2>10
    <3>2. \A i \in DOMAIN toReceiver' : toReceiver'[i].gen = g => i = Len(toReceiver) + 1 /\ toReceiver'[i] = m
      BY <2>9, <2>10
    <3>3. \A i, j \in DOMAIN toReceiver' : Begins(toReceiver'[j], g) =>
              receiver.gen < g /\ (toReceiver'[i].gen = g => j <= i)
      BY <2>6, <2>9, <3>2 DEF Begins
    <3>4. \A i \in DOMAIN toReceiver' : toReceiver'[i].gen = g => toReceiver'[i].kind \in {"activate", "key"}
      BY <2>4, <3>2
    <3>5. receiver.gen <= g
      <4>1. receiver.gen \in Nat
        BY <1>1, ReceiverFacts
      <4>2. QED  BY <2>9, <4>1
    <3>6. QED  BY <2>5, <3>1, <3>3, <3>4, <3>5 DEF InGeneration
  <2>12. ASSUME NEW k \in Keys, NEW v \in BOOLEAN, v <=> k \in keyboard
         PROVE  RightKey(k, v, hooked, toReceiver', g, receiver)
    <3>1. DOMAIN hooked = {}
      BY <1>2
    <3>2. \A i \in DOMAIN toReceiver' : ~Sets(toReceiver'[i], g, k)
      BY <2>4, <2>9, <2>10 DEF Sets
    <3>3. \A i \in DOMAIN toReceiver' : Begins(toReceiver'[i], g) => (k \in toReceiver'[i].keys <=> v)
      BY <2>4, <2>9, <2>10, <2>12 DEF Begins
    <3>4. receiver.gen # g
      <4>1. receiver.gen \in Nat
        BY <1>1, ReceiverFacts
      <4>2. QED  BY <2>9, <4>1
    <3>5. QED  BY <3>1, <3>2, <3>3, <3>4 DEF RightKey
  <2>13. KeysFollow'
    BY <1>2, <2>5, <2>12 DEF KeysFollow
  <2>14. HooksWait'
    BY <1>2 DEF HooksWait
  <2>15. QED  BY <1>2, <2>8, <2>11, <2>13, <2>14 DEF InputInv
<1>4. CASE ~Room(toReceiver)
  <2>1. toReceiver' = toReceiver
        /\ sender' = [sender EXCEPT !.up = FALSE, !.phase = "watching", !.wants = FALSE, !.gate = TRUE]
    BY <1>4 DEF Activate, SenderEnd
  <2>2. sender' \in SenderStates /\ sender'.gen = sender.gen /\ sender'.phase = "watching"
    BY <1>1, <2>1, SenderFacts
  <2>3. InGeneration(sender', receiver, toReceiver')
    BY <1>0, <1>1, <2>1, <2>2, EndingFits
  <2>4. /\ hooked' \in Seq(Reports) /\ toSender' \in Seq(Requests) /\ Len(toSender') <= Capacity
        /\ tally' \in [{"toggles", "upsets", "substreams"} -> Nat] /\ missed' \in SUBSET Keys
    BY <1>0, <1>2 DEF InputTypes
  <2>5. QED  BY <1>1, <1>2, <2>1, <2>2, <2>3, <2>4, QuitKeeps
<1>5. QED  BY <1>3, <1>4

LEMMA CaptureKeeps ==
    ASSUME InputInv, Capture
    PROVE  InputInv'
<1>0. InputTypes /\ InGeneration(sender, receiver, toReceiver) /\ HooksWait /\ KeysFollow
  BY DEF InputInv
<1>1. sender \in SenderStates /\ receiver \in ReceiverStates /\ TRUE \in BOOLEAN
      /\ toReceiver \in Seq(Orders)
  BY <1>0 DEF InputTypes
<1>2. /\ sender.phase = "arming"
      /\ UNCHANGED <<keyboard, hooked, receiver, toReceiver, toSender, cut, blocking, missed, lost>>
  BY DEF Capture
<1>3. CASE sender' = [sender EXCEPT !.phase = "sending"] /\ UNCHANGED tally
  <2>1. sender' \in SenderStates /\ sender'.gen = sender.gen /\ sender'.phase = "sending"
    BY <1>1, <1>3, SenderFacts
  <2>2. InputTypes'
    BY <1>0, <1>2, <1>3, <2>1 DEF InputTypes
  <2>3. InGeneration(sender', receiver', toReceiver')
    BY <1>0, <1>2, <2>1 DEF InGeneration, Holds
  <2>4. HooksWait' /\ KeysFollow'
    BY <1>0, <1>2, <2>1 DEF HooksWait, KeysFollow, Holds
  <2>5. QED  BY <2>2, <2>3, <2>4 DEF InputInv
<1>4. CASE sender' = SenderEnd(TRUE) /\ Upset
  <2>1. sender' \in SenderStates /\ sender'.gen = sender.gen /\ sender'.phase = "watching"
    BY <1>1, <1>4, SenderFacts DEF SenderEnd
  <2>2. InGeneration(sender', receiver, toReceiver')
    BY <1>0, <1>1, <1>2, <2>1, EndingFits
  <2>3. /\ tally' \in [{"toggles", "upsets", "substreams"} -> Nat]
        /\ hooked' \in Seq(Reports) /\ toSender' \in Seq(Requests) /\ Len(toSender') <= Capacity
        /\ missed' \in SUBSET Keys /\ toReceiver' \in Seq(Orders) /\ Len(toReceiver') <= Capacity
    BY <1>0, <1>2, <1>4, UpsetFacts DEF InputTypes
  <2>4. QED  BY <1>2, <2>1, <2>2, <2>3, QuitKeeps
<1>5. QED  BY <1>3, <1>4 DEF Capture

(* A report becomes an order.                                              *)
LEMMA ForwardKeeps ==
    ASSUME InputInv, Forward
    PROVE  InputInv'
<1>0. InputTypes /\ InGeneration(sender, receiver, toReceiver) /\ HooksWait /\ KeysFollow
  BY DEF InputInv
<1>1. /\ sender \in SenderStates /\ receiver \in ReceiverStates /\ TRUE \in BOOLEAN
      /\ toReceiver \in Seq(Orders) /\ Len(toReceiver) <= Capacity /\ hooked \in Seq(Reports)
  BY <1>0 DEF InputTypes
<1>2. /\ UNCHANGED <<keyboard, cut, blocking, receiver, toSender, missed, lost, tally>>
      /\ hooked # <<>> /\ hooked' = Tail(hooked) /\ sender.phase # "arming"
  BY DEF Forward, SenderTurn
<1>3. PICK e : e = Head(hooked)
  OBVIOUS
<1>4. e \in Reports /\ e.key \in Keys /\ e.down \in BOOLEAN /\ hooked' \in Seq(Reports)
  <2>1. e \in Reports /\ hooked' \in Seq(Reports)
    BY <1>1, <1>2, <1>3, QueueShrinks
  <2>2. QED  BY <2>1 DEF Reports
<1>5. PICK p \in SUBSET Keys : p = IF e.down THEN sender.pressed \cup {e.key} ELSE sender.pressed \ {e.key}
  <2>1. sender.pressed \in SUBSET Keys
    BY <1>1, SenderFacts
  <2>2. QED  BY <1>4, <2>1
<1>6. PICK s : s = [sender EXCEPT !.pressed = p]
  OBVIOUS
<1>7. s \in SenderStates /\ s.gen = sender.gen /\ s.phase = sender.phase /\ s.gen \in Generations
  <2>1. s \in SenderStates
    BY <1>1, <1>5, <1>6 DEF SenderStates
  <2>2. s.gen = sender.gen /\ s.phase = sender.phase
    BY <1>1, <1>6 DEF SenderStates
  <2>3. QED  BY <2>1, <2>2, SenderGeneration
<1>T. /\ toSender' \in Seq(Requests) /\ Len(toSender') <= Capacity /\ missed' \in SUBSET Keys
      /\ tally' \in [{"toggles", "upsets", "substreams"} -> Nat]
  BY <1>0, <1>2 DEF InputTypes
<1>8. CASE ~InControl
  <2>1. UNCHANGED <<sender, toReceiver>>
    BY <1>8 DEF Forward
  <2>2. sender'.phase = "watching" /\ sender' \in SenderStates
    BY <1>1, <1>2, <1>8, <2>1 DEF InControl, SenderStates
  <2>3. QED  BY <1>0, <1>1, <1>2, <1>4, <1>T, <2>1, <2>2, QuitKeeps
<1>9. CASE InControl /\ Room(toReceiver)
  <2>1. PICK m : m = [kind |-> "key", gen |-> s.gen, key |-> e.key, down |-> e.down]
    OBVIOUS
  <2>2. m \in Orders /\ m.kind = "key" /\ m.gen = sender.gen /\ m.key = e.key /\ m.down = e.down
    BY <1>4, <1>7, <2>1 DEF Orders, KeyOrders
  <2>3. PICK q : q = Append(toReceiver, m)
    OBVIOUS
  <2>4. FinishReturn(s, q)
    BY <1>3, <1>5, <1>6, <1>9, <2>1, <2>3 DEF Forward
  <2>5. q \in Seq(Orders) /\ Len(q) <= Capacity
    BY <1>1, <1>9, <2>2, <2>3, InputAssumption DEF Room
  <2>6. InGeneration(s, receiver, q)
    <3>1. sender.gen \in Nat /\ receiver.gen \in Nat
      BY <1>1, SenderFacts, ReceiverFacts
    <3>2. Holds(s) => Holds(sender) /\ m.kind = "key"
      BY <1>7, <2>2 DEF Holds
    <3>3. QED  BY <1>0, <1>1, <1>7, <2>2, <2>3, <3>1, <3>2, GenerationGoesOn
  <2>7. /\ toReceiver' \in Seq(Orders) /\ Len(toReceiver') <= Capacity
        /\ sender' \in SenderStates /\ sender'.gen = sender.gen
        /\ InGeneration(sender', receiver, toReceiver')
        /\ sender'.phase = "watching" \/ (sender' = s /\ toReceiver' = q)
    BY <1>0, <1>7, <2>4, <2>5, <2>6, ReturnFacts
  <2>8. CASE sender'.phase = "watching"
    BY <1>2, <1>4, <1>T, <2>7, <2>8, QuitKeeps
  <2>9. CASE sender' = s /\ toReceiver' = q
    <3>1. InputTypes'
      BY <1>0, <1>2, <1>4, <1>T, <2>7 DEF InputTypes
    <3>2. HooksWait'
      BY <1>2, <1>7, <2>9 DEF HooksWait
    <3>3. ASSUME Holds(sender), ~cut, NEW k \in Keys \ missed, NEW v \in BOOLEAN, v <=> k \in keyboard
          PROVE  RightKey(k, v, hooked', toReceiver', sender'.gen, receiver)
      <4>1. RightKey(k, v, hooked, toReceiver, sender.gen, receiver)
        BY <1>0, <3>3 DEF KeysFollow
      <4>2. sender.gen \in Generations
        BY <1>1, SenderFacts
      <4>3. RightKey(k, v, Tail(hooked), Append(toReceiver, m), sender.gen, receiver)
        BY <1>1, <1>2, <1>3, <2>2, <4>1, <4>2, RightForwarded
      <4>4. QED  BY <1>2, <2>3, <2>7, <2>9, <4>3
    <3>4. KeysFollow'
      BY <1>2, <1>7, <2>9, <3>3 DEF KeysFollow, Holds
    <3>5. QED  BY <1>2, <2>7, <3>1, <3>2, <3>4 DEF InputInv
  <2>10. QED  BY <2>7, <2>8, <2>9
<1>10. CASE InControl /\ ~Room(toReceiver)
  <2>1. sender' = SenderEnd(TRUE) /\ UNCHANGED toReceiver
    BY <1>10 DEF Forward
  <2>2. sender' \in SenderStates /\ sender'.gen = sender.gen /\ sender'.phase = "watching"
    BY <1>1, <2>1, SenderFacts DEF SenderEnd
  <2>3. InGeneration(sender', receiver, toReceiver')
    BY <1>0, <1>1, <2>1, <2>2, EndingFits
  <2>4. QED  BY <1>1, <1>2, <1>4, <1>T, <2>1, <2>2, <2>3, QuitKeeps
<1>11. QED  BY <1>8, <1>9, <1>10

(* The sender reads the keys, is asked to return, or ends its part.        *)
LEMMA SenderKeeps ==
    ASSUME InputInv,
           \/ Poll \/ SenderHears \/ SenderTimesOut \/ SenderSecure \/ SenderStops \/ SenderLosesPeer
    PROVE  InputInv'
<1>0. InputTypes /\ InGeneration(sender, receiver, toReceiver) /\ HooksWait /\ KeysFollow
  BY DEF InputInv
<1>1. /\ sender \in SenderStates /\ receiver \in ReceiverStates /\ TRUE \in BOOLEAN /\ FALSE \in BOOLEAN
      /\ toReceiver \in Seq(Orders) /\ Len(toReceiver) <= Capacity /\ hooked \in Seq(Reports)
      /\ toSender \in Seq(Requests) /\ Len(toSender) <= Capacity /\ keyboard \in SUBSET Keys
      /\ missed \in SUBSET Keys /\ tally \in [{"toggles", "upsets", "substreams"} -> Nat]
  BY <1>0 DEF InputTypes
<1>2. UNCHANGED <<keyboard, cut, blocking, hooked, receiver, missed>>
  BY DEF Poll, SenderHears, SenderTimesOut, SenderSecure, SenderStops, SenderLosesPeer, SenderTurn
<1>3. hooked' \in Seq(Reports) /\ missed' \in SUBSET Keys
  BY <1>1, <1>2
<1>Q. ASSUME sender' \in SenderStates, sender'.gen = sender.gen, sender'.phase = "watching",
             toReceiver' \in Seq(Orders), Len(toReceiver') <= Capacity,
             InGeneration(sender', receiver, toReceiver'),
             toSender' \in Seq(Requests), Len(toSender') <= Capacity,
             tally' \in [{"toggles", "upsets", "substreams"} -> Nat]
      PROVE  InputInv'
  BY <1>2, <1>3, <1>Q, QuitKeeps
<1>S. ASSUME sender' \in SenderStates, sender'.gen = sender.gen, sender'.phase = sender.phase,
             UNCHANGED <<toReceiver, tally>>,
             toSender' \in Seq(Requests), Len(toSender') <= Capacity
      PROVE  InputInv'
  <2>1. InputTypes'
    BY <1>0, <1>2, <1>S DEF InputTypes
  <2>2. InGeneration(sender', receiver', toReceiver')
    BY <1>0, <1>2, <1>S DEF InGeneration, Holds
  <2>3. HooksWait' /\ KeysFollow'
    BY <1>0, <1>2, <1>S DEF HooksWait, KeysFollow, Holds
  <2>4. QED  BY <2>1, <2>2, <2>3 DEF InputInv
<1>E. ASSUME sender' \in SenderStates, sender'.gen = sender.gen, sender'.phase = "watching",
             UNCHANGED toReceiver \/ DropControl,
             UNCHANGED toSender, tally' \in [{"toggles", "upsets", "substreams"} -> Nat]
      PROVE  InputInv'
  <2>1. CASE UNCHANGED toReceiver
    <3>1. InGeneration(sender', receiver, toReceiver)
      BY <1>0, <1>1, <1>E, EndingFits
    <3>2. QED  BY <1>1, <1>E, <1>Q, <2>1, <3>1
  <2>2. CASE toReceiver' = Append(toReceiver, [kind |-> "deactivate", gen |-> sender.gen]) /\ Room(toReceiver)
    <3>1. [kind |-> "deactivate", gen |-> sender.gen] \in Orders
          /\ InGeneration(sender', receiver, toReceiver')
      BY <1>0, <1>1, <1>E, <2>2, EndingFits
    <3>2. toReceiver' \in Seq(Orders) /\ Len(toReceiver') <= Capacity
      BY <1>1, <2>2, <3>1, InputAssumption DEF Room
    <3>3. QED  BY <1>1, <1>E, <1>Q, <3>1, <3>2
  <2>3. QED  BY <1>E, <2>1, <2>2 DEF DropControl
<1>4. CASE Poll
  <2>1. PICK s : s = [sender EXCEPT !.pressed = keyboard]
    OBVIOUS
  <2>2. s \in SenderStates /\ s.gen = sender.gen /\ s.phase = sender.phase
    <3>1. s \in SenderStates
      BY <1>1, <2>1 DEF SenderStates
    <3>2. s.gen = sender.gen /\ s.phase = sender.phase
      BY <1>1, <2>1 DEF SenderStates
    <3>3. QED  BY <3>1, <3>2
  <2>3. FinishReturn(s, toReceiver) /\ UNCHANGED <<toSender, tally>>
    BY <1>4, <2>1 DEF Poll
  <2>4. InGeneration(s, receiver, toReceiver)
    BY <1>0, <2>2 DEF InGeneration, Holds
  <2>5. /\ toReceiver' \in Seq(Orders) /\ Len(toReceiver') <= Capacity
        /\ sender' \in SenderStates /\ sender'.gen = sender.gen
        /\ InGeneration(sender', receiver, toReceiver')
        /\ sender'.phase = "watching" \/ (sender' = s /\ toReceiver' = toReceiver)
    BY <1>0, <1>1, <2>2, <2>3, <2>4, ReturnFacts
  <2>6. QED  BY <1>1, <1>Q, <1>S, <2>2, <2>3, <2>5
<1>5. CASE SenderHears
  <2>1. toSender # <<>> /\ toSender' = Tail(toSender) /\ UNCHANGED tally
    BY <1>5 DEF SenderHears
  <2>2. toSender' \in Seq(Requests) /\ Len(toSender') <= Capacity
    BY <1>1, <2>1, InputAssumption
  <2>3. \/ UNCHANGED <<sender, toReceiver>>
        \/ sender' = [sender EXCEPT !.phase = "watching", !.wants = FALSE] /\ UNCHANGED toReceiver
        \/ sender' = [sender EXCEPT !.wants = TRUE] /\ UNCHANGED toReceiver
        \/ ReturnNow(sender, toReceiver)
    BY <1>5 DEF SenderHears, Watching
  <2>4. CASE UNCHANGED <<sender, toReceiver>>
    BY <1>1, <1>S, <2>1, <2>2, <2>4
  <2>5. CASE sender' = [sender EXCEPT !.phase = "watching", !.wants = FALSE] /\ UNCHANGED toReceiver
    <3>1. sender' \in SenderStates /\ sender'.gen = sender.gen /\ sender'.phase = "watching"
      BY <1>1, <2>5, SenderFacts
    <3>2. InGeneration(sender', receiver, toReceiver)
      BY <1>0, <1>1, <3>1, EndingFits
    <3>3. QED  BY <1>1, <1>Q, <2>1, <2>2, <2>5, <3>1, <3>2
  <2>6. CASE sender' = [sender EXCEPT !.wants = TRUE] /\ UNCHANGED toReceiver
    <3>1. sender' \in SenderStates /\ sender'.gen = sender.gen /\ sender'.phase = sender.phase
      BY <1>1, <2>6, SenderFacts
    <3>2. QED  BY <1>S, <2>1, <2>2, <2>6, <3>1
  <2>7. CASE ReturnNow(sender, toReceiver)
    <3>1. /\ toReceiver' \in Seq(Orders) /\ Len(toReceiver') <= Capacity
          /\ sender' \in SenderStates /\ sender'.gen = sender.gen
          /\ InGeneration(sender', receiver, toReceiver')
          /\ sender'.phase = "watching"
      BY <1>0, <1>1, <2>7, ReturnFacts
    <3>2. QED  BY <1>1, <1>Q, <2>1, <2>2, <3>1
  <2>8. QED  BY <2>3, <2>4, <2>5, <2>6, <2>7
<1>6. CASE SenderTimesOut
  <2>1. /\ sender' = [sender EXCEPT !.up = FALSE, !.phase = "watching", !.wants = FALSE, !.gate = TRUE]
        /\ UNCHANGED <<toReceiver, toSender>> /\ (UNCHANGED tally \/ Upset)
    BY <1>6 DEF SenderTimesOut, SenderEnd
  <2>2. sender' \in SenderStates /\ sender'.gen = sender.gen /\ sender'.phase = "watching"
    BY <1>1, <2>1, SenderFacts
  <2>3. QED  BY <1>0, <1>1, <1>E, <2>1, <2>2, UpsetFacts
<1>7. CASE SenderSecure
  <2>1. PICK b \in BOOLEAN : b = ~sender.secure
    BY <1>1, SenderFacts
  <2>2. PICK w : w = [sender EXCEPT !.phase = "watching", !.wants = FALSE]
    OBVIOUS
  <2>3. w \in SenderStates /\ w.gen = sender.gen /\ w.phase = "watching" /\ w.secure = sender.secure
    <3>1. w \in SenderStates
      BY <1>1, <2>2 DEF SenderStates
    <3>2. w.gen = sender.gen /\ w.phase = "watching" /\ w.secure = sender.secure
      BY <1>1, <2>2 DEF SenderStates
    <3>3. QED  BY <3>1, <3>2
  <2>4. sender' = [w EXCEPT !.secure = b]
    BY <1>7, <2>1, <2>2, <2>3 DEF SenderSecure, Watching
  <2>5. sender' \in SenderStates /\ sender'.gen = sender.gen /\ sender'.phase = "watching"
    BY <2>3, <2>4 DEF SenderStates
  <2>6. (UNCHANGED toReceiver \/ DropControl) /\ UNCHANGED toSender /\ Upset
    BY <1>7 DEF SenderSecure
  <2>7. QED  BY <1>0, <1>1, <1>E, <2>5, <2>6, UpsetFacts
<1>8. CASE SenderStops
  <2>1. PICK gate \in BOOLEAN :
          sender' = [sender EXCEPT !.up = FALSE, !.phase = "watching", !.wants = FALSE, !.gate = gate]
    BY <1>1, <1>8 DEF SenderStops, SenderEnd
  <2>2. sender' \in SenderStates /\ sender'.gen = sender.gen /\ sender'.phase = "watching"
    <3>1. sender' \in SenderStates
      BY <1>1, <2>1 DEF SenderStates
    <3>2. sender'.gen = sender.gen /\ sender'.phase = "watching"
      BY <1>1, <2>1 DEF SenderStates
    <3>3. QED  BY <3>1, <3>2
  <2>3. (UNCHANGED toReceiver \/ DropControl) /\ UNCHANGED toSender /\ Upset
    BY <1>8 DEF SenderStops
  <2>4. QED  BY <1>0, <1>1, <1>E, <2>2, <2>3, UpsetFacts
<1>9. CASE SenderLosesPeer
  <2>1. /\ sender' = [sender EXCEPT !.up = FALSE, !.phase = "watching", !.wants = FALSE, !.gate = TRUE]
        /\ UNCHANGED <<toReceiver, toSender, tally>>
    BY <1>9 DEF SenderLosesPeer, SenderEnd
  <2>2. sender' \in SenderStates /\ sender'.gen = sender.gen /\ sender'.phase = "watching"
    BY <1>1, <2>1, SenderFacts
  <2>3. QED  BY <1>1, <1>E, <2>1, <2>2
<1>10. QED  BY <1>4, <1>5, <1>6, <1>7, <1>8, <1>9

(* The receiver takes an order, or the backend refuses it.                 *)
(* What it is after the order: the activation brings the generation, a key *)
(* of the generation changes that key.                                     *)
LEMMA ObeysFacts ==
    ASSUME receiver \in ReceiverStates, NEW m \in Orders, NEW g \in Generations, NEW k \in Keys,
           receiver' = Obeys(m)
    PROVE  /\ receiver' \in ReceiverStates
           /\ receiver'.gen = receiver.gen \/ (receiver'.gen = m.gen /\ m.kind = "activate")
           /\ receiver'.active /\ receiver'.gen = g =>
                 \/ Begins(m, g) /\ receiver'.held = m.keys
                 \/ Sets(m, g, k) /\ (k \in receiver'.held <=> m.down)
                 \/ /\ ~Sets(m, g, k) /\ receiver.active /\ receiver.gen = g
                    /\ k \in receiver'.held <=> k \in receiver.held
<1>1. /\ m.gen \in Generations /\ m.kind \in {"activate", "key", "deactivate", "return"}
      /\ m.kind = "activate" => m.keys \in SUBSET Keys
      /\ m.kind = "key" => m.key \in Keys /\ m.down \in BOOLEAN
  BY OrderFacts
<1>2. receiver.held \in SUBSET Keys
  BY ReceiverFacts
<1>3. \/ /\ m.kind = "activate"
         /\ receiver' = [receiver EXCEPT !.gen = m.gen, !.active = TRUE, !.held = m.keys]
      \/ receiver' = [receiver EXCEPT !.active = FALSE, !.held = {}]
      \/ /\ m.kind = "key" /\ receiver.active /\ m.gen = receiver.gen
         /\ receiver' = [receiver EXCEPT !.held = IF m.down THEN receiver.held \cup {m.key}
                                                            ELSE receiver.held \ {m.key}]
      \/ /\ receiver' = receiver
         /\ ~(m.kind = "key" /\ receiver.active /\ m.gen = receiver.gen)
  BY <1>1 DEF Obeys, Released
<1>4. CASE /\ m.kind = "activate"
           /\ receiver' = [receiver EXCEPT !.gen = m.gen, !.active = TRUE, !.held = m.keys]
  <2>1. receiver' \in ReceiverStates /\ receiver'.gen = m.gen /\ receiver'.held = m.keys
    <3>1. receiver' \in ReceiverStates
      BY <1>1, <1>4 DEF ReceiverStates
    <3>2. QED  BY <1>4, <3>1 DEF ReceiverStates
  <2>2. QED  BY <1>4, <2>1 DEF Begins
<1>5. CASE receiver' = [receiver EXCEPT !.active = FALSE, !.held = {}]
  <2>1. receiver' \in ReceiverStates /\ receiver'.gen = receiver.gen /\ receiver'.active = FALSE
    BY <1>5, ReceiverFacts
  <2>2. QED  BY <2>1
<1>6. CASE /\ m.kind = "key" /\ receiver.active /\ m.gen = receiver.gen
           /\ receiver' = [receiver EXCEPT !.held = IF m.down THEN receiver.held \cup {m.key}
                                                              ELSE receiver.held \ {m.key}]
  <2>1. PICK h \in SUBSET Keys : h = IF m.down THEN receiver.held \cup {m.key} ELSE receiver.held \ {m.key}
    BY <1>1, <1>2, <1>6
  <2>2. /\ receiver' \in ReceiverStates /\ receiver'.gen = receiver.gen
        /\ receiver'.active = receiver.active /\ receiver'.held = h
    <3>1. receiver' = [receiver EXCEPT !.held = h]
      BY <1>6, <2>1
    <3>2. receiver' \in ReceiverStates
      BY <2>1, <3>1 DEF ReceiverStates
    <3>3. QED  BY <3>1, <3>2 DEF ReceiverStates
  <2>3. CASE m.key = k
    BY <1>1, <1>6, <2>1, <2>2, <2>3 DEF Sets
  <2>4. CASE m.key # k
    BY <1>1, <1>6, <2>1, <2>2, <2>4 DEF Sets
  <2>5. QED  BY <2>3, <2>4
<1>7. CASE receiver' = receiver /\ ~(m.kind = "key" /\ receiver.active /\ m.gen = receiver.gen)
  BY <1>7 DEF Sets
<1>8. QED  BY <1>3, <1>4, <1>5, <1>6, <1>7

LEMMA ObeysTypes ==
    ASSUME receiver \in ReceiverStates, NEW m \in Orders, receiver' = Obeys(m)
    PROVE  /\ receiver' \in ReceiverStates
           /\ receiver'.gen = receiver.gen \/ (receiver'.gen = m.gen /\ m.kind = "activate")
<1>1. /\ m.gen \in Generations
      /\ m.kind = "activate" => m.keys \in SUBSET Keys
      /\ m.kind = "key" => m.key \in Keys /\ m.down \in BOOLEAN
  BY OrderFacts
<1>2. receiver.held \in SUBSET Keys
  BY ReceiverFacts
<1>3. \/ receiver' = receiver
      \/ /\ m.kind = "activate"
         /\ receiver' = [receiver EXCEPT !.gen = m.gen, !.active = TRUE, !.held = m.keys]
      \/ receiver' = [receiver EXCEPT !.active = FALSE, !.held = {}]
      \/ \E h \in SUBSET Keys : receiver' = [receiver EXCEPT !.held = h]
  BY <1>1, <1>2 DEF Obeys, Released
<1>4. ASSUME NEW h \in SUBSET Keys, receiver' = [receiver EXCEPT !.held = h]
      PROVE  receiver' \in ReceiverStates /\ receiver'.gen = receiver.gen
  <2>1. receiver' \in ReceiverStates
    BY <1>4 DEF ReceiverStates
  <2>2. QED  BY <1>4, <2>1 DEF ReceiverStates
<1>5. ASSUME m.kind = "activate",
             receiver' = [receiver EXCEPT !.gen = m.gen, !.active = TRUE, !.held = m.keys]
      PROVE  receiver' \in ReceiverStates /\ receiver'.gen = m.gen
  <2>1. receiver' \in ReceiverStates
    BY <1>1, <1>5 DEF ReceiverStates
  <2>2. QED  BY <1>5, <2>1 DEF ReceiverStates
<1>6. ASSUME receiver' = [receiver EXCEPT !.active = FALSE, !.held = {}]
      PROVE  receiver' \in ReceiverStates /\ receiver'.gen = receiver.gen
  BY <1>6, ReceiverFacts
<1>7. QED  BY <1>3, <1>4, <1>5, <1>6

LEMMA HearsKeeps ==
    ASSUME InputInv, ReceiverHears
    PROVE  InputInv'
<1>0. InputTypes /\ InGeneration(sender, receiver, toReceiver) /\ HooksWait /\ KeysFollow
  BY DEF InputInv
<1>1. /\ sender \in SenderStates /\ receiver \in ReceiverStates
      /\ toReceiver \in Seq(Orders) /\ Len(toReceiver) <= Capacity
  BY <1>0 DEF InputTypes
<1>2. /\ UNCHANGED <<keyboard, hooked, sender, toSender, cut, blocking, missed>>
      /\ toReceiver # <<>> /\ toReceiver' = Tail(toReceiver)
  BY DEF ReceiverHears
<1>3. PICK m : m = Head(toReceiver)
  OBVIOUS
<1>4. m \in Orders /\ toReceiver' \in Seq(Orders) /\ Len(toReceiver') = Len(toReceiver) - 1
      /\ Len(toReceiver) \in Nat /\ m = toReceiver[1] /\ DOMAIN toReceiver = 1..Len(toReceiver)
      /\ Len(toReceiver) # 0 /\ DOMAIN toReceiver' = 1..(Len(toReceiver) - 1)
      /\ \A i \in 1..(Len(toReceiver) - 1) : toReceiver'[i] = toReceiver[i + 1]
  BY <1>1, <1>2, <1>3, QueueShrinks
<1>5. Len(toReceiver') <= Capacity /\ sender.gen \in Generations /\ sender.gen \in Nat
  BY <1>1, <1>4, InputAssumption, SenderGeneration
<1>6. (receiver' = Obeys(m) /\ UNCHANGED tally)
      \/ (receiver' = [receiver EXCEPT !.up = FALSE, !.active = FALSE, !.held = {}] /\ Upset)
  BY <1>3 DEF ReceiverHears, ReceiverEnd
<1>7. tally' \in [{"toggles", "upsets", "substreams"} -> Nat]
  BY <1>0, <1>6, UpsetFacts DEF InputTypes
<1>8. /\ receiver' \in ReceiverStates
      /\ receiver'.gen = receiver.gen \/ (receiver'.gen = m.gen /\ m.kind = "activate")
      /\ \A k \in Keys : receiver'.active /\ receiver'.gen = sender.gen =>
                 \/ Begins(m, sender.gen) /\ receiver'.held = m.keys
                 \/ Sets(m, sender.gen, k) /\ (k \in receiver'.held <=> m.down)
                 \/ /\ ~Sets(m, sender.gen, k) /\ receiver.active /\ receiver.gen = sender.gen
                    /\ k \in receiver'.held <=> k \in receiver.held
  <2>1. CASE receiver' = Obeys(m)
    <3>1. ASSUME NEW k \in Keys
          PROVE  /\ receiver' \in ReceiverStates
                 /\ receiver'.gen = receiver.gen \/ (receiver'.gen = m.gen /\ m.kind = "activate")
                 /\ receiver'.active /\ receiver'.gen = sender.gen =>
                       \/ Begins(m, sender.gen) /\ receiver'.held = m.keys
                       \/ Sets(m, sender.gen, k) /\ (k \in receiver'.held <=> m.down)
                       \/ /\ ~Sets(m, sender.gen, k) /\ receiver.active /\ receiver.gen = sender.gen
                          /\ k \in receiver'.held <=> k \in receiver.held
      BY <1>1, <1>4, <1>5, <2>1, ObeysFacts
    <3>2. /\ receiver' \in ReceiverStates
          /\ receiver'.gen = receiver.gen \/ (receiver'.gen = m.gen /\ m.kind = "activate")
      BY <1>1, <1>4, <2>1, ObeysTypes
    <3>3. QED  BY <3>1, <3>2
  <2>2. CASE receiver' = [receiver EXCEPT !.up = FALSE, !.active = FALSE, !.held = {}]
    BY <1>1, <2>2, ReceiverFacts
  <2>3. QED  BY <1>6, <2>1, <2>2
<1>9. InputTypes'
  BY <1>0, <1>2, <1>4, <1>5, <1>7, <1>8 DEF InputTypes
<1>10. InGeneration(sender, receiver', toReceiver')
  <2>1. receiver.gen \in Nat /\ receiver'.gen \in Nat
    BY <1>1, <1>8, ReceiverFacts
  <2>2. InGeneration(sender, receiver', Tail(toReceiver))
    BY <1>0, <1>1, <1>2, <1>3, <1>5, <1>8, <2>1, GenerationHeard
  <2>3. QED  BY <1>2, <2>2
<1>11. ASSUME m.gen = sender.gen, NEW i \in DOMAIN toReceiver', Begins(toReceiver'[i], sender.gen)
       PROVE  FALSE
  <2>1. i + 1 \in DOMAIN toReceiver /\ toReceiver'[i] = toReceiver[i + 1] /\ 1 \in DOMAIN toReceiver
        /\ i \in Nat /\ i >= 1
    BY <1>4
  <2>2. i + 1 <= 1
    BY <1>0, <1>4, <1>11, <2>1 DEF InGeneration
  <2>3. QED  BY <2>1, <2>2
<1>12. KeysFollow'
  <2> SUFFICES ASSUME Holds(sender), ~cut, NEW k \in Keys \ missed, NEW v \in BOOLEAN, v <=> k \in keyboard
               PROVE  RightKey(k, v, hooked, toReceiver', sender.gen, receiver')
    BY <1>2 DEF KeysFollow
  <2>1. RightKey(k, v, hooked, toReceiver, sender.gen, receiver)
    BY <1>0 DEF KeysFollow
  <2>2. m.gen = sender.gen => \A i \in DOMAIN Tail(toReceiver) : ~Begins(Tail(toReceiver)[i], sender.gen)
    BY <1>2, <1>11
  <2>3. receiver'.active /\ receiver'.gen = sender.gen =>
              \/ Begins(m, sender.gen) /\ receiver'.held = m.keys
              \/ Sets(m, sender.gen, k) /\ (k \in receiver'.held <=> m.down)
              \/ /\ ~Sets(m, sender.gen, k) /\ receiver.active /\ receiver.gen = sender.gen
                 /\ k \in receiver'.held <=> k \in receiver.held
    BY <1>8
  <2>4. RightKey(k, v, hooked, Tail(toReceiver), sender.gen, receiver')
    BY <1>1, <1>2, <1>3, <1>5, <2>1, <2>2, <2>3, RightHeard
  <2>5. QED  BY <1>2, <2>4
<1>13. HooksWait'
  BY <1>0, <1>2 DEF HooksWait
<1>14. InGeneration(sender', receiver', toReceiver')
  BY <1>2, <1>10
<1>15. QED  BY <1>9, <1>12, <1>13, <1>14 DEF InputInv

(* The receiver does something else: it holds what it held, or nothing.    *)
LEMMA RestKeeps ==
    ASSUME InputInv, UNCHANGED <<keyboard, hooked, sender, toReceiver, cut, blocking, missed>>,
           receiver' \in ReceiverStates, receiver'.gen = receiver.gen,
           receiver'.active => receiver.active /\ receiver'.held = receiver.held,
           toSender' \in Seq(Requests), Len(toSender') <= Capacity,
           tally' \in [{"toggles", "upsets", "substreams"} -> Nat]
    PROVE  InputInv'
<1>0. InputTypes /\ InGeneration(sender, receiver, toReceiver) /\ HooksWait /\ KeysFollow
  BY DEF InputInv
<1>1. InputTypes'
  BY <1>0 DEF InputTypes
<1>2. InGeneration(sender', receiver', toReceiver')
  BY <1>0 DEF InGeneration
<1>3. ASSUME NEW k, NEW v, RightKey(k, v, hooked, toReceiver, sender.gen, receiver)
      PROVE  RightKey(k, v, hooked, toReceiver, sender.gen, receiver')
  BY <1>3 DEF RightKey
<1>4. KeysFollow' /\ HooksWait'
  BY <1>0, <1>3 DEF KeysFollow, HooksWait
<1>5. QED  BY <1>1, <1>2, <1>4 DEF InputInv

LEMMA ReceiverKeeps ==
    ASSUME InputInv, AskReturn \/ ReceiverSecure \/ ReceiverStops \/ ReceiverLosesPeer
    PROVE  InputInv'
<1>0. InputTypes
  BY DEF InputInv
<1>1. receiver \in ReceiverStates /\ toSender \in Seq(Requests) /\ Len(toSender) <= Capacity
      /\ tally \in [{"toggles", "upsets", "substreams"} -> Nat]
  BY <1>0 DEF InputTypes
<1>2. UNCHANGED <<keyboard, hooked, sender, toReceiver, cut, blocking, missed>>
  BY DEF AskReturn, ReceiverSecure, ReceiverStops, ReceiverLosesPeer, ReceiverTurn
<1>3. tally' \in [{"toggles", "upsets", "substreams"} -> Nat]
  <2>1. UNCHANGED tally \/ Upset
    BY DEF AskReturn, ReceiverSecure, ReceiverStops, ReceiverLosesPeer
  <2>2. QED  BY <1>0, <1>1, <2>1, UpsetFacts
<1>4. ASSUME NEW kind \in {"ask", "deactivate"}
      PROVE  [kind |-> kind, gen |-> receiver.gen] \in Requests
  <2>1. receiver.gen \in Generations
    BY <1>1, ReceiverFacts
  <2>2. QED  BY <2>1 DEF Requests
<1>5. toSender' \in Seq(Requests) /\ Len(toSender') <= Capacity
  <2>1. \/ UNCHANGED toSender
        \/ \E kind \in {"ask", "deactivate"} :
              Room(toSender) /\ toSender' = Append(toSender, [kind |-> kind, gen |-> receiver.gen])
    BY DEF AskReturn, ReceiverSecure, ReceiverStops, ReceiverLosesPeer, GiveControl
  <2>2. ASSUME NEW kind \in {"ask", "deactivate"}, Room(toSender),
               toSender' = Append(toSender, [kind |-> kind, gen |-> receiver.gen])
        PROVE  toSender' \in Seq(Requests) /\ Len(toSender') <= Capacity
    <3>1. PICK m : m = [kind |-> kind, gen |-> receiver.gen]
      OBVIOUS
    <3>2. m \in Requests /\ toSender' = Append(toSender, m)
      BY <1>4, <2>2, <3>1
    <3>3. QED  BY <1>1, <2>2, <3>2, InputAssumption DEF Room
  <2>3. QED  BY <1>1, <2>1, <2>2
<1>6. /\ receiver' \in ReceiverStates /\ receiver'.gen = receiver.gen
      /\ receiver'.active => receiver.active /\ receiver'.held = receiver.held
  <2>1. \/ receiver' = receiver
        \/ receiver' = [receiver EXCEPT !.secure = FALSE]
        \/ receiver' = [[receiver EXCEPT !.active = FALSE, !.held = {}] EXCEPT !.secure = TRUE]
        \/ receiver' = [receiver EXCEPT !.up = FALSE, !.active = FALSE, !.held = {}]
    BY DEF AskReturn, ReceiverSecure, ReceiverStops, ReceiverLosesPeer, ReceiverEnd, Released
  <2>2. ASSUME receiver' = [receiver EXCEPT !.secure = FALSE]
        PROVE  /\ receiver' \in ReceiverStates /\ receiver'.gen = receiver.gen
               /\ receiver'.active = receiver.active /\ receiver'.held = receiver.held
    <3>1. receiver' \in ReceiverStates
      BY <1>1, <2>2 DEF ReceiverStates
    <3>2. QED  BY <1>1, <2>2, <3>1 DEF ReceiverStates
  <2>3. ASSUME receiver' = [[receiver EXCEPT !.active = FALSE, !.held = {}] EXCEPT !.secure = TRUE]
        PROVE  /\ receiver' \in ReceiverStates /\ receiver'.gen = receiver.gen
               /\ receiver'.active = FALSE
    <3>1. PICK w : w = [receiver EXCEPT !.active = FALSE, !.held = {}]
      OBVIOUS
    <3>2. w \in ReceiverStates /\ w.gen = receiver.gen /\ w.active = FALSE
      BY <1>1, <3>1, ReceiverFacts
    <3>3. receiver' = [w EXCEPT !.secure = TRUE]
      BY <2>3, <3>1
    <3>4. receiver' \in ReceiverStates
      BY <3>2, <3>3 DEF ReceiverStates
    <3>5. QED  BY <3>2, <3>3, <3>4 DEF ReceiverStates
  <2>4. ASSUME receiver' = [receiver EXCEPT !.up = FALSE, !.active = FALSE, !.held = {}]
        PROVE  /\ receiver' \in ReceiverStates /\ receiver'.gen = receiver.gen
               /\ receiver'.active = FALSE
    BY <1>1, <2>4, ReceiverFacts
  <2>5. QED  BY <1>1, <2>1, <2>2, <2>3, <2>4
<1>7. QED  BY <1>2, <1>3, <1>5, <1>6, RestKeeps

LEMMA EmptyQueue == \A S : <<>> \in Seq(S) /\ Len(<<>>) <= Capacity
BY InputAssumption

(* The connection breaks; a new substream.                                 *)
LEMMA CutKeeps ==
    ASSUME InputInv, Cut
    PROVE  InputInv'
<1>0. InputTypes /\ InGeneration(sender, receiver, toReceiver) /\ HooksWait
  BY DEF InputInv
<1>1. /\ UNCHANGED <<keyboard, hooked, sender, receiver, blocking, missed>>
      /\ cut' = TRUE /\ toReceiver' = <<>> /\ toSender' = <<>>
  BY DEF Cut
<1>2. tally' \in [{"toggles", "upsets", "substreams"} -> Nat]
  BY <1>0, UpsetFacts DEF Cut
<1>3. InputTypes'
  BY <1>0, <1>1, <1>2, InputAssumption DEF InputTypes
<1>4. InGeneration(sender', receiver', toReceiver')
  BY <1>0, <1>1 DEF InGeneration
<1>5. HooksWait' /\ KeysFollow'
  BY <1>0, <1>1 DEF HooksWait, KeysFollow
<1>6. QED  BY <1>3, <1>4, <1>5 DEF InputInv

LEMMA StartFacts ==
    ASSUME NEW gate \in BOOLEAN
    PROVE  /\ SenderStart(gate) \in SenderStates /\ SenderStart(gate).gen = 0
           /\ SenderStart(gate).phase = "watching"
           /\ ReceiverStart \in ReceiverStates /\ ReceiverStart.gen = 0
<1>1. 0 \in Generations
  BY InputAssumption DEF Generations
<1>2. QED  BY <1>1 DEF SenderStart, ReceiverStart, SenderStates, ReceiverStates

(* A substream in which nothing is under way.                              *)
LEMMA FreshInput ==
    ASSUME InputTypes, sender.phase = "watching", receiver.gen = 0, sender.gen = 0, toReceiver = <<>>
    PROVE  InputInv
BY DEF InputInv, InGeneration, HooksWait, KeysFollow, Holds

LEMMA ReestablishKeeps ==
    ASSUME InputInv, Reestablish
    PROVE  InputInv'
<1>0. InputTypes /\ sender \in SenderStates
  BY DEF InputInv, InputTypes
<1>1. PICK gate \in BOOLEAN : gate = sender.gate
  BY <1>0, SenderFacts
<1>2. /\ sender' = SenderStart(gate) /\ receiver' = ReceiverStart
      /\ toReceiver' = <<>> /\ toSender' = <<>> /\ cut' = FALSE /\ hooked' = <<>>
      /\ UNCHANGED <<keyboard, blocking, missed>>
  BY <1>1 DEF Reestablish
<1>3. tally' \in [{"toggles", "upsets", "substreams"} -> Nat]
  BY <1>0, TallyFacts DEF Reestablish
<1>4. /\ sender' \in SenderStates /\ sender'.gen = 0 /\ sender'.phase = "watching"
      /\ receiver' \in ReceiverStates /\ receiver'.gen = 0
  BY <1>1, <1>2, StartFacts
<1>5. InputTypes'
  BY <1>0, <1>2, <1>3, <1>4, EmptyQueue DEF InputTypes
<1>6. InGeneration(sender', receiver', toReceiver')
  BY <1>2, <1>4 DEF InGeneration, Holds
<1>7. HooksWait' /\ KeysFollow'
  BY <1>4 DEF HooksWait, KeysFollow, Holds
<1>8. QED  BY <1>5, <1>6, <1>7 DEF InputInv

LEMMA InputKeeps ==
    ASSUME InputInv, [InputNext]_inputVars
    PROVE  InputInv'
<1>1. ASSUME NEW k \in Keys, Toggle(k) PROVE InputInv'
  BY <1>1, ToggleKeeps
<1>2. CASE Activate
  BY <1>2, ActivateKeeps
<1>3. CASE Capture
  BY <1>3, CaptureKeeps
<1>4. CASE Forward
  BY <1>4, ForwardKeeps
<1>5. CASE Poll \/ SenderHears \/ SenderTimesOut \/ SenderSecure \/ SenderStops \/ SenderLosesPeer
  BY <1>5, SenderKeeps
<1>6. CASE ReceiverHears
  BY <1>6, HearsKeeps
<1>7. CASE AskReturn \/ ReceiverSecure \/ ReceiverStops \/ ReceiverLosesPeer
  BY <1>7, ReceiverKeeps
<1>8. CASE Cut
  BY <1>8, CutKeeps
<1>9. CASE Reestablish
  BY <1>9, ReestablishKeeps
<1>10. CASE UNCHANGED inputVars
  BY <1>10 DEF inputVars, InputInv, InputTypes, HooksWait, KeysFollow
<1>11. QED
  BY <1>1, <1>2, <1>3, <1>4, <1>5, <1>6, <1>7, <1>8, <1>9, <1>10
  DEF InputNext, SenderGoesOn, ReceiverGoesOn

LEMMA InputBegins ==
    ASSUME InputInit \/ InputOver
    PROVE  InputInv
<1>1. FALSE \in BOOLEAN /\ MaxToggles \in Nat /\ MaxUpsets \in Nat /\ MaxSubstreams \in Nat
  BY InputAssumption
<1>2. /\ SenderStart(FALSE) \in SenderStates /\ SenderStart(FALSE).gen = 0
      /\ SenderStart(FALSE).phase = "watching"
      /\ ReceiverStart \in ReceiverStates /\ ReceiverStart.gen = 0
  BY <1>1, StartFacts
<1>3. /\ sender \in SenderStates /\ sender.gen = 0 /\ sender.phase = "watching"
      /\ receiver \in ReceiverStates /\ receiver.gen = 0
  <2>1. CASE InputInit
    BY <1>2, <2>1 DEF InputInit
  <2>2. CASE InputOver
    <3>1. PICK s : s = SenderStart(FALSE)
      OBVIOUS
    <3>2. s \in SenderStates /\ s.gen = 0 /\ s.phase = "watching" /\ sender = [s EXCEPT !.up = FALSE]
      BY <1>2, <2>2, <3>1 DEF InputOver
    <3>3. sender \in SenderStates /\ sender.gen = 0 /\ sender.phase = "watching"
      BY <3>2 DEF SenderStates
    <3>4. PICK r : r = ReceiverStart
      OBVIOUS
    <3>5. r \in ReceiverStates /\ r.gen = 0 /\ receiver = [r EXCEPT !.up = FALSE]
      BY <1>2, <2>2, <3>4 DEF InputOver
    <3>6. receiver \in ReceiverStates /\ receiver.gen = 0
      BY <3>5 DEF ReceiverStates
    <3>7. QED  BY <3>3, <3>6
  <2>3. QED  BY <2>1, <2>2
<1>4. /\ keyboard = {} /\ hooked = <<>> /\ toReceiver = <<>> /\ toSender = <<>> /\ missed = {}
      /\ cut = FALSE /\ blocking \in BOOLEAN
  BY DEF InputInit, InputOver
<1>5. tally \in [{"toggles", "upsets", "substreams"} -> Nat]
  <2>1. CASE InputInit
    BY <2>1 DEF InputInit
  <2>2. CASE InputOver
    BY <1>1, <2>2 DEF InputOver
  <2>3. QED  BY <2>1, <2>2
<1>6. InputTypes
  BY <1>3, <1>4, <1>5, EmptyQueue DEF InputTypes
<1>7. QED  BY <1>3, <1>4, <1>6, FreshInput

LEMMA KeysAreRight ==
    ASSUME InputInv
    PROVE  KeysAgree
<1>0. InputTypes /\ KeysFollow
  BY DEF InputInv
<1>1. SUFFICES ASSUME Settled
               PROVE  receiver.held \ missed = keyboard \ missed
  BY DEF KeysAgree
<1>2. receiver.held \in SUBSET Keys /\ keyboard \in SUBSET Keys
  BY <1>0, ReceiverFacts DEF InputTypes
<1>3. ASSUME NEW k \in Keys \ missed
      PROVE  k \in receiver.held <=> k \in keyboard
  <2>1. PICK v \in BOOLEAN : v <=> k \in keyboard
    OBVIOUS
  <2>2. RightKey(k, v, hooked, toReceiver, sender.gen, receiver)
    BY <1>0, <1>1, <2>1 DEF KeysFollow, Settled, InControl, Holds
  <2>3. hooked = <<>> /\ toReceiver = <<>> /\ receiver.active /\ receiver.gen = sender.gen
    BY <1>1 DEF Settled
  <2>4. k \in receiver.held <=> v
    BY <2>2, <2>3 DEF RightKey, Silent, Unset
  <2>5. QED  BY <2>1, <2>4
<1>4. QED  BY <1>2, <1>3

(* What the receiver holds for the user is what the user holds, wherever   *)
(* nothing is under way: KeysAgree of InputControl, for every number of    *)
(* keys, capacity of the queues and bound.                                 *)
THEOREM HeldKeysAgree == InputSpec => []KeysAgree
<1>1. InputInit => InputInv
  BY InputBegins
<1>2. InputInv /\ [InputNext]_inputVars => InputInv'
  BY InputKeeps
<1>3. InputInv => KeysAgree
  BY KeysAreRight
<1>4. QED  BY <1>1, <1>2, <1>3, PTL DEF InputSpec

-----------------------------------------------------------------------------
(* Reconnection: SessionAgreed.  A decision for the client is under way on *)
(* an open connection only when its host has entered the session; whatever *)
(* takes the session away closes that connection, or the client has opened *)
(* another, on which nothing was said yet.                                 *)

HostWords == {"", "tls", "hello", "request"} \cup Pins
ClientWords == {"", "tls", "challenge", "ack", "error", "accepted", "trusting"}
Connections == [open : BOOLEAN, tls : BOOLEAN, toHost : HostWords, toClient : ClientWords]

ReconnectRecords ==
    /\ "at" \in DOMAIN client /\ "task" \in DOMAIN host /\ "live" \in DOMAIN host
    /\ conn \in Connections

Granted(c, k) == c.at \in {"session", "remember"} \/ k.toClient \in {"accepted", "trusting"}

SessionInv ==
    /\ ReconnectRecords
    /\ conn.open /\ Granted(client, conn) => host.live = "up"

(* What the steps of the client make of it, and what a connection that     *)
(* closes or opens leaves.                                                 *)
LEMMA ClientMoves ==
    ASSUME NEW c, "at" \in DOMAIN c, NEW s
    PROVE  "at" \in DOMAIN [c EXCEPT !.at = s] /\ [c EXCEPT !.at = s].at = s
OBVIOUS

LEMMA FailedMoves ==
    ASSUME NEW c, "at" \in DOMAIN c, NEW terminal
    PROVE  "at" \in DOMAIN Failed(c, terminal)
           /\ Failed(c, terminal).at \in {"over", "retry", "wait"}
BY DEF Failed

LEMMA ClosedFacts == Closed \in Connections /\ Closed.open = FALSE /\ Closed.toClient = ""
BY DEF Closed, Connections, HostWords, ClientWords

LEMMA FirstFacts ==
    ASSUME NEW m \in HostWords
    PROVE  /\ [Closed EXCEPT !.open = TRUE, !.toHost = m] \in Connections
           /\ [Closed EXCEPT !.open = TRUE, !.toHost = m].toClient = ""
<1>1. [Closed EXCEPT !.open = TRUE, !.toHost = m] \in Connections
  BY ClosedFacts DEF Connections
<1>2. QED  BY <1>1, ClosedFacts DEF Connections

LEMMA SendsFacts ==
    ASSUME ReconnectRecords, NEW m \in HostWords, Sends(m)
    PROVE  conn' \in Connections /\ conn'.open = conn.open /\ conn'.toClient = ""
<1>1. "" \in ClientWords
  BY DEF ClientWords
<1>2. conn' = [conn EXCEPT !.toClient = "", !.toHost = m] /\ conn \in Connections
  BY DEF Sends, ReconnectRecords
<1>3. conn' \in Connections
  BY <1>1, <1>2 DEF Connections
<1>4. QED  BY <1>2, <1>3 DEF Connections

LEMMA SaysFacts ==
    ASSUME ReconnectRecords, NEW m \in ClientWords, Says(m)
    PROVE  conn' \in Connections /\ conn'.open = conn.open /\ conn'.toClient = m
<1>1. "" \in HostWords
  BY DEF HostWords
<1>2. conn' = [conn EXCEPT !.toHost = "", !.toClient = m] /\ conn \in Connections
  BY DEF Says, ReconnectRecords
<1>3. conn' \in Connections
  BY <1>1, <1>2 DEF Connections
<1>4. QED  BY <1>2, <1>3 DEF Connections

LEMMA LeavesFacts ==
    ASSUME ReconnectRecords, NEW m \in ClientWords, Leaves(m)
    PROVE  conn' \in Connections /\ conn'.open = FALSE
<1>1. "" \in HostWords
  BY DEF HostWords
<1>2. conn' = [conn EXCEPT !.open = FALSE, !.toHost = "", !.toClient = m] /\ conn \in Connections
  BY DEF Leaves, ReconnectRecords
<1>3. conn' \in Connections
  BY <1>1, <1>2 DEF Connections
<1>4. QED  BY <1>2, <1>3 DEF Connections

(* The connection breaks, and what was under way may be lost with it.      *)
LEMMA BreaksFacts ==
    ASSUME ReconnectRecords,
           \/ conn' = [conn EXCEPT !.open = FALSE]
           \/ conn' = [conn EXCEPT !.open = FALSE, !.toHost = ""]
           \/ conn' = [conn EXCEPT !.open = FALSE, !.toHost = "", !.toClient = ""]
    PROVE  conn' \in Connections /\ conn'.open = FALSE
<1>1. "" \in HostWords /\ "" \in ClientWords /\ conn \in Connections
  BY DEF HostWords, ClientWords, ReconnectRecords
<1>2. conn' \in Connections
  BY <1>1 DEF Connections
<1>3. QED  BY <1>1, <1>2 DEF Connections

LEMMA QuietFacts ==
    ASSUME ReconnectRecords, conn' = [conn EXCEPT !.toClient = ""]
    PROVE  conn' \in Connections /\ conn'.open = conn.open /\ conn'.toClient = ""
<1>1. "" \in ClientWords /\ conn \in Connections
  BY DEF ClientWords, ReconnectRecords
<1>2. conn' \in Connections
  BY <1>1 DEF Connections
<1>3. QED  BY <1>1, <1>2 DEF Connections

LEMMA HostFacts ==
    ASSUME ReconnectRecords
    PROVE  /\ \A s : HostTask(s) => /\ "task" \in DOMAIN host' /\ "live" \in DOMAIN host'
                                    /\ host'.live = host.live
           /\ \A s : host' = [host EXCEPT !.live = s] =>
                  "task" \in DOMAIN host' /\ "live" \in DOMAIN host' /\ host'.live = s
           /\ \A s, u : host' = [task |-> s, live |-> u] =>
                  "task" \in DOMAIN host' /\ "live" \in DOMAIN host' /\ host'.live = u
BY DEF ReconnectRecords, HostTask

(* A step that closes the connection, or opens one, keeps the invariant;   *)
(* and one that leaves the host's session alone and grants nothing.        *)
LEMMA ShutKeeps ==
    ASSUME ReconnectRecords', conn'.open = FALSE
    PROVE  SessionInv'
BY DEF SessionInv

LEMMA QuietKeeps ==
    ASSUME SessionInv, ReconnectRecords', conn'.open = conn.open,
           Granted(client', conn') => Granted(client, conn), host'.live = host.live
    PROVE  SessionInv'
BY DEF SessionInv

LEMMA FreshKeeps ==
    ASSUME ReconnectRecords', conn'.toClient = "", client'.at \in {"mtls", "hello"}
    PROVE  SessionInv'
BY DEF SessionInv, Granted

(* The client.                                                             *)
LEMMA OpensFresh ==
    ASSUME ReconnectRecords, NEW first \in {"tls", "hello"}, Opens(first)
    PROVE  /\ conn' \in Connections
           /\ conn'.toClient = "" /\ "task" \in DOMAIN host' /\ "live" \in DOMAIN host'
<1>1. conn' = [Closed EXCEPT !.open = TRUE, !.toHost = first] /\ first \in HostWords
  BY DEF Opens, HostWords
<1>2. /\ conn' \in Connections
      /\ conn'.toClient = ""
  BY <1>1, FirstFacts
<1>3. "task" \in DOMAIN host' /\ "live" \in DOMAIN host'
  BY DEF Opens
<1>4. QED  BY <1>2, <1>3

LEMMA FallBackKeeps ==
    ASSUME ReconnectRecords, FallsBack
    PROVE  SessionInv'
<1>1. CASE Stage("hello") /\ Opens("hello")
  <2>1. "at" \in DOMAIN client' /\ client'.at = "hello"
    BY <1>1, ClientMoves DEF ReconnectRecords, Stage
  <2>2. QED  BY <1>1, <2>1, OpensFresh, FreshKeeps DEF ReconnectRecords
<1>2. CASE client' = Failed(client, FALSE) /\ conn' = Closed /\ host' = [host EXCEPT !.live = Dead]
  <2>1. "at" \in DOMAIN client'
    BY <1>2, FailedMoves DEF ReconnectRecords
  <2>2. conn' \in Connections /\ conn'.open = FALSE
    BY <1>2, ClosedFacts
  <2>3. "task" \in DOMAIN host' /\ "live" \in DOMAIN host'
    BY <1>2 DEF ReconnectRecords
  <2>4. QED  BY <2>1, <2>2, <2>3, ShutKeeps DEF ReconnectRecords
<1>3. QED  BY <1>1, <1>2 DEF FallsBack

LEMMA ClientKeeps ==
    ASSUME SessionInv, ClientSteps \/ Told \/ Users
    PROVE  SessionInv'
<1>0. ReconnectRecords /\ conn \in Connections /\ (conn.open /\ Granted(client, conn) => host.live = "up")
  BY DEF SessionInv, ReconnectRecords
<1>W. {"request"} \cup {""} \cup Pins \subseteq HostWords
  BY DEF HostWords
<1>B. ASSUME client' = Failed(client, TRUE), conn' = Closed,
             host' = host \/ host' = [host EXCEPT !.live = Dead]
      PROVE  SessionInv'
  <2>1. "at" \in DOMAIN client'
    BY <1>0, <1>B, FailedMoves DEF ReconnectRecords
  <2>2. "task" \in DOMAIN host' /\ "live" \in DOMAIN host'
    BY <1>0, <1>B DEF ReconnectRecords
  <2>3. QED  BY <1>B, <2>1, <2>2, ClosedFacts, ShutKeeps DEF ReconnectRecords
<1>1. CASE Dial
  <2>1. PICK tls \in BOOLEAN : tls <=> (trust.client \/ (ByAddress(Target) /\ setup.trustedOnly))
    OBVIOUS
  <2>2. PICK knows : knows = (client.known /\ Target # "known")
    OBVIOUS
  <2>3. PICK c : c = [client EXCEPT !.via = Target, !.known = knows]
    OBVIOUS
  <2>4. "at" \in DOMAIN c
    BY <1>0, <2>3 DEF ReconnectRecords
  <2>5. \/ \E old : /\ client' = [c EXCEPT !.at = IF tls THEN "mtls" ELSE "hello", !.stale = old]
                   /\ Opens(IF tls THEN "tls" ELSE "hello")
        \/ client' = Failed(c, FALSE) /\ UNCHANGED <<conn, host>>
    BY <1>1, <2>1, <2>2, <2>3 DEF Dial
  <2>6. ASSUME NEW old, client' = [c EXCEPT !.at = IF tls THEN "mtls" ELSE "hello", !.stale = old],
               Opens(IF tls THEN "tls" ELSE "hello")
        PROVE  SessionInv'
    <3>1. "at" \in DOMAIN client' /\ client'.at \in {"mtls", "hello"}
      BY <2>4, <2>6
    <3>2. PICK first \in {"tls", "hello"} : Opens(first)
      BY <2>6
    <3>3. QED  BY <1>0, <3>1, <3>2, OpensFresh, FreshKeeps DEF ReconnectRecords
  <2>7. CASE client' = Failed(c, FALSE) /\ UNCHANGED <<conn, host>>
    <3>1. "at" \in DOMAIN client' /\ client'.at \in {"over", "retry", "wait"}
      BY <2>4, <2>7, FailedMoves
    <3>2. QED  BY <1>0, <2>7, <3>1 DEF SessionInv, ReconnectRecords, Granted
  <2>8. QED  BY <2>5, <2>6, <2>7
<1>2. CASE Backoff \/ SessionEnds
  <2>1. "at" \in DOMAIN client' /\ client'.at = "retry" /\ UNCHANGED <<conn, host>>
    BY <1>0, <1>2 DEF Backoff, SessionEnds, ReconnectRecords
  <2>2. QED  BY <1>0, <2>1 DEF SessionInv, ReconnectRecords, Granted
<1>3. CASE TrustedFails
  BY <1>0, <1>3, FallBackKeeps DEF TrustedFails
<1>4. CASE BootstrapFails
  BY <1>4, <1>B DEF BootstrapFails
<1>5. CASE TrustedRequests \/ ChallengeArrives \/ BootstrapRequests \/ (\E pin \in Pins : EnterPin(pin))
  <2>1. PICK to \in {"answer", "pin", "decision", "ack"}, m \in HostWords : Stage(to) /\ Sends(m) /\ UNCHANGED host
    BY <1>5, <1>W DEF TrustedRequests, ChallengeArrives, BootstrapRequests, EnterPin, Proceeds
  <2>2. "at" \in DOMAIN client' /\ client'.at = to
    BY <1>0, <2>1 DEF Stage, ReconnectRecords
  <2>3. conn' \in Connections /\ conn'.toClient = ""
    BY <1>0, <2>1, SendsFacts
  <2>4. QED  BY <1>0, <2>1, <2>2, <2>3 DEF SessionInv, ReconnectRecords, Granted
<1>6. CASE TrustedDecided
  <2>1. CASE client' = InSession(client) /\ conn' = [conn EXCEPT !.toClient = ""] /\ UNCHANGED host
    <3>1. "at" \in DOMAIN client' /\ Granted(client, conn)
      BY <1>0, <1>6, <2>1 DEF InSession, TrustedDecided, ReconnectRecords, Granted
    <3>2. conn' \in Connections /\ conn'.open = conn.open
      BY <1>0, <2>1, QuietFacts
    <3>3. QED  BY <1>0, <2>1, <3>1, <3>2 DEF SessionInv, ReconnectRecords
  <2>2. CASE FallsBack
    BY <1>0, <2>2, FallBackKeeps
  <2>3. QED  BY <1>6, <2>1, <2>2 DEF TrustedDecided
<1>7. CASE BootstrapDecided
  <2>1. "at" \in DOMAIN client' /\ Granted(client, conn) /\ UNCHANGED host
    BY <1>0, <1>7 DEF InSession, Stage, BootstrapDecided, ReconnectRecords, Granted
  <2>2. conn' \in Connections /\ conn'.open = conn.open
    BY <1>0, <1>7, QuietFacts DEF BootstrapDecided
  <2>3. QED  BY <1>0, <2>1, <2>2 DEF SessionInv, ReconnectRecords
<1>8. CASE \E yes, saved \in BOOLEAN : ClientRemembers(yes, saved)
  <2>1. CASE client.at = "remember" /\ client' = InSession(client) /\ UNCHANGED <<conn, host>>
    <3>1. "at" \in DOMAIN client' /\ Granted(client, conn)
      BY <1>0, <2>1 DEF InSession, ReconnectRecords, Granted
    <3>2. QED  BY <1>0, <2>1, <3>1 DEF SessionInv, ReconnectRecords
  <2>2. CASE client' = Failed(client, TRUE) /\ conn' = Closed /\ host' = [host EXCEPT !.live = Dead]
    BY <1>B, <2>2
  <2>3. QED  BY <1>8, <2>1, <2>2 DEF ClientRemembers
<1>9. CASE Told
  <2>1. "at" \in DOMAIN client' /\ "task" \in DOMAIN host' /\ "live" \in DOMAIN host'
    BY <1>0, <1>9 DEF Told, ReconnectRecords
  <2>2. conn' \in Connections /\ conn'.open = FALSE
    BY <1>0, <1>9, BreaksFacts DEF Told
  <2>3. QED  BY <2>1, <2>2, ShutKeeps DEF ReconnectRecords
<1>10. QED
  BY <1>1, <1>2, <1>3, <1>4, <1>5, <1>6, <1>7, <1>8, <1>9 DEF ClientSteps, Users

(* The host.  A connection that is completed is granted with its session.  *)
LEMMA JoinedFacts ==
    ASSUME NEW c \in Connections, NEW m \in ClientWords
    PROVE  /\ [c EXCEPT !.toHost = "", !.toClient = m, !.tls = TRUE] \in Connections
           /\ [c EXCEPT !.toHost = "", !.toClient = m, !.tls = TRUE].open = c.open
<1>1. "" \in HostWords
  BY DEF HostWords
<1>2. [c EXCEPT !.toHost = "", !.toClient = m, !.tls = TRUE] \in Connections
  BY <1>1 DEF Connections
<1>3. QED  BY <1>2 DEF Connections

LEMMA CompleteKeeps ==
    ASSUME SessionInv, NEW m \in ClientWords, Complete(conn, m), UNCHANGED client
    PROVE  SessionInv'
<1>0. ReconnectRecords /\ conn \in Connections
  BY DEF SessionInv, ReconnectRecords
<1>1. CASE host.live # "none"
  <2>1. "task" \in DOMAIN host' /\ "live" \in DOMAIN host'
    BY <1>0, <1>1 DEF Complete, ReconnectRecords
  <2>2. conn' \in Connections /\ conn'.open = FALSE
    <3>1. Leaves(m)
      BY <1>1 DEF Complete, Leaves
    <3>2. QED  BY <1>0, <3>1, LeavesFacts
  <2>3. QED  BY <1>0, <2>1, <2>2, ShutKeeps DEF ReconnectRecords
<1>2. CASE host.live = "none"
  <2>1. conn' \in Connections /\ conn'.open = conn.open
    BY <1>0, <1>2, JoinedFacts DEF Complete
  <2>2. "task" \in DOMAIN host' /\ "live" \in DOMAIN host' /\ (conn.open => host'.live = "up")
    BY <1>2 DEF Complete
  <2>3. QED  BY <1>0, <2>1, <2>2 DEF SessionInv, ReconnectRecords
<1>3. QED  BY <1>1, <1>2

LEMMA HostKeeps ==
    ASSUME SessionInv,
           \/ HostSteps \/ HostNotices \/ OtherDone \/ Forgive
           \/ \E accepted, remember, saved \in BOOLEAN : HostDecides(accepted, remember, saved)
           \/ \E remember \in BOOLEAN : OrphanDecides(remember)
           \/ Troubles
    PROVE  SessionInv'
<1>0. ReconnectRecords /\ conn \in Connections /\ (conn.open /\ Granted(client, conn) => host.live = "up")
  BY DEF SessionInv, ReconnectRecords
<1>W. {"", "tls", "challenge", "ack", "error", "accepted", "trusting"} \subseteq ClientWords
  BY DEF ClientWords
<1>S. ASSUME NEW m \in {"", "tls", "challenge", "ack"}, Says(m), NEW s, HostTask(s), UNCHANGED client
      PROVE  SessionInv'
  <2>1. conn' \in Connections /\ conn'.open = conn.open /\ conn'.toClient = m
    BY <1>0, <1>W, <1>S, SaysFacts
  <2>2. "task" \in DOMAIN host' /\ "live" \in DOMAIN host' /\ host'.live = host.live
    BY <1>0, <1>S, HostFacts
  <2>3. QED  BY <1>0, <1>S, <2>1, <2>2 DEF SessionInv, ReconnectRecords, Granted
<1>L. ASSUME NEW m \in ClientWords, Leaves(m), UNCHANGED host \/ \E s : HostTask(s), UNCHANGED client
      PROVE  SessionInv'
  <2>1. conn' \in Connections /\ conn'.open = FALSE
    BY <1>0, <1>L, LeavesFacts
  <2>2. "task" \in DOMAIN host' /\ "live" \in DOMAIN host'
    BY <1>0, <1>L, HostFacts DEF ReconnectRecords
  <2>3. QED  BY <1>0, <1>L, <2>1, <2>2, ShutKeeps DEF ReconnectRecords
<1>1. CASE AcceptTls \/ AcceptHello \/ HostChecksPin \/ HostTakesRequest \/ HostGivesUp
  <2>1. UNCHANGED client
    BY <1>1 DEF AcceptTls, AcceptHello, HostChecksPin, HostTakesRequest, HostGivesUp
  <2>2. CASE AcceptTls
    <3>1. (HostTask("request") /\ Says("tls")) \/ (Leaves("") /\ UNCHANGED host)
      BY <2>2 DEF AcceptTls
    <3>2. QED  BY <1>S, <1>L, <1>W, <2>1, <3>1
  <2>3. CASE AcceptHello
    <3>1. (HostTask("pake") /\ Says("challenge")) \/ (Leaves("error") /\ UNCHANGED host)
      BY <2>3 DEF AcceptHello
    <3>2. QED  BY <1>S, <1>L, <1>W, <2>1, <3>1
  <2>4. CASE HostChecksPin
    <3>1. (HostTask("upgrade") /\ Says("ack")) \/ (HostTask("none") /\ Leaves("error"))
      BY <2>4 DEF HostChecksPin
    <3>2. QED  BY <1>S, <1>L, <1>W, <2>1, <3>1
  <2>5. CASE HostTakesRequest
    <3>1. HostTask("decide") /\ Says("")
      BY <2>5 DEF HostTakesRequest
    <3>2. QED  BY <1>S, <2>1, <3>1
  <2>6. CASE HostGivesUp
    <3>1. HostTask("none") /\ Leaves("")
      BY <2>6 DEF HostGivesUp
    <3>2. QED  BY <1>L, <1>W, <2>1, <3>1
  <2>7. QED  BY <1>1, <2>2, <2>3, <2>4, <2>5, <2>6
<1>2. CASE HostDecidesTrusted
  <2>1. \/ Complete(conn, "accepted")
        \/ HostTask("none") /\ (Leaves("accepted") \/ Leaves("error"))
    BY <1>2 DEF HostDecidesTrusted
  <2>2. UNCHANGED client /\ "accepted" \in ClientWords /\ "error" \in ClientWords
    BY <1>2, <1>W DEF HostDecidesTrusted
  <2>3. QED  BY <1>L, <2>1, <2>2, CompleteKeeps
<1>3. ASSUME NEW accepted \in BOOLEAN, NEW remember \in BOOLEAN, NEW saved \in BOOLEAN,
             HostDecides(accepted, remember, saved)
      PROVE  SessionInv'
  <2>1. PICK m \in ClientWords : m = Decision(remember)
    BY <1>W DEF Decision
  <2>2. \/ Complete(conn, m)
        \/ HostTask("none") /\ (Leaves(m) \/ Leaves("error"))
    BY <1>3, <2>1 DEF HostDecides
  <2>3. UNCHANGED client /\ "error" \in ClientWords
    BY <1>3, <1>W DEF HostDecides
  <2>4. QED  BY <1>L, <2>2, <2>3, CompleteKeeps
<1>4. ASSUME NEW remember \in BOOLEAN, OrphanDecides(remember)
      PROVE  SessionInv'
  <2>1. PICK live : host' = [task |-> "none", live |-> live] /\ (host.live = "up" => live = "up")
    BY <1>4 DEF OrphanDecides
  <2>2. UNCHANGED <<client, conn>>
    BY <1>4 DEF OrphanDecides
  <2>3. QED  BY <1>0, <2>1, <2>2 DEF SessionInv, ReconnectRecords, Granted
<1>5. CASE HostNotices
  <2>1. /\ "task" \in DOMAIN host' /\ "live" \in DOMAIN host'
        /\ host.live = "dead" /\ UNCHANGED <<client, conn>>
    BY <1>0, <1>5 DEF HostNotices, ReconnectRecords
  <2>2. QED  BY <1>0, <2>1 DEF SessionInv, ReconnectRecords, Granted
<1>6. CASE OtherDone \/ OtherPairs
  <2>1. /\ "task" \in DOMAIN host' /\ "live" \in DOMAIN host'
        /\ host'.live = host.live /\ UNCHANGED <<client, conn>>
    BY <1>0, <1>6, HostFacts DEF OtherDone, OtherPairs
  <2>2. QED  BY <1>0, <2>1 DEF SessionInv, ReconnectRecords, Granted
<1>7. CASE Forgive
  BY <1>0, <1>7 DEF Forgive, SessionInv, ReconnectRecords, Granted
<1>8. CASE Move
  <2>1. /\ "at" \in DOMAIN client' /\ UNCHANGED <<host, conn>> /\ ~conn.open
    BY <1>0, <1>8 DEF Move, ReconnectRecords
  <2>2. QED  BY <1>0, <2>1 DEF SessionInv, ReconnectRecords
<1>9. CASE Loss \/ RestartHost \/ (Revoke /\ host.live = "up")
  <2>1. conn' \in Connections /\ conn'.open = FALSE
    BY <1>0, <1>9, BreaksFacts DEF Loss, RestartHost, Revoke
  <2>2. "task" \in DOMAIN host' /\ "live" \in DOMAIN host' /\ UNCHANGED client
    BY <1>0, <1>9 DEF Loss, RestartHost, Revoke, ReconnectRecords
  <2>3. QED  BY <1>0, <2>1, <2>2, ShutKeeps DEF ReconnectRecords
<1>10. CASE Revoke /\ host.live # "up"
  <2>1. "task" \in DOMAIN host' /\ "live" \in DOMAIN host' /\ UNCHANGED <<client, conn>>
    BY <1>0, <1>10 DEF Revoke, ReconnectRecords
  <2>2. QED  BY <1>0, <1>10, <2>1 DEF SessionInv, ReconnectRecords, Granted
<1>11. QED
  BY <1>1, <1>2, <1>3, <1>4, <1>5, <1>6, <1>7, <1>8, <1>9, <1>10 DEF HostSteps, Troubles

LEMMA ReconnectKeeps ==
    ASSUME SessionInv, [ReconnectNext]_reconnectVars
    PROVE  SessionInv'
<1>1. CASE ClientSteps \/ Told \/ Users
  BY <1>1, ClientKeeps
<1>2. CASE UNCHANGED reconnectVars
  BY <1>2 DEF reconnectVars, SessionInv, ReconnectRecords, Granted
<1>3. QED  BY <1>1, <1>2, HostKeeps DEF ReconnectNext

LEMMA ReconnectBegins ==
    ASSUME ReconnectInit \/ ReconnectOver
    PROVE  SessionInv
<1>1. "at" \in DOMAIN client
  <2>1. CASE ReconnectInit
    BY <2>1 DEF ReconnectInit
  <2>2. CASE ReconnectOver
    BY <2>2 DEF ReconnectOver
  <2>3. QED  BY <2>1, <2>2
<1>2. conn = Closed /\ "task" \in DOMAIN host /\ "live" \in DOMAIN host
  BY DEF ReconnectInit, ReconnectOver
<1>3. QED  BY <1>1, <1>2, ClosedFacts DEF SessionInv, ReconnectRecords

LEMMA SessionsAreRight ==
    ASSUME SessionInv
    PROVE  SessionAgreed
BY DEF SessionInv, SessionAgreed, Granted

(* A client in session on an open connection is in the session its host    *)
(* holds: whatever the two, the network, a restart or a revocation did in  *)
(* between (app/lan_admission.rs, reconnect.rs).                           *)
THEOREM SessionsAgree == ReconnectSpec => []SessionAgreed
<1>1. ReconnectInit => SessionInv
  BY ReconnectBegins
<1>2. SessionInv /\ [ReconnectNext]_reconnectVars => SessionInv'
  BY ReconnectKeeps
<1>3. SessionInv => SessionAgreed
  BY SessionsAreRight
<1>4. QED  BY <1>1, <1>2, <1>3, PTL DEF ReconnectSpec

-----------------------------------------------------------------------------
(* The world of MCPeers: one of the parts begins, the others are over, and *)
(* every step is one of one part.                                          *)

LEMMA LinkRests == LinkOver => LinkInv
<1> SUFFICES ASSUME LinkOver
             PROVE  LinkInv
  OBVIOUS
<1>1. /\ [open |-> FALSE, slot |-> NoAttempt, pending |-> NoAttempt, expired |-> FALSE] \in Tables
      /\ Idle \in Bindings /\ Broken \in Wires /\ NoAttempt \in Maybe /\ MaxMishaps \in 0..MaxMishaps
  BY LinkAssumption DEF Tables, Maybe, Idle, Bindings, Awaited, Broken, Wires, Texts
<1>2. LinkTypes
  BY <1>1 DEF LinkOver, LinkTypes
<1>3. SlotIsHeld
  BY DEF LinkOver, SlotIsHeld, HeldWell, WaitsAt, Idle
<1>4. QED  BY <1>2, <1>3 DEF LinkInv

PeersInv == LinkInv /\ SessionInv /\ InputInv

LEMMA PeersBegin == PeersInit => PeersInv
BY LinkBegins, LinkRests, ReconnectBegins, InputBegins DEF PeersInit, PeersInv

LEMMA PeersKeep ==
    ASSUME PeersInv, [PeersNext]_peersVars
    PROVE  PeersInv'
<1>0. LinkInv /\ SessionInv /\ InputInv
  BY DEF PeersInv
<1>1. /\ [LinkNext]_linkVars /\ [ReconnectNext]_reconnectVars /\ [InputNext]_inputVars
  BY DEF PeersNext, peersVars
<1>2. LinkInv' /\ SessionInv' /\ InputInv'
  BY <1>0, <1>1, LinkKeeps, ReconnectKeeps, InputKeeps
<1>3. QED  BY <1>2 DEF PeersInv

(* The two devices never disagree on who is in session with whom, on which *)
(* keys are down, or on who holds a connection: the property the run       *)
(* checks, whatever the bounds.                                            *)
THEOREM DevicesAgree == PeersSpec => []EndsAgree
<1>1. PeersInit => PeersInv
  BY PeersBegin
<1>2. PeersInv /\ [PeersNext]_peersVars => PeersInv'
  BY PeersKeep
<1>3. PeersInv => EndsAgree
  BY SlotsAreRight, SessionsAreRight, KeysAreRight DEF PeersInv, EndsAgree
<1>4. QED  BY <1>1, <1>2, <1>3, PTL DEF PeersSpec
=============================================================================
