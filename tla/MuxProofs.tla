----------------------------- MODULE MuxProofs -----------------------------
(***************************************************************************)
(* Proofs about the packet multiplexer (Mux): no order of its tasks makes  *)
(* one of them fail, the end of a lane follows everything written to it,   *)
(* the clipboard lane is not starved, and every step is a step of the      *)
(* credits of MuxCredit or leaves them alone.                              *)
(***************************************************************************)
EXTENDS Mux, FiniteSetTheorems, SequenceTheorems, TLAPS

(***************************************************************************)
(* How many packets of one lane and kind are in a queue.                   *)
(***************************************************************************)
LEMMA PlacesFinite ==
    ASSUME NEW S, NEW q \in Seq(S), NEW l, NEW k
    PROVE  IsFiniteSet(Places(l, k, q)) /\ Count(l, k, q) \in Nat
<1>1. Places(l, k, q) \in SUBSET Nat /\ \A i \in Places(l, k, q) : i <= Len(q)
  BY DEF Places
<1>2. IsFiniteSet(Places(l, k, q))
  BY <1>1, FS_BoundedSetOfNaturals
<1>3. QED  BY <1>2, FS_CardinalityType DEF Count

LEMMA CountOfNothing == \A l, k : Count(l, k, <<>>) = 0
  BY FS_EmptySet DEF Count, Places

LEMMA CountAppend ==
    ASSUME NEW S, NEW q \in Seq(S), NEW p \in S, NEW l, NEW k
    PROVE  Count(l, k, Append(q, p)) = Count(l, k, q) + IF p = Packet(l, k) THEN 1 ELSE 0
<1> DEFINE n == Len(q) + 1
           r == Append(q, p)
<1>1. DOMAIN r = 1..n /\ r[n] = p /\ (\A i \in 1..Len(q) : r[i] = q[i]) /\ DOMAIN q = 1..Len(q)
  BY AppendProperties
<1>2. Len(q) \in Nat /\ n \notin 1..Len(q) /\ 1..n = 1..Len(q) \cup {n}
  OBVIOUS
<1>3. IsFiniteSet(Places(l, k, q)) /\ Count(l, k, q) \in Nat
  BY PlacesFinite
<1>N. n \notin Places(l, k, q)
  BY <1>1, <1>2 DEF Places
<1>4. CASE p = Packet(l, k)
  <2>1. Places(l, k, r) = Places(l, k, q) \cup {n}
    BY <1>1, <1>2, <1>4 DEF Places
  <2>2. QED  BY <1>3, <1>4, <1>N, <2>1, FS_AddElement DEF Count
<1>5. CASE p # Packet(l, k)
  <2>1. Places(l, k, r) = Places(l, k, q)
    BY <1>1, <1>2, <1>5 DEF Places
  <2>2. QED  BY <1>3, <1>5, <2>1 DEF Count
<1>6. QED  BY <1>4, <1>5

LEMMA CountTail ==
    ASSUME NEW S, NEW q \in Seq(S), q # <<>>, NEW l, NEW k
    PROVE  Count(l, k, q) = Count(l, k, Tail(q)) + IF Head(q) = Packet(l, k) THEN 1 ELSE 0
<1> DEFINE r == Tail(q)
           A == Places(l, k, q) \ {1}
           B == Places(l, k, r)
           shift == [i \in B |-> i + 1]
<1>1. /\ r \in Seq(S) /\ Len(r) = Len(q) - 1 /\ Len(q) \in Nat /\ Len(q) >= 1
      /\ DOMAIN r = 1..Len(r) /\ DOMAIN q = 1..Len(q) /\ q[1] = Head(q)
      /\ \A i \in 1..Len(r) : r[i] = q[i + 1]
  BY HeadTailProperties, EmptySeq
<1>2. IsFiniteSet(B) /\ Cardinality(B) = Count(l, k, r) /\ Count(l, k, r) \in Nat
  BY <1>1, PlacesFinite DEF Count
<1>3. IsFiniteSet(Places(l, k, q)) /\ Cardinality(Places(l, k, q)) = Count(l, k, q) /\ Count(l, k, q) \in Nat
  BY PlacesFinite DEF Count
<1>4. shift \in Bijection(B, A)
  <2>1. shift \in [B -> A]
    <3> SUFFICES ASSUME NEW i \in B
                 PROVE  i + 1 \in A
      OBVIOUS
    <3>1. i \in 1..Len(r) /\ r[i] = Packet(l, k)
      BY <1>1 DEF Places
    <3>2. i + 1 \in 1..Len(q) /\ q[i + 1] = Packet(l, k) /\ i + 1 # 1
      BY <1>1, <3>1
    <3>3. QED  BY <1>1, <3>2 DEF Places
  <2>2. \A i, j \in B : shift[i] = shift[j] => i = j
    BY <1>1 DEF Places
  <2>3. \A j \in A : \E i \in B : shift[i] = j
    <3> SUFFICES ASSUME NEW j \in A
                 PROVE  \E i \in B : shift[i] = j
      OBVIOUS
    <3>1. j \in 1..Len(q) /\ q[j] = Packet(l, k) /\ j # 1
      BY <1>1 DEF Places
    <3>2. j - 1 \in 1..Len(r) /\ r[j - 1] = q[j]
      BY <1>1, <3>1
    <3>3. j - 1 \in B /\ shift[j - 1] = j
      BY <1>1, <3>1, <3>2 DEF Places
    <3>4. QED  BY <3>3
  <2>4. QED  BY <2>1, <2>2, <2>3 DEF Bijection, Injection, Surjection, IsInjective
<1>5. Cardinality(A) = Count(l, k, r)
  BY <1>2, <1>4, FS_Bijection DEF ExistsBijection
<1>6. 1 \in Places(l, k, q) <=> Head(q) = Packet(l, k)
  BY <1>1 DEF Places
<1>7. Cardinality(A) = IF 1 \in Places(l, k, q) THEN Cardinality(Places(l, k, q)) - 1
                       ELSE Cardinality(Places(l, k, q))
  BY <1>3, FS_RemoveElement
<1> HIDE DEF A, B, r
<1>8. QED  BY <1>2, <1>3, <1>5, <1>6, <1>7 DEF r

LEMMA CountPositive ==
    ASSUME NEW S, NEW q \in Seq(S), NEW l, NEW k
    PROVE  Count(l, k, q) = 0 <=> \A i \in 1..Len(q) : q[i] # Packet(l, k)
<1>1. IsFiniteSet(Places(l, k, q)) /\ Cardinality(Places(l, k, q)) = Count(l, k, q)
  BY PlacesFinite DEF Count
<1>2. Count(l, k, q) = 0 <=> Places(l, k, q) = {}
  BY <1>1, FS_EmptySet
<1>3. QED  BY <1>2 DEF Places

(***************************************************************************)
(* The invariant.  Its parts: types; nothing has failed; the credits of a  *)
(* flow; the fragments of a flow; what may follow the end of a lane.       *)
(***************************************************************************)
PacketKinds == {"DATA", "CREDIT", "FINISH"}
Packets == [lane : UsedLanes, kind : PacketKinds]
Events == [lane : UsedLanes, kind : {"PeerCredit", "GrantPeer"}]

MuxTypes ==
    /\ toSend \in [Sides -> [UsedLanes -> Nat]] /\ buffered \in [Sides -> [UsedLanes -> Nat]]
    /\ closed \in [Sides -> [UsedLanes -> BOOLEAN]] /\ open \in [Sides -> [UsedLanes -> BOOLEAN]]
    /\ credits \in [Sides -> [UsedLanes -> Nat]] /\ windows \in [Sides -> [UsedLanes -> Nat]]
    /\ delivery \in [Sides -> [UsedLanes -> Nat]]
    /\ ended \in [Sides -> [UsedLanes -> BOOLEAN]] /\ granting \in [Sides -> [UsedLanes -> BOOLEAN]]
    /\ inbuf \in [Sides -> [UsedLanes -> Nat]] /\ received \in [Sides -> [UsedLanes -> Nat]]
    /\ eof \in [Sides -> [UsedLanes -> BOOLEAN]]
    /\ burst \in [Sides -> Nat] /\ passed \in [Sides -> Nat]
    /\ out \in [Sides -> Packets \cup {NoPacket}]
    /\ wire \in [Sides -> Seq(Packets)] /\ events \in [Sides -> Seq(Events)]
    /\ failed \in [Sides -> BOOLEAN]

(* No credit of what s sends on lane l is lost or minted, and the window   *)
(* of the receiver counts what it has not given back.                      *)
FlowBalanced(s, l) ==
    /\ credits[s][l] + Travelling(s, l) + Delivering(s, l) + Granted(s, l)
          + Returning(s, l) + Restored(s, l) = W
    /\ windows[Peer(s)][l] + Delivering(s, l) + Granted(s, l) = W

(* Every fragment of the load is somewhere on its way, or has been read.   *)
FlowComplete(s, l) ==
    LET r == Peer(s) IN
    toSend[s][l] + buffered[s][l] + Travelling(s, l)
        + delivery[r][l] + inbuf[r][l] + received[r][l] = Load[s][l]

(* Of a lane: fragments, and its end.                                      *)
OfLane(l) == {Packet(l, "DATA"), Packet(l, "FINISH")}

(* The end of lane l is written after the last fragment, and nothing of    *)
(* the lane follows it: not in the hands of the scheduler, not on the wire.*)
EndIsLast(s, l) ==
    LET r == Peer(s) IN
    /\ closed[s][l] => toSend[s][l] = 0
    /\ ~open[s][l] => closed[s][l] /\ buffered[s][l] = 0
    /\ out[s] = Packet(l, "FINISH") => ~open[s][l]
    /\ \A i \in DOMAIN wire[r] : wire[r][i] = Packet(l, "FINISH") =>
          /\ ~open[s][l] /\ out[s] \notin OfLane(l)
          /\ \A j \in DOMAIN wire[r] : j > i => wire[r][j] \notin OfLane(l)
    /\ ended[r][l] =>
          /\ ~open[s][l] /\ out[s] \notin OfLane(l)
          /\ \A j \in DOMAIN wire[r] : wire[r][j] \notin OfLane(l)
    /\ eof[r][l] => ended[r][l] /\ delivery[r][l] = 0

FlowInv(s, l) == FlowBalanced(s, l) /\ FlowComplete(s, l) /\ EndIsLast(s, l)

(* What passes a clipboard fragment counts towards the burst.              *)
BurstsAreShort == \A s \in Sides : passed[s] <= burst[s] /\ passed[s] <= Burst

(* The pipes of the applications hold W fragments.                         *)
PipesFit == \A s \in Sides, l \in UsedLanes : buffered[s][l] <= W /\ inbuf[s][l] <= W

MuxInv ==
    /\ MuxTypes /\ NeverFails /\ BurstsAreShort /\ PipesFit
    /\ \A s \in Sides, l \in UsedLanes : FlowInv(s, l)

(***************************************************************************)
(* What the constants and the variables are.                               *)
(***************************************************************************)
LEMMA SideFacts == \A s \in Sides : Peer(s) \in Sides /\ Peer(s) # s /\ Peer(Peer(s)) = s
BY DEF Sides, Peer

LEMMA PacketFacts ==
    /\ \A l \in UsedLanes : \A k : /\ Packet(l, k) # NoPacket
                                   /\ Packet(l, k).lane = l /\ Packet(l, k).kind = k
                                   /\ k \in PacketKinds => Packet(l, k) \in Packets
                                   /\ k \in {"PeerCredit", "GrantPeer"} => Packet(l, k) \in Events
    /\ \A p \in Packets : p.lane \in UsedLanes /\ p.kind \in PacketKinds /\ p = Packet(p.lane, p.kind)
    /\ \A e \in Events : /\ e.lane \in UsedLanes /\ e.kind \in {"PeerCredit", "GrantPeer"}
                         /\ e = Packet(e.lane, e.kind)
    /\ NoPacket \notin Packets
BY MuxAssumption DEF Packet, NoPacket, Packets, Events, PacketKinds

LEMMA NumberFacts ==
    ASSUME MuxTypes, NEW s \in Sides, NEW l \in UsedLanes
    PROVE  /\ credits[s][l] \in Nat /\ windows[s][l] \in Nat /\ delivery[s][l] \in Nat
           /\ toSend[s][l] \in Nat /\ buffered[s][l] \in Nat
           /\ inbuf[s][l] \in Nat /\ received[s][l] \in Nat
           /\ Travelling(s, l) \in Nat /\ Delivering(s, l) \in Nat /\ Granted(s, l) \in Nat
           /\ Returning(s, l) \in Nat /\ Restored(s, l) \in Nat
<1>1. /\ wire[s] \in Seq(Packets) /\ wire[Peer(s)] \in Seq(Packets)
      /\ events[s] \in Seq(Events) /\ events[Peer(s)] \in Seq(Events)
  BY SideFacts DEF MuxTypes
<1>2. \A k : /\ Count(l, k, wire[s]) \in Nat /\ Count(l, k, wire[Peer(s)]) \in Nat
             /\ Count(l, k, events[s]) \in Nat /\ Count(l, k, events[Peer(s)]) \in Nat
  BY <1>1, PlacesFinite
<1>3. \A r, k : Writing(r, l, k) \in Nat
  BY DEF Writing
<1>4. Travelling(s, l) \in Nat /\ Granted(s, l) \in Nat /\ Returning(s, l) \in Nat /\ Restored(s, l) \in Nat
  BY <1>2, <1>3 DEF Travelling, Granted, Returning, Restored
<1>5. Delivering(s, l) \in Nat
  <2>1. delivery[Peer(s)][l] \in Nat
    BY SideFacts DEF MuxTypes
  <2>2. QED  BY <2>1 DEF Delivering
<1>6. QED
  BY <1>4, <1>5 DEF MuxTypes

LEMMA LaneUpdate ==
    ASSUME NEW T, NEW f \in [Sides -> [UsedLanes -> T]], NEW s \in Sides, NEW l \in UsedLanes, NEW v \in T
    PROVE  /\ [f EXCEPT ![s][l] = v] \in [Sides -> [UsedLanes -> T]]
           /\ \A r \in Sides, k \in UsedLanes :
                 [f EXCEPT ![s][l] = v][r][k] = IF r = s /\ k = l THEN v ELSE f[r][k]
OBVIOUS

LEMMA OfLaneFacts ==
    ASSUME NEW l \in UsedLanes, NEW k \in UsedLanes
    PROVE  /\ Packet(l, "CREDIT") \notin OfLane(k) /\ NoPacket \notin OfLane(k)
           /\ Packet(l, "DATA") \in OfLane(k) <=> k = l
           /\ Packet(l, "FINISH") \in OfLane(k) <=> k = l
           /\ Packet(l, "DATA") # Packet(k, "FINISH") /\ Packet(l, "CREDIT") # Packet(k, "FINISH")
           /\ Packet(l, "FINISH") = Packet(k, "FINISH") <=> k = l
BY PacketFacts DEF OfLane

(***************************************************************************)
(* A step moves credits of the flow <<s, l>> only.                         *)
(***************************************************************************)
By(s, l, r, k, d) == IF r = s /\ k = l THEN d ELSE 0

LEMMA ByNothing == \A s, l, r, k : \A n \in Nat : By(s, l, r, k, 0) = 0 /\ n + By(s, l, r, k, 0) = n
BY DEF By

Moved(s, l, c, d, q, g, v, b, p) ==
    \A r \in Sides, k \in UsedLanes :
        /\ credits'[r][k] = credits[r][k] + By(s, l, r, k, c)
        /\ Travelling(r, k)' = Travelling(r, k) + By(s, l, r, k, d)
        /\ Delivering(r, k)' = Delivering(r, k) + By(s, l, r, k, q)
        /\ Granted(r, k)' = Granted(r, k) + By(s, l, r, k, g)
        /\ windows'[Peer(r)][k] = windows[Peer(r)][k] + By(s, l, r, k, v)
        /\ Returning(r, k)' = Returning(r, k) + By(s, l, r, k, b)
        /\ Restored(r, k)' = Restored(r, k) + By(s, l, r, k, p)

LEMMA SumsKept ==
    ASSUME NEW C \in Nat, NEW D \in Nat, NEW Q \in Nat, NEW G \in Nat, NEW V \in Nat, NEW B \in Nat, NEW P \in Nat,
           NEW c \in Int, NEW d \in Int, NEW q \in Int, NEW g \in Int, NEW v \in Int, NEW b \in Int, NEW p \in Int,
           c + d + q + g + b + p = 0, v + q + g = 0
    PROVE  /\ (C + c) + (D + d) + (Q + q) + (G + g) + (B + b) + (P + p) = C + D + Q + G + B + P
           /\ (V + v) + (Q + q) + (G + g) = V + Q + G
OBVIOUS

LEMMA BalanceKept ==
    ASSUME MuxTypes, MuxTypes', NEW s \in Sides, NEW l \in UsedLanes,
           NEW c \in Int, NEW d \in Int, NEW q \in Int, NEW g \in Int,
           NEW v \in Int, NEW b \in Int, NEW p \in Int,
           Moved(s, l, c, d, q, g, v, b, p), c + d + q + g + b + p = 0, v + q + g = 0,
           NEW r \in Sides, NEW k \in UsedLanes, FlowBalanced(r, k)
    PROVE  FlowBalanced(r, k)'
<1>1. /\ credits[r][k] \in Nat /\ windows[Peer(r)][k] \in Nat
      /\ Travelling(r, k) \in Nat /\ Delivering(r, k) \in Nat /\ Granted(r, k) \in Nat
      /\ Returning(r, k) \in Nat /\ Restored(r, k) \in Nat
  BY NumberFacts, SideFacts
<1>2. CASE r = s /\ k = l
  <2>1. /\ credits'[r][k] = credits[r][k] + c /\ windows'[Peer(r)][k] = windows[Peer(r)][k] + v
        /\ Travelling(r, k)' = Travelling(r, k) + d /\ Delivering(r, k)' = Delivering(r, k) + q
        /\ Granted(r, k)' = Granted(r, k) + g /\ Returning(r, k)' = Returning(r, k) + b
        /\ Restored(r, k)' = Restored(r, k) + p
    BY <1>2 DEF Moved, By
  <2>2. /\ credits'[r][k] + Travelling(r, k)' + Delivering(r, k)' + Granted(r, k)'
              + Returning(r, k)' + Restored(r, k)'
           = credits[r][k] + Travelling(r, k) + Delivering(r, k) + Granted(r, k)
              + Returning(r, k) + Restored(r, k)
        /\ windows'[Peer(r)][k] + Delivering(r, k)' + Granted(r, k)'
           = windows[Peer(r)][k] + Delivering(r, k) + Granted(r, k)
    BY <1>1, <2>1, SumsKept
  <2>3. QED  BY <2>2 DEF FlowBalanced
<1>3. CASE ~(r = s /\ k = l)
  BY <1>1, <1>3 DEF Moved, By, FlowBalanced
<1>4. QED  BY <1>2, <1>3

(***************************************************************************)
(* What the packets and events that are written and read count for.        *)
(***************************************************************************)
One(kind, x) == IF kind = x THEN 1 ELSE 0
Less(kind, x) == IF kind = x THEN -1 ELSE 0

LEMMA KindFacts ==
    /\ One("PeerCredit", "GrantPeer") = 0 /\ One("PeerCredit", "PeerCredit") = 1
    /\ One("GrantPeer", "GrantPeer") = 1 /\ One("GrantPeer", "PeerCredit") = 0
    /\ One("DATA", "DATA") = 1 /\ One("DATA", "CREDIT") = 0
    /\ One("CREDIT", "DATA") = 0 /\ One("CREDIT", "CREDIT") = 1
    /\ One("FINISH", "DATA") = 0 /\ One("FINISH", "CREDIT") = 0
    /\ Less("PeerCredit", "GrantPeer") = 0 /\ Less("PeerCredit", "PeerCredit") = -1
    /\ Less("GrantPeer", "GrantPeer") = -1 /\ Less("GrantPeer", "PeerCredit") = 0
    /\ Less("DATA", "DATA") = -1 /\ Less("DATA", "CREDIT") = 0
    /\ Less("CREDIT", "DATA") = 0 /\ Less("CREDIT", "CREDIT") = -1
    /\ Less("FINISH", "DATA") = 0 /\ Less("FINISH", "CREDIT") = 0
BY DEF One, Less

LEMMA PacketChosen ==
    ASSUME MuxTypes, NEW s \in Sides, NEW l \in UsedLanes, NEW kind \in PacketKinds,
           out[s] = NoPacket, out' = [out EXCEPT ![s] = Packet(l, kind)], wire' = wire,
           NEW r \in Sides, NEW k \in UsedLanes
    PROVE  /\ Travelling(r, k)' = Travelling(r, k) + By(s, l, r, k, One(kind, "DATA"))
           /\ Returning(r, k)' = Returning(r, k) + By(Peer(s), l, r, k, One(kind, "CREDIT"))
<1>1. \A i \in Sides : out'[i] = IF i = s THEN Packet(l, kind) ELSE out[i]
  BY DEF MuxTypes
<1>2. \A i \in Sides : \A x : Writing(i, k, x)' = Writing(i, k, x) + By(s, l, i, k, One(kind, x))
  BY <1>1, PacketFacts DEF Writing, By, One
<1>3. \A x, y : Count(k, x, wire[y]) = Count(k, x, wire'[y])
  OBVIOUS
<1>4. /\ Count(k, "DATA", wire[Peer(r)]) \in Nat /\ Count(k, "CREDIT", wire[r]) \in Nat
      /\ Writing(r, k, "DATA") \in Nat /\ Writing(Peer(r), k, "CREDIT") \in Nat
  BY SideFacts, PlacesFinite DEF MuxTypes, Writing
<1>5. By(s, l, r, k, One(kind, "DATA")) \in Nat /\ By(s, l, Peer(r), k, One(kind, "CREDIT")) \in Nat
  BY DEF By, One
<1>6. By(s, l, Peer(r), k, One(kind, "CREDIT")) = By(Peer(s), l, r, k, One(kind, "CREDIT"))
  BY SideFacts DEF By
<1>7. Travelling(r, k)' = Travelling(r, k) + By(s, l, r, k, One(kind, "DATA"))
  BY <1>2, <1>4, <1>5 DEF Travelling
<1>8. Returning(r, k)' = Returning(r, k) + By(s, l, Peer(r), k, One(kind, "CREDIT"))
  BY <1>2, <1>4, <1>5, SideFacts DEF Returning
<1>9. QED  BY <1>6, <1>7, <1>8

LEMMA PacketWritten ==
    ASSUME MuxTypes, NEW s \in Sides, out[s] # NoPacket, out' = [out EXCEPT ![s] = NoPacket],
           wire' = [wire EXCEPT ![Peer(s)] = Append(@, out[s])],
           NEW r \in Sides, NEW k \in UsedLanes
    PROVE  Travelling(r, k)' = Travelling(r, k) /\ Returning(r, k)' = Returning(r, k)
<1>1. out[s] \in Packets /\ wire[Peer(s)] \in Seq(Packets)
  BY SideFacts DEF MuxTypes
<1>2. \A i \in Sides : /\ out'[i] = IF i = s THEN NoPacket ELSE out[i]
                       /\ wire'[i] = IF i = Peer(s) THEN Append(wire[i], out[s]) ELSE wire[i]
  BY DEF MuxTypes
<1>3. \A i \in Sides : \A x : Count(k, x, wire'[Peer(i)]) + Writing(i, k, x)'
                                  = Count(k, x, wire[Peer(i)]) + Writing(i, k, x)
  <2> SUFFICES ASSUME NEW i \in Sides, NEW x
               PROVE  Count(k, x, wire'[Peer(i)]) + Writing(i, k, x)'
                            = Count(k, x, wire[Peer(i)]) + Writing(i, k, x)
    OBVIOUS
  <2>1. CASE i = s
    <3>1. Count(k, x, wire'[Peer(i)]) = Count(k, x, wire[Peer(i)]) + IF out[s] = Packet(k, x) THEN 1 ELSE 0
      BY <1>1, <1>2, <2>1, SideFacts, CountAppend
    <3>2. Writing(i, k, x)' = 0 /\ Writing(i, k, x) = IF out[s] = Packet(k, x) THEN 1 ELSE 0
      BY <1>2, <2>1, PacketFacts DEF Writing
    <3>3. Count(k, x, wire[Peer(i)]) \in Nat
      BY <1>1, <2>1, PlacesFinite
    <3>4. QED  BY <3>1, <3>2, <3>3
  <2>2. CASE i # s
    <3>1. Peer(i) # Peer(s) /\ Peer(i) \in Sides
      BY <2>2, SideFacts
    <3>2. QED  BY <1>2, <2>2, <3>1 DEF Writing
  <2>3. QED  BY <2>1, <2>2
<1>4. QED
  BY <1>3, SideFacts DEF Travelling, Returning

LEMMA PacketRead ==
    ASSUME MuxTypes, NEW s \in Sides, NEW l \in UsedLanes, NEW kind \in PacketKinds,
           wire[s] # <<>>, Head(wire[s]) = Packet(l, kind),
           wire' = [wire EXCEPT ![s] = Tail(@)], out' = out,
           NEW r \in Sides, NEW k \in UsedLanes
    PROVE  /\ Travelling(r, k)' = Travelling(r, k) + By(Peer(s), l, r, k, Less(kind, "DATA"))
           /\ Returning(r, k)' = Returning(r, k) + By(s, l, r, k, Less(kind, "CREDIT"))
<1>1. wire[s] \in Seq(Packets) /\ Tail(wire[s]) \in Seq(Packets)
  BY HeadTailProperties DEF MuxTypes
<1>2. \A i \in Sides : wire'[i] = IF i = s THEN Tail(wire[i]) ELSE wire[i]
  BY DEF MuxTypes
<1>3. \A i \in Sides, x \in PacketKinds : Count(k, x, wire[i]) = Count(k, x, wire'[i]) + By(s, l, i, k, One(kind, x))
  <2> SUFFICES ASSUME NEW i \in Sides, NEW x \in PacketKinds
               PROVE  Count(k, x, wire[i]) = Count(k, x, wire'[i]) + By(s, l, i, k, One(kind, x))
    OBVIOUS
  <2>1. CASE i = s
    <3>1. Count(k, x, wire[s]) = Count(k, x, Tail(wire[s])) + IF Packet(l, kind) = Packet(k, x) THEN 1 ELSE 0
      BY <1>1, CountTail
    <3>2. Packet(l, kind) = Packet(k, x) <=> k = l /\ kind = x
      BY PacketFacts
    <3>3. Count(k, x, Tail(wire[s])) \in Nat
      BY <1>1, PlacesFinite
    <3>4. By(s, l, i, k, One(kind, x)) = IF Packet(l, kind) = Packet(k, x) THEN 1 ELSE 0
      BY <2>1, <3>2 DEF By, One
    <3>5. QED  BY <1>2, <2>1, <3>1, <3>4
  <2>2. CASE i # s
    <3>1. Count(k, x, wire[i]) \in Nat
      BY PlacesFinite DEF MuxTypes
    <3>2. QED  BY <1>2, <2>2, <3>1 DEF By
  <2>3. QED  BY <2>1, <2>2
<1>4. "DATA" \in PacketKinds /\ "CREDIT" \in PacketKinds
  BY DEF PacketKinds
<1>5. \A i \in Sides : \A x : Writing(i, k, x)' = Writing(i, k, x) /\ Writing(i, k, x) \in Nat
  BY DEF Writing
<1>6. \A i \in Sides, x \in PacketKinds : Count(k, x, wire'[i]) \in Nat
  BY <1>1, <1>2, PlacesFinite DEF MuxTypes
<1>7. \A i \in Sides : \A x : By(s, l, i, k, One(kind, x)) \in Nat
  BY DEF By, One
<1>8. /\ By(Peer(s), l, r, k, Less(kind, "DATA")) = -By(s, l, Peer(r), k, One(kind, "DATA"))
      /\ By(s, l, r, k, Less(kind, "CREDIT")) = -By(s, l, r, k, One(kind, "CREDIT"))
  BY SideFacts DEF By, One, Less
<1>9. Travelling(r, k)' = Travelling(r, k) - By(s, l, Peer(r), k, One(kind, "DATA"))
  <2>1. /\ Count(k, "DATA", wire[Peer(r)])
             = Count(k, "DATA", wire'[Peer(r)]) + By(s, l, Peer(r), k, One(kind, "DATA"))
        /\ Count(k, "DATA", wire'[Peer(r)]) \in Nat /\ By(s, l, Peer(r), k, One(kind, "DATA")) \in Nat
    BY <1>3, <1>4, <1>6, <1>7, SideFacts
  <2>2. Writing(r, k, "DATA")' = Writing(r, k, "DATA") /\ Writing(r, k, "DATA") \in Nat
    BY <1>5
  <2>3. QED  BY <2>1, <2>2 DEF Travelling
<1>10. Returning(r, k)' = Returning(r, k) - By(s, l, r, k, One(kind, "CREDIT"))
  <2>1. /\ Count(k, "CREDIT", wire[r])
             = Count(k, "CREDIT", wire'[r]) + By(s, l, r, k, One(kind, "CREDIT"))
        /\ Count(k, "CREDIT", wire'[r]) \in Nat /\ By(s, l, r, k, One(kind, "CREDIT")) \in Nat
    BY <1>3, <1>4, <1>6, <1>7
  <2>2. Writing(Peer(r), k, "CREDIT")' = Writing(Peer(r), k, "CREDIT") /\ Writing(Peer(r), k, "CREDIT") \in Nat
    BY <1>5, SideFacts
  <2>3. QED  BY <2>1, <2>2 DEF Returning
<1>11. Travelling(r, k) \in Nat /\ Returning(r, k) \in Nat
  BY NumberFacts
<1>12. By(s, l, Peer(r), k, One(kind, "DATA")) \in Nat /\ By(s, l, r, k, One(kind, "CREDIT")) \in Nat
  BY <1>7, SideFacts
<1> HIDE DEF By, One
<1>13. QED  BY <1>8, <1>9, <1>10, <1>11, <1>12

LEMMA EventAdded ==
    ASSUME MuxTypes, NEW s \in Sides, NEW l \in UsedLanes, NEW kind \in {"PeerCredit", "GrantPeer"},
           events' = [events EXCEPT ![s] = Append(@, Packet(l, kind))],
           NEW r \in Sides, NEW k \in UsedLanes
    PROVE  /\ Granted(r, k)' = Granted(r, k) + By(Peer(s), l, r, k, One(kind, "GrantPeer"))
           /\ Restored(r, k)' = Restored(r, k) + By(s, l, r, k, One(kind, "PeerCredit"))
<1>1. Packet(l, kind) \in Events /\ \A i \in Sides : events[i] \in Seq(Events)
  BY PacketFacts DEF MuxTypes
<1>2. \A i \in Sides : events'[i] = IF i = s THEN Append(events[i], Packet(l, kind)) ELSE events[i]
  BY DEF MuxTypes
<1>3. \A i \in Sides : \A x : Count(k, x, events'[i]) = Count(k, x, events[i]) + By(s, l, i, k, One(kind, x))
  <2> SUFFICES ASSUME NEW i \in Sides, NEW x
               PROVE  Count(k, x, events'[i]) = Count(k, x, events[i]) + By(s, l, i, k, One(kind, x))
    OBVIOUS
  <2>0. Count(k, x, events[i]) \in Nat
    BY <1>1, PlacesFinite
  <2>1. CASE i = s
    <3>1. Count(k, x, events'[i]) = Count(k, x, events[i]) + IF Packet(l, kind) = Packet(k, x) THEN 1 ELSE 0
      BY <1>1, <1>2, <2>1, CountAppend
    <3>2. Packet(l, kind) = Packet(k, x) <=> k = l /\ kind = x
      BY PacketFacts
    <3>3. By(s, l, i, k, One(kind, x)) = IF Packet(l, kind) = Packet(k, x) THEN 1 ELSE 0
      BY <2>1, <3>2 DEF By, One
    <3>4. QED  BY <3>1, <3>3
  <2>2. CASE i # s
    BY <1>2, <2>0, <2>2 DEF By
  <2>3. QED  BY <2>1, <2>2
<1>4. By(s, l, Peer(r), k, One(kind, "GrantPeer")) = By(Peer(s), l, r, k, One(kind, "GrantPeer"))
  BY SideFacts DEF By
<1>5. Peer(r) \in Sides
  BY SideFacts
<1>6. /\ Count(k, "GrantPeer", events'[Peer(r)])
           = Count(k, "GrantPeer", events[Peer(r)]) + By(s, l, Peer(r), k, One(kind, "GrantPeer"))
      /\ Count(k, "PeerCredit", events'[r])
           = Count(k, "PeerCredit", events[r]) + By(s, l, r, k, One(kind, "PeerCredit"))
  BY <1>3, <1>5
<1>7. QED
  BY <1>4, <1>6 DEF Granted, Restored

LEMMA EventTaken ==
    ASSUME MuxTypes, NEW s \in Sides, NEW l \in UsedLanes, NEW kind \in {"PeerCredit", "GrantPeer"},
           events[s] # <<>>, Head(events[s]) = Packet(l, kind), events' = [events EXCEPT ![s] = Tail(@)],
           NEW r \in Sides, NEW k \in UsedLanes
    PROVE  /\ Granted(r, k)' = Granted(r, k) + By(Peer(s), l, r, k, Less(kind, "GrantPeer"))
           /\ Restored(r, k)' = Restored(r, k) + By(s, l, r, k, Less(kind, "PeerCredit"))
<1>1. Tail(events[s]) \in Seq(Events) /\ \A i \in Sides : events[i] \in Seq(Events)
  BY HeadTailProperties DEF MuxTypes
<1>2. \A i \in Sides : events'[i] = IF i = s THEN Tail(events[i]) ELSE events[i]
  BY DEF MuxTypes
<1>3. \A i \in Sides : \A x : Count(k, x, events[i]) = Count(k, x, events'[i]) + By(s, l, i, k, One(kind, x))
  <2> SUFFICES ASSUME NEW i \in Sides, NEW x
               PROVE  Count(k, x, events[i]) = Count(k, x, events'[i]) + By(s, l, i, k, One(kind, x))
    OBVIOUS
  <2>0. Count(k, x, events[i]) \in Nat
    BY <1>1, PlacesFinite
  <2>1. CASE i = s
    <3>1. Count(k, x, events[i]) = Count(k, x, Tail(events[i])) + IF Packet(l, kind) = Packet(k, x) THEN 1 ELSE 0
      BY <1>1, <2>1, CountTail
    <3>2. Packet(l, kind) = Packet(k, x) <=> k = l /\ kind = x
      BY PacketFacts
    <3>3. By(s, l, i, k, One(kind, x)) = IF Packet(l, kind) = Packet(k, x) THEN 1 ELSE 0
      BY <2>1, <3>2 DEF By, One
    <3>4. QED  BY <1>2, <2>1, <3>1, <3>3
  <2>2. CASE i # s
    BY <1>2, <2>0, <2>2 DEF By
  <2>3. QED  BY <2>1, <2>2
<1>4. /\ By(Peer(s), l, r, k, Less(kind, "GrantPeer")) = -By(s, l, Peer(r), k, One(kind, "GrantPeer"))
      /\ By(s, l, r, k, Less(kind, "PeerCredit")) = -By(s, l, r, k, One(kind, "PeerCredit"))
      /\ By(s, l, Peer(r), k, One(kind, "GrantPeer")) \in Nat
      /\ By(s, l, r, k, One(kind, "PeerCredit")) \in Nat
  BY SideFacts DEF By, One, Less
<1>5. Peer(r) \in Sides /\ events'[r] \in Seq(Events) /\ events'[Peer(r)] \in Seq(Events)
  BY <1>1, <1>2, SideFacts
<1>6. /\ Count(k, "GrantPeer", events[Peer(r)])
           = Count(k, "GrantPeer", events'[Peer(r)]) + By(s, l, Peer(r), k, One(kind, "GrantPeer"))
      /\ Count(k, "PeerCredit", events[r])
           = Count(k, "PeerCredit", events'[r]) + By(s, l, r, k, One(kind, "PeerCredit"))
  BY <1>3, <1>5
<1>7. Count(k, "GrantPeer", events'[Peer(r)]) \in Nat /\ Count(k, "PeerCredit", events'[r]) \in Nat
  BY <1>5, PlacesFinite
<1>8. QED
  BY <1>4, <1>6, <1>7 DEF Granted, Restored

(***************************************************************************)
(* Moving a credit is a step of MuxCredit.                                 *)
(***************************************************************************)
FlowCredits == [f \in Flows |-> IF InUse(f) THEN credits[f[1]][f[2]] ELSE W]
FlowData == [f \in Flows |-> IF InUse(f) THEN Travelling(f[1], f[2]) ELSE 0]
FlowQueue == [f \in Flows |-> IF InUse(f) THEN Delivering(f[1], f[2]) ELSE 0]
FlowGrants == [f \in Flows |-> IF InUse(f) THEN Granted(f[1], f[2]) ELSE 0]
FlowWindow == [f \in Flows |-> IF InUse(f) THEN windows[Peer(f[1])][f[2]] ELSE W]
FlowReturning == [f \in Flows |-> IF InUse(f) THEN Returning(f[1], f[2]) ELSE 0]
FlowRestored == [f \in Flows |-> IF InUse(f) THEN Restored(f[1], f[2]) ELSE 0]

LEMMA FlowFacts ==
    /\ Credit!Flows = Flows
    /\ \A f \in Flows : f[1] \in Sides /\ f = <<f[1], f[2]>>
    /\ \A f \in Flows : InUse(f) => f[2] \in UsedLanes
    /\ \A s \in Sides, l \in UsedLanes : <<s, l>> \in Flows /\ InUse(<<s, l>>)
BY MuxAssumption DEF Credit!Flows, Credit!Sides, Credit!Lanes, Flows, Sides, InUse

CounterStep(A, B, f, x) ==
    /\ x = 0 => B = A
    /\ x = 1 => B = [A EXCEPT ![f] = @ + 1]
    /\ x = -1 => B = [A EXCEPT ![f] = @ - 1]

LEMMA CounterMoves ==
    ASSUME NEW A, NEW B, A = [h \in Flows |-> A[h]], B = [h \in Flows |-> B[h]],
           NEW f \in Flows, A[f] \in Nat, NEW x \in Int,
           \A h \in Flows : B[h] = IF h = f THEN A[h] + x ELSE A[h]
    PROVE  CounterStep(A, B, f, x)
<1>1. CASE x = 0
  BY <1>1 DEF CounterStep
<1>2. CASE x = 1
  BY <1>2 DEF CounterStep
<1>3. CASE x = -1
  <2>1. A[f] + x = A[f] - 1
    BY <1>3
  <2>2. QED  BY <1>3, <2>1 DEF CounterStep
<1>4. QED  BY <1>1, <1>2, <1>3 DEF CounterStep

LEMMA FlowsMove ==
    ASSUME MuxTypes, NEW s \in Sides, NEW l \in UsedLanes,
           NEW c \in Int, NEW d \in Int, NEW q \in Int, NEW g \in Int,
           NEW v \in Int, NEW b \in Int, NEW p \in Int,
           Moved(s, l, c, d, q, g, v, b, p)
    PROVE  LET f == <<s, l>> IN
           /\ CounterStep(FlowCredits, FlowCredits', f, c)
           /\ CounterStep(FlowData, FlowData', f, d)
           /\ CounterStep(FlowQueue, FlowQueue', f, q)
           /\ CounterStep(FlowGrants, FlowGrants', f, g)
           /\ CounterStep(FlowWindow, FlowWindow', f, v)
           /\ CounterStep(FlowReturning, FlowReturning', f, b)
           /\ CounterStep(FlowRestored, FlowRestored', f, p)
<1> DEFINE f == <<s, l>>
<1>1. \A h \in Flows : InUse(h) =>
         LET n(x) == IF h = f THEN x ELSE 0 IN
         /\ credits'[h[1]][h[2]] = credits[h[1]][h[2]] + n(c)
         /\ Travelling(h[1], h[2])' = Travelling(h[1], h[2]) + n(d)
         /\ Delivering(h[1], h[2])' = Delivering(h[1], h[2]) + n(q)
         /\ Granted(h[1], h[2])' = Granted(h[1], h[2]) + n(g)
         /\ windows'[Peer(h[1])][h[2]] = windows[Peer(h[1])][h[2]] + n(v)
         /\ Returning(h[1], h[2])' = Returning(h[1], h[2]) + n(b)
         /\ Restored(h[1], h[2])' = Restored(h[1], h[2]) + n(p)
  <2> SUFFICES ASSUME NEW r \in Sides, NEW k \in UsedLanes
               PROVE  \A x : By(s, l, r, k, x) = IF <<r, k>> = f THEN x ELSE 0
    BY FlowFacts DEF Moved
  <2>1. QED  BY DEF By
<1>2. \A h \in Flows : InUse(h) =>
         /\ credits[h[1]][h[2]] \in Nat /\ windows[Peer(h[1])][h[2]] \in Nat
         /\ Travelling(h[1], h[2]) \in Nat /\ Delivering(h[1], h[2]) \in Nat
         /\ Granted(h[1], h[2]) \in Nat /\ Returning(h[1], h[2]) \in Nat
         /\ Restored(h[1], h[2]) \in Nat
  BY FlowFacts, NumberFacts, SideFacts
<1>3. f \in Flows /\ InUse(f)
  BY FlowFacts
<1> HIDE DEF f
<1>4. CounterStep(FlowCredits, FlowCredits', f, c)
  <2>1. \A h \in Flows : FlowCredits'[h] = IF h = f THEN FlowCredits[h] + c ELSE FlowCredits[h]
    BY <1>1, <1>2, <1>3 DEF FlowCredits
  <2>2. FlowCredits = [h \in Flows |-> FlowCredits[h]] /\ FlowCredits' = [h \in Flows |-> FlowCredits'[h]]
    BY DEF FlowCredits
  <2>3. FlowCredits[f] \in Nat
    BY <1>2, <1>3 DEF FlowCredits
  <2>4. QED  BY <1>3, <2>1, <2>2, <2>3, CounterMoves
<1>5. CounterStep(FlowData, FlowData', f, d)
  <2>1. \A h \in Flows : FlowData'[h] = IF h = f THEN FlowData[h] + d ELSE FlowData[h]
    BY <1>1, <1>2, <1>3 DEF FlowData
  <2>2. FlowData = [h \in Flows |-> FlowData[h]] /\ FlowData' = [h \in Flows |-> FlowData'[h]]
    BY DEF FlowData
  <2>3. FlowData[f] \in Nat
    BY <1>2, <1>3 DEF FlowData
  <2>4. QED  BY <1>3, <2>1, <2>2, <2>3, CounterMoves
<1>6. CounterStep(FlowQueue, FlowQueue', f, q)
  <2>1. \A h \in Flows : FlowQueue'[h] = IF h = f THEN FlowQueue[h] + q ELSE FlowQueue[h]
    BY <1>1, <1>2, <1>3 DEF FlowQueue
  <2>2. FlowQueue = [h \in Flows |-> FlowQueue[h]] /\ FlowQueue' = [h \in Flows |-> FlowQueue'[h]]
    BY DEF FlowQueue
  <2>3. FlowQueue[f] \in Nat
    BY <1>2, <1>3 DEF FlowQueue
  <2>4. QED  BY <1>3, <2>1, <2>2, <2>3, CounterMoves
<1>7. CounterStep(FlowGrants, FlowGrants', f, g)
  <2>1. \A h \in Flows : FlowGrants'[h] = IF h = f THEN FlowGrants[h] + g ELSE FlowGrants[h]
    BY <1>1, <1>2, <1>3 DEF FlowGrants
  <2>2. FlowGrants = [h \in Flows |-> FlowGrants[h]] /\ FlowGrants' = [h \in Flows |-> FlowGrants'[h]]
    BY DEF FlowGrants
  <2>3. FlowGrants[f] \in Nat
    BY <1>2, <1>3 DEF FlowGrants
  <2>4. QED  BY <1>3, <2>1, <2>2, <2>3, CounterMoves
<1>8. CounterStep(FlowWindow, FlowWindow', f, v)
  <2>1. \A h \in Flows : FlowWindow'[h] = IF h = f THEN FlowWindow[h] + v ELSE FlowWindow[h]
    BY <1>1, <1>2, <1>3 DEF FlowWindow
  <2>2. FlowWindow = [h \in Flows |-> FlowWindow[h]] /\ FlowWindow' = [h \in Flows |-> FlowWindow'[h]]
    BY DEF FlowWindow
  <2>3. FlowWindow[f] \in Nat
    BY <1>2, <1>3 DEF FlowWindow
  <2>4. QED  BY <1>3, <2>1, <2>2, <2>3, CounterMoves
<1>9. CounterStep(FlowReturning, FlowReturning', f, b)
  <2>1. \A h \in Flows : FlowReturning'[h] = IF h = f THEN FlowReturning[h] + b ELSE FlowReturning[h]
    BY <1>1, <1>2, <1>3 DEF FlowReturning
  <2>2. FlowReturning = [h \in Flows |-> FlowReturning[h]] /\ FlowReturning' = [h \in Flows |-> FlowReturning'[h]]
    BY DEF FlowReturning
  <2>3. FlowReturning[f] \in Nat
    BY <1>2, <1>3 DEF FlowReturning
  <2>4. QED  BY <1>3, <2>1, <2>2, <2>3, CounterMoves
<1>10. CounterStep(FlowRestored, FlowRestored', f, p)
  <2>1. \A h \in Flows : FlowRestored'[h] = IF h = f THEN FlowRestored[h] + p ELSE FlowRestored[h]
    BY <1>1, <1>2, <1>3 DEF FlowRestored
  <2>2. FlowRestored = [h \in Flows |-> FlowRestored[h]] /\ FlowRestored' = [h \in Flows |-> FlowRestored'[h]]
    BY DEF FlowRestored
  <2>3. FlowRestored[f] \in Nat
    BY <1>2, <1>3 DEF FlowRestored
  <2>4. QED  BY <1>3, <2>1, <2>2, <2>3, CounterMoves
<1>11. QED  BY <1>4, <1>5, <1>6, <1>7, <1>8, <1>9, <1>10 DEF f

LEMMA SendIsCredit ==
    ASSUME MuxTypes, NEW s \in Sides, NEW l \in UsedLanes,
           Moved(s, l, -1, 1, 0, 0, 0, 0, 0), credits[s][l] > 0
    PROVE  Credit!Next
<1> DEFINE f == <<s, l>>
<1>1. f \in Flows /\ FlowCredits[f] > 0
  BY FlowFacts DEF FlowCredits
<1>2. /\ FlowCredits' = [FlowCredits EXCEPT ![f] = @ - 1]
      /\ FlowData' = [FlowData EXCEPT ![f] = @ + 1]
      /\ FlowQueue' = FlowQueue
      /\ FlowGrants' = FlowGrants
      /\ FlowWindow' = FlowWindow
      /\ FlowReturning' = FlowReturning
      /\ FlowRestored' = FlowRestored
  BY FlowsMove DEF CounterStep
<1> HIDE DEF f
<1>3. Credit!Send(f)
  BY <1>1, <1>2 DEF Credit!Send, FlowCredits, FlowData, FlowQueue, FlowGrants, FlowWindow,
                    FlowReturning, FlowRestored
<1>4. QED  BY <1>1, <1>3, FlowFacts DEF Credit!Next

LEMMA ArriveIsCredit ==
    ASSUME MuxTypes, NEW s \in Sides, NEW l \in UsedLanes,
           Moved(s, l, 0, -1, 1, 0, -1, 0, 0), Travelling(s, l) > 0
    PROVE  Credit!Next
<1> DEFINE f == <<s, l>>
<1>1. f \in Flows /\ FlowData[f] > 0
  BY FlowFacts DEF FlowData
<1>2. /\ FlowCredits' = FlowCredits
      /\ FlowData' = [FlowData EXCEPT ![f] = @ - 1]
      /\ FlowQueue' = [FlowQueue EXCEPT ![f] = @ + 1]
      /\ FlowGrants' = FlowGrants
      /\ FlowWindow' = [FlowWindow EXCEPT ![f] = @ - 1]
      /\ FlowReturning' = FlowReturning
      /\ FlowRestored' = FlowRestored
  BY FlowsMove DEF CounterStep
<1> HIDE DEF f
<1>3. Credit!Arrive(f)
  BY <1>1, <1>2 DEF Credit!Arrive, FlowCredits, FlowData, FlowQueue, FlowGrants, FlowWindow,
                    FlowReturning, FlowRestored
<1>4. QED  BY <1>1, <1>3, FlowFacts DEF Credit!Next

LEMMA DeliverIsCredit ==
    ASSUME MuxTypes, NEW s \in Sides, NEW l \in UsedLanes,
           Moved(s, l, 0, 0, -1, 1, 0, 0, 0), Delivering(s, l) > 0
    PROVE  Credit!Next
<1> DEFINE f == <<s, l>>
<1>1. f \in Flows /\ FlowQueue[f] > 0
  BY FlowFacts DEF FlowQueue
<1>2. /\ FlowCredits' = FlowCredits
      /\ FlowData' = FlowData
      /\ FlowQueue' = [FlowQueue EXCEPT ![f] = @ - 1]
      /\ FlowGrants' = [FlowGrants EXCEPT ![f] = @ + 1]
      /\ FlowWindow' = FlowWindow
      /\ FlowReturning' = FlowReturning
      /\ FlowRestored' = FlowRestored
  BY FlowsMove DEF CounterStep
<1> HIDE DEF f
<1>3. Credit!Deliver(f)
  BY <1>1, <1>2 DEF Credit!Deliver, FlowCredits, FlowData, FlowQueue, FlowGrants, FlowWindow,
                    FlowReturning, FlowRestored
<1>4. QED  BY <1>1, <1>3, FlowFacts DEF Credit!Next

LEMMA GrantIsCredit ==
    ASSUME MuxTypes, NEW s \in Sides, NEW l \in UsedLanes,
           Moved(s, l, 0, 0, 0, -1, 1, 1, 0), Granted(s, l) > 0
    PROVE  Credit!Next
<1> DEFINE f == <<s, l>>
<1>1. f \in Flows /\ FlowGrants[f] > 0
  BY FlowFacts DEF FlowGrants
<1>2. /\ FlowCredits' = FlowCredits
      /\ FlowData' = FlowData
      /\ FlowQueue' = FlowQueue
      /\ FlowGrants' = [FlowGrants EXCEPT ![f] = @ - 1]
      /\ FlowWindow' = [FlowWindow EXCEPT ![f] = @ + 1]
      /\ FlowReturning' = [FlowReturning EXCEPT ![f] = @ + 1]
      /\ FlowRestored' = FlowRestored
  BY FlowsMove DEF CounterStep
<1> HIDE DEF f
<1>3. Credit!Grant(f)
  BY <1>1, <1>2 DEF Credit!Grant, FlowCredits, FlowData, FlowQueue, FlowGrants, FlowWindow,
                    FlowReturning, FlowRestored
<1>4. QED  BY <1>1, <1>3, FlowFacts DEF Credit!Next

LEMMA ReturnIsCredit ==
    ASSUME MuxTypes, NEW s \in Sides, NEW l \in UsedLanes,
           Moved(s, l, 0, 0, 0, 0, 0, -1, 1), Returning(s, l) > 0
    PROVE  Credit!Next
<1> DEFINE f == <<s, l>>
<1>1. f \in Flows /\ FlowReturning[f] > 0
  BY FlowFacts DEF FlowReturning
<1>2. /\ FlowCredits' = FlowCredits
      /\ FlowData' = FlowData
      /\ FlowQueue' = FlowQueue
      /\ FlowGrants' = FlowGrants
      /\ FlowWindow' = FlowWindow
      /\ FlowReturning' = [FlowReturning EXCEPT ![f] = @ - 1]
      /\ FlowRestored' = [FlowRestored EXCEPT ![f] = @ + 1]
  BY FlowsMove DEF CounterStep
<1> HIDE DEF f
<1>3. Credit!Return(f)
  BY <1>1, <1>2 DEF Credit!Return, FlowCredits, FlowData, FlowQueue, FlowGrants, FlowWindow,
                    FlowReturning, FlowRestored
<1>4. QED  BY <1>1, <1>3, FlowFacts DEF Credit!Next

LEMMA RestoreIsCredit ==
    ASSUME MuxTypes, NEW s \in Sides, NEW l \in UsedLanes,
           Moved(s, l, 1, 0, 0, 0, 0, 0, -1), Restored(s, l) > 0
    PROVE  Credit!Next
<1> DEFINE f == <<s, l>>
<1>1. f \in Flows /\ FlowRestored[f] > 0
  BY FlowFacts DEF FlowRestored
<1>2. /\ FlowCredits' = [FlowCredits EXCEPT ![f] = @ + 1]
      /\ FlowData' = FlowData
      /\ FlowQueue' = FlowQueue
      /\ FlowGrants' = FlowGrants
      /\ FlowWindow' = FlowWindow
      /\ FlowReturning' = FlowReturning
      /\ FlowRestored' = [FlowRestored EXCEPT ![f] = @ - 1]
  BY FlowsMove DEF CounterStep
<1> HIDE DEF f
<1>3. Credit!Restore(f)
  BY <1>1, <1>2 DEF Credit!Restore, FlowCredits, FlowData, FlowQueue, FlowGrants, FlowWindow,
                    FlowReturning, FlowRestored
<1>4. QED  BY <1>1, <1>3, FlowFacts DEF Credit!Next

(* A step that moves no credit.                                            *)
Still ==
    \A r \in Sides, k \in UsedLanes :
        /\ credits'[r][k] = credits[r][k] /\ windows'[Peer(r)][k] = windows[Peer(r)][k]
        /\ Travelling(r, k)' = Travelling(r, k) /\ Delivering(r, k)' = Delivering(r, k)
        /\ Granted(r, k)' = Granted(r, k) /\ Returning(r, k)' = Returning(r, k)
        /\ Restored(r, k)' = Restored(r, k)

LEMMA RestIsCredit ==
    ASSUME Still
    PROVE  /\ UNCHANGED Credit!vars
           /\ \A r \in Sides, k \in UsedLanes : FlowBalanced(r, k) => FlowBalanced(r, k)'
<1>1. /\ FlowCredits' = FlowCredits /\ FlowData' = FlowData /\ FlowQueue' = FlowQueue
      /\ FlowGrants' = FlowGrants /\ FlowWindow' = FlowWindow
      /\ FlowReturning' = FlowReturning /\ FlowRestored' = FlowRestored
  BY FlowFacts DEF Still, FlowCredits, FlowData, FlowQueue, FlowGrants, FlowWindow, FlowReturning,
                   FlowRestored
<1>2. UNCHANGED Credit!vars
  BY <1>1 DEF Credit!vars, FlowCredits, FlowData, FlowQueue, FlowGrants, FlowWindow, FlowReturning,
              FlowRestored
<1>3. \A r \in Sides, k \in UsedLanes : FlowBalanced(r, k) => FlowBalanced(r, k)'
  BY DEF Still, FlowBalanced
<1>4. QED  BY <1>2, <1>3

LEMMA StillWhere ==
    ASSUME UNCHANGED <<credits, windows, wire, out, events, delivery, granting>>
    PROVE  Still
BY DEF Still, Travelling, Delivering, Granted, Returning, Restored, Writing

(***************************************************************************)
(* The other parts of the invariant.                                       *)
(***************************************************************************)
LEMMA BalanceFacts ==
    ASSUME MuxTypes, NEW s \in Sides, NEW l \in UsedLanes, FlowBalanced(s, l)
    PROVE  /\ Restored(s, l) > 0 => credits[s][l] < W
           /\ Granted(s, l) > 0 => windows[Peer(s)][l] < W
           /\ Travelling(s, l) > 0 => windows[Peer(s)][l] > 0 /\ delivery[Peer(s)][l] < W
<1>1. /\ credits[s][l] \in Nat /\ windows[Peer(s)][l] \in Nat /\ delivery[Peer(s)][l] \in Nat
      /\ Travelling(s, l) \in Nat /\ Delivering(s, l) \in Nat /\ Granted(s, l) \in Nat
      /\ Returning(s, l) \in Nat /\ Restored(s, l) \in Nat /\ W \in Nat
  BY NumberFacts, SideFacts, MuxAssumption
<1>2. delivery[Peer(s)][l] <= Delivering(s, l)
  BY <1>1 DEF Delivering
<1>3. /\ credits[s][l] + Travelling(s, l) + Delivering(s, l) + Granted(s, l)
            + Returning(s, l) + Restored(s, l) = W
      /\ windows[Peer(s)][l] + Delivering(s, l) + Granted(s, l) = W
  BY DEF FlowBalanced
<1>4. QED  BY <1>1, <1>2, <1>3

(* Fragments move along one flow.                                          *)
FragmentsMoved(s, l, t, b, d, q, i, n) ==
    \A r \in Sides, k \in UsedLanes :
        /\ toSend'[r][k] = toSend[r][k] + By(s, l, r, k, t)
        /\ buffered'[r][k] = buffered[r][k] + By(s, l, r, k, b)
        /\ Travelling(r, k)' = Travelling(r, k) + By(s, l, r, k, d)
        /\ delivery'[Peer(r)][k] = delivery[Peer(r)][k] + By(s, l, r, k, q)
        /\ inbuf'[Peer(r)][k] = inbuf[Peer(r)][k] + By(s, l, r, k, i)
        /\ received'[Peer(r)][k] = received[Peer(r)][k] + By(s, l, r, k, n)

FragmentsStill ==
    \A r \in Sides, k \in UsedLanes :
        /\ toSend'[r][k] = toSend[r][k] /\ buffered'[r][k] = buffered[r][k]
        /\ Travelling(r, k)' = Travelling(r, k)
        /\ delivery'[Peer(r)][k] = delivery[Peer(r)][k]
        /\ inbuf'[Peer(r)][k] = inbuf[Peer(r)][k] /\ received'[Peer(r)][k] = received[Peer(r)][k]

LEMMA FragmentSums ==
    ASSUME NEW T \in Nat, NEW B \in Nat, NEW D \in Nat, NEW Q \in Nat, NEW I \in Nat, NEW N \in Nat,
           NEW t \in Int, NEW b \in Int, NEW d \in Int, NEW q \in Int, NEW i \in Int, NEW n \in Int,
           t + b + d + q + i + n = 0
    PROVE  (T + t) + (B + b) + (D + d) + (Q + q) + (I + i) + (N + n) = T + B + D + Q + I + N
OBVIOUS

LEMMA CompleteKept ==
    ASSUME MuxTypes, NEW s \in Sides, NEW l \in UsedLanes,
           NEW t \in Int, NEW b \in Int, NEW d \in Int, NEW q \in Int, NEW i \in Int, NEW n \in Int,
           FragmentsMoved(s, l, t, b, d, q, i, n), t + b + d + q + i + n = 0,
           NEW r \in Sides, NEW k \in UsedLanes, FlowComplete(r, k)
    PROVE  FlowComplete(r, k)'
<1>1. /\ toSend[r][k] \in Nat /\ buffered[r][k] \in Nat /\ Travelling(r, k) \in Nat
      /\ delivery[Peer(r)][k] \in Nat /\ inbuf[Peer(r)][k] \in Nat /\ received[Peer(r)][k] \in Nat
  BY NumberFacts, SideFacts
<1> DEFINE By1(x) == By(s, l, r, k, x)
<1>2. /\ By1(t) \in Int /\ By1(b) \in Int /\ By1(d) \in Int /\ By1(q) \in Int /\ By1(i) \in Int
      /\ By1(n) \in Int /\ By1(t) + By1(b) + By1(d) + By1(q) + By1(i) + By1(n) = 0
  BY DEF By
<1>3. /\ toSend'[r][k] = toSend[r][k] + By1(t) /\ buffered'[r][k] = buffered[r][k] + By1(b)
      /\ Travelling(r, k)' = Travelling(r, k) + By1(d)
      /\ delivery'[Peer(r)][k] = delivery[Peer(r)][k] + By1(q)
      /\ inbuf'[Peer(r)][k] = inbuf[Peer(r)][k] + By1(i)
      /\ received'[Peer(r)][k] = received[Peer(r)][k] + By1(n)
  BY DEF FragmentsMoved
<1> HIDE DEF By1
<1>4. toSend'[r][k] + buffered'[r][k] + Travelling(r, k)'
        + delivery'[Peer(r)][k] + inbuf'[Peer(r)][k] + received'[Peer(r)][k]
      = toSend[r][k] + buffered[r][k] + Travelling(r, k)
        + delivery[Peer(r)][k] + inbuf[Peer(r)][k] + received[Peer(r)][k]
  BY <1>1, <1>2, <1>3, FragmentSums
<1>5. QED  BY <1>4 DEF FlowComplete

LEMMA CompleteStill ==
    ASSUME FragmentsStill, NEW r \in Sides, NEW k \in UsedLanes, FlowComplete(r, k)
    PROVE  FlowComplete(r, k)'
BY DEF FragmentsStill, FlowComplete

(* The end of a lane when nothing of it is written or read.                *)
LEMMA EndKept ==
    ASSUME NEW s \in Sides, NEW l \in UsedLanes, EndIsLast(s, l),
           closed'[s][l] => toSend'[s][l] = 0,
           ~open'[s][l] => closed'[s][l] /\ buffered'[s][l] = 0,
           ~open[s][l] => ~open'[s][l],
           wire'[Peer(s)] = wire[Peer(s)], ended'[Peer(s)][l] = ended[Peer(s)][l],
           eof'[Peer(s)][l] => ended'[Peer(s)][l] /\ delivery'[Peer(s)][l] = 0,
           \/ out'[s] = out[s]
           \/ out'[s] \notin OfLane(l)
           \/ open[s][l] /\ (out'[s] = Packet(l, "FINISH") => ~open'[s][l])
    PROVE  EndIsLast(s, l)'
<1>1. out'[s] = Packet(l, "FINISH") => ~open'[s][l]
  BY DEF EndIsLast, OfLane
<1>2. \A i \in DOMAIN wire[Peer(s)] : wire[Peer(s)][i] = Packet(l, "FINISH") =>
         ~open'[s][l] /\ out'[s] \notin OfLane(l)
  BY DEF EndIsLast
<1>3. ended[Peer(s)][l] => ~open'[s][l] /\ out'[s] \notin OfLane(l)
  BY DEF EndIsLast
<1>4. QED  BY <1>1, <1>2, <1>3 DEF EndIsLast

(* The packet of the scheduler goes to the end of the wire.                *)
LEMMA EndWritten ==
    ASSUME NEW s \in Sides, NEW l \in UsedLanes, EndIsLast(s, l),
           wire[Peer(s)] \in Seq(Packets), out[s] \in Packets,
           wire'[Peer(s)] = Append(wire[Peer(s)], out[s]), out'[s] = NoPacket,
           UNCHANGED <<closed, toSend, open, buffered, ended, eof, delivery>>
    PROVE  EndIsLast(s, l)'
<1> DEFINE q == wire[Peer(s)]
           n == Len(q) + 1
           r == Append(q, out[s])
<1>1. DOMAIN r = 1..n /\ r[n] = out[s] /\ (\A i \in 1..Len(q) : r[i] = q[i]) /\ DOMAIN q = 1..Len(q)
      /\ Len(q) \in Nat /\ 1..n = 1..Len(q) \cup {n}
  BY AppendProperties
<1>2. NoPacket \notin OfLane(l)
  BY PacketFacts DEF OfLane
<1>3. Packet(l, "FINISH") \in OfLane(l)
  BY DEF OfLane
<1>4. \A i \in DOMAIN r : r[i] = Packet(l, "FINISH") =>
         ~open[s][l] /\ \A j \in DOMAIN r : j > i => r[j] \notin OfLane(l)
  <2> SUFFICES ASSUME NEW i \in DOMAIN r, r[i] = Packet(l, "FINISH")
               PROVE  ~open[s][l] /\ \A j \in DOMAIN r : j > i => r[j] \notin OfLane(l)
    OBVIOUS
  <2>1. CASE i = n
    <3>1. ~open[s][l]
      BY <1>1, <2>1 DEF EndIsLast
    <3>2. \A j \in DOMAIN r : ~(j > i)
      BY <1>1, <2>1
    <3>3. QED  BY <3>1, <3>2
  <2>2. CASE i # n
    <3>1. i \in DOMAIN q /\ q[i] = Packet(l, "FINISH")
      BY <1>1, <2>2
    <3>2. /\ ~open[s][l] /\ out[s] \notin OfLane(l)
          /\ \A j \in DOMAIN q : j > i => q[j] \notin OfLane(l)
      BY <3>1 DEF EndIsLast
    <3>3. \A j \in DOMAIN r : j > i => r[j] \notin OfLane(l)
      BY <1>1, <3>2
    <3>4. QED  BY <3>2, <3>3
  <2>3. QED  BY <2>1, <2>2
<1>5. ended[Peer(s)][l] => ~open[s][l] /\ \A j \in DOMAIN r : r[j] \notin OfLane(l)
  BY <1>1 DEF EndIsLast
<1> HIDE DEF r
<1>6. wire'[Peer(s)] = r
  BY DEF r
<1>7. QED  BY <1>2, <1>3, <1>4, <1>5, <1>6, PacketFacts DEF EndIsLast

(* The receive task takes the first packet.                                *)
LEMMA EndRead ==
    ASSUME NEW s \in Sides, NEW l \in UsedLanes, EndIsLast(s, l),
           wire[Peer(s)] \in Seq(Packets), wire[Peer(s)] # <<>>,
           wire'[Peer(s)] = Tail(wire[Peer(s)]),
           UNCHANGED <<closed, toSend, open, buffered, out, eof>>,
           ended'[Peer(s)][l] <=> ended[Peer(s)][l] \/ Head(wire[Peer(s)]) = Packet(l, "FINISH"),
           eof[Peer(s)][l] => delivery'[Peer(s)][l] = 0
    PROVE  EndIsLast(s, l)'
<1> DEFINE q == wire[Peer(s)]
           r == Tail(q)
<1>1. /\ DOMAIN r = 1..Len(r) /\ DOMAIN q = 1..Len(q) /\ Len(r) = Len(q) - 1 /\ Len(q) \in Nat
      /\ Len(q) >= 1 /\ q[1] = Head(q) /\ \A i \in 1..Len(r) : r[i] = q[i + 1]
  BY HeadTailProperties, EmptySeq
<1>2. \A i \in DOMAIN r : i + 1 \in DOMAIN q /\ r[i] = q[i + 1] /\ i + 1 > 1 /\ i \in Nat
  BY <1>1
<1>3. \A i \in DOMAIN r : r[i] = Packet(l, "FINISH") =>
         /\ ~open[s][l] /\ out[s] \notin OfLane(l)
         /\ \A j \in DOMAIN r : j > i => r[j] \notin OfLane(l)
  <2> SUFFICES ASSUME NEW i \in DOMAIN r, r[i] = Packet(l, "FINISH")
               PROVE  /\ ~open[s][l] /\ out[s] \notin OfLane(l)
                      /\ \A j \in DOMAIN r : j > i => r[j] \notin OfLane(l)
    OBVIOUS
  <2>1. /\ ~open[s][l] /\ out[s] \notin OfLane(l)
        /\ \A j \in DOMAIN q : j > i + 1 => q[j] \notin OfLane(l)
    BY <1>2 DEF EndIsLast
  <2>2. \A j \in DOMAIN r : j > i => j + 1 > i + 1
    BY <1>2
  <2>3. QED  BY <1>2, <2>1, <2>2
<1>4. ended'[Peer(s)][l] =>
         ~open[s][l] /\ out[s] \notin OfLane(l) /\ \A j \in DOMAIN r : r[j] \notin OfLane(l)
  <2>1. CASE ended[Peer(s)][l]
    BY <1>2, <2>1 DEF EndIsLast
  <2>2. CASE Head(q) = Packet(l, "FINISH")
    <3>1. 1 \in DOMAIN q /\ q[1] = Packet(l, "FINISH")
      BY <1>1, <2>2
    <3>2. /\ ~open[s][l] /\ out[s] \notin OfLane(l)
          /\ \A j \in DOMAIN q : j > 1 => q[j] \notin OfLane(l)
      BY <3>1 DEF EndIsLast
    <3>3. QED  BY <1>2, <3>2
  <2>3. QED  BY <2>1, <2>2
<1>5. eof[Peer(s)][l] => ended'[Peer(s)][l]
  BY DEF EndIsLast
<1> HIDE DEF r
<1>6. wire'[Peer(s)] = r
  BY DEF r
<1>7. QED  BY <1>3, <1>4, <1>5, <1>6 DEF EndIsLast

(***************************************************************************)
(* One lemma per action: the invariant is kept, and the credits move as    *)
(* MuxCredit says or not at all.                                           *)
(***************************************************************************)
LEMMA PartsMake ==
    ASSUME MuxTypes', NeverFails', BurstsAreShort', PipesFit',
           \A r \in Sides, k \in UsedLanes : FlowBalanced(r, k)',
           \A r \in Sides, k \in UsedLanes : FlowComplete(r, k)',
           \A r \in Sides, k \in UsedLanes : EndIsLast(r, k)'
    PROVE  MuxInv'
BY DEF MuxInv, FlowInv

LEMMA AppWriteKeeps ==
    ASSUME MuxInv, NEW s \in Sides, NEW l \in UsedLanes, AppWrite(s, l)
    PROVE  MuxInv' /\ UNCHANGED Credit!vars
<1>1. /\ MuxTypes /\ toSend[s][l] \in Nat /\ buffered[s][l] \in Nat /\ W \in Nat
      /\ toSend[s][l] - 1 \in Nat /\ buffered[s][l] + 1 \in Nat
  BY NumberFacts, MuxAssumption DEF MuxInv, AppWrite
<1>2. /\ \A r \in Sides, k \in UsedLanes : toSend'[r][k] = IF r = s /\ k = l THEN toSend[s][l] - 1 ELSE toSend[r][k]
      /\ \A r \in Sides, k \in UsedLanes : buffered'[r][k] = IF r = s /\ k = l THEN buffered[s][l] + 1 ELSE buffered[r][k]
      /\ toSend' \in [Sides -> [UsedLanes -> Nat]] /\ buffered' \in [Sides -> [UsedLanes -> Nat]]
  BY <1>1 DEF AppWrite, MuxTypes
<1>3. /\ UNCHANGED <<closed, inbuf, received, open, credits, burst, passed, out, wire, events, failed>>
      /\ UNCHANGED <<windows, delivery, ended, granting, eof>>
      /\ buffered[s][l] < W /\ toSend[s][l] > 0
  BY DEF AppWrite, schedulerVars, receiverVars
<1>4. MuxTypes'
  BY <1>1, <1>2, <1>3 DEF MuxTypes
<1>5. NeverFails' /\ BurstsAreShort'
  BY <1>3 DEF MuxInv, NeverFails, BurstsAreShort
<1>6. PipesFit'
  BY <1>1, <1>2, <1>3 DEF MuxInv, PipesFit
<1>7. UNCHANGED Credit!vars /\ \A r \in Sides, k \in UsedLanes : FlowBalanced(r, k)'
  BY <1>3, StillWhere, RestIsCredit DEF MuxInv, FlowInv
<1>8. \A r \in Sides, k \in UsedLanes : FlowComplete(r, k)'
  <2>1. \A r \in Sides, k \in UsedLanes : /\ toSend[r][k] \in Nat /\ buffered[r][k] \in Nat /\ Travelling(r, k) \in Nat
          /\ delivery[Peer(r)][k] \in Nat /\ inbuf[Peer(r)][k] \in Nat /\ received[Peer(r)][k] \in Nat
    BY <1>1, NumberFacts, SideFacts
  <2>2. FragmentsMoved(s, l, -1, 1, 0, 0, 0, 0)
    BY <1>2, <1>3, <2>1 DEF FragmentsMoved, By, Travelling, Writing
  <2>3. QED  BY <1>1, <2>2, CompleteKept DEF MuxInv, FlowInv
<1>9. \A r \in Sides, k \in UsedLanes : EndIsLast(r, k)'
  <2> SUFFICES ASSUME NEW r \in Sides, NEW k \in UsedLanes
               PROVE  EndIsLast(r, k)'
    OBVIOUS
  <2>1. EndIsLast(r, k)
    BY DEF MuxInv, FlowInv
  <2>2. r = s /\ k = l => ~closed[r][k] /\ open[r][k]
    <3>1. toSend[s][l] # 0
      BY <1>1, <1>3
    <3>2. (closed[r][k] => toSend[r][k] = 0) /\ (~open[r][k] => closed[r][k])
      BY <2>1 DEF EndIsLast
    <3>3. QED  BY <3>1, <3>2
  <2>3. /\ closed'[r][k] => toSend'[r][k] = 0
        /\ ~open'[r][k] => closed'[r][k] /\ buffered'[r][k] = 0
        /\ eof'[Peer(r)][k] => ended'[Peer(r)][k] /\ delivery'[Peer(r)][k] = 0
    BY <1>2, <1>3, <2>1, <2>2 DEF EndIsLast
  <2>4. QED  BY <1>3, <2>1, <2>3, EndKept
<1>10. QED  BY <1>4, <1>5, <1>6, <1>7, <1>8, <1>9, PartsMake

LEMMA AppCloseKeeps ==
    ASSUME MuxInv, NEW s \in Sides, NEW l \in UsedLanes, AppClose(s, l)
    PROVE  MuxInv' /\ UNCHANGED Credit!vars
<1>1. /\ UNCHANGED <<toSend, buffered, inbuf, received, open, credits, burst, passed, out, wire, events, failed>>
      /\ UNCHANGED <<windows, delivery, ended, granting, eof>>
      /\ toSend[s][l] = 0
  BY DEF AppClose, schedulerVars, receiverVars
<1>2. /\ \A r \in Sides, k \in UsedLanes : closed'[r][k] <=> closed[r][k] \/ (r = s /\ k = l)
      /\ closed' \in [Sides -> [UsedLanes -> BOOLEAN]]
  BY DEF AppClose, MuxInv, MuxTypes
<1>4. MuxTypes'
  BY <1>1, <1>2 DEF MuxInv, MuxTypes
<1>5. NeverFails' /\ BurstsAreShort' /\ PipesFit'
  BY <1>1 DEF MuxInv, NeverFails, BurstsAreShort, PipesFit
<1>7. UNCHANGED Credit!vars /\ \A r \in Sides, k \in UsedLanes : FlowBalanced(r, k)'
  BY <1>1, StillWhere, RestIsCredit DEF MuxInv, FlowInv
<1>8. \A r \in Sides, k \in UsedLanes : FlowComplete(r, k)'
  BY <1>1 DEF MuxInv, FlowInv, FlowComplete, Travelling, Writing
<1>9. \A r \in Sides, k \in UsedLanes : EndIsLast(r, k)'
  <2> SUFFICES ASSUME NEW r \in Sides, NEW k \in UsedLanes
               PROVE  EndIsLast(r, k)'
    OBVIOUS
  <2>1. EndIsLast(r, k)
    BY DEF MuxInv, FlowInv
  <2>2. /\ closed'[r][k] => toSend'[r][k] = 0
        /\ ~open'[r][k] => closed'[r][k] /\ buffered'[r][k] = 0
        /\ eof'[Peer(r)][k] => ended'[Peer(r)][k] /\ delivery'[Peer(r)][k] = 0
    BY <1>1, <1>2, <2>1 DEF EndIsLast
  <2>3. QED  BY <1>1, <2>1, <2>2, EndKept
<1>10. QED  BY <1>4, <1>5, <1>7, <1>8, <1>9, PartsMake

LEMMA AppReadKeeps ==
    ASSUME MuxInv, NEW s \in Sides, NEW l \in UsedLanes, AppRead(s, l)
    PROVE  MuxInv' /\ UNCHANGED Credit!vars
<1>1. /\ MuxTypes /\ inbuf[s][l] \in Nat /\ received[s][l] \in Nat /\ W \in Nat
      /\ inbuf[s][l] - 1 \in Nat /\ received[s][l] + 1 \in Nat /\ Peer(s) \in Sides
  BY NumberFacts, MuxAssumption, SideFacts DEF MuxInv, AppRead
<1>2. /\ \A r \in Sides, k \in UsedLanes : inbuf'[r][k] = IF r = s /\ k = l THEN inbuf[s][l] - 1 ELSE inbuf[r][k]
      /\ \A r \in Sides, k \in UsedLanes : received'[r][k] = IF r = s /\ k = l THEN received[s][l] + 1 ELSE received[r][k]
      /\ inbuf' \in [Sides -> [UsedLanes -> Nat]] /\ received' \in [Sides -> [UsedLanes -> Nat]]
  BY <1>1 DEF AppRead, MuxTypes
<1>3. /\ UNCHANGED <<toSend, buffered, closed, open, credits, burst, passed, out, wire, events, failed>>
      /\ UNCHANGED <<windows, delivery, ended, granting, eof>>
  BY DEF AppRead, schedulerVars, receiverVars
<1>4. MuxTypes'
  BY <1>1, <1>2, <1>3 DEF MuxTypes
<1>5. NeverFails' /\ BurstsAreShort'
  BY <1>3 DEF MuxInv, NeverFails, BurstsAreShort
<1>6. PipesFit'
  BY <1>1, <1>2, <1>3 DEF MuxInv, PipesFit
<1>7. UNCHANGED Credit!vars /\ \A r \in Sides, k \in UsedLanes : FlowBalanced(r, k)'
  BY <1>3, StillWhere, RestIsCredit DEF MuxInv, FlowInv
<1>8. \A r \in Sides, k \in UsedLanes : FlowComplete(r, k)'
  <2>1. \A r \in Sides, k \in UsedLanes : /\ toSend[r][k] \in Nat /\ buffered[r][k] \in Nat /\ Travelling(r, k) \in Nat
          /\ delivery[Peer(r)][k] \in Nat /\ inbuf[Peer(r)][k] \in Nat /\ received[Peer(r)][k] \in Nat
    BY <1>1, NumberFacts, SideFacts
  <2>2. \A r \in Sides : Peer(r) \in Sides /\ (Peer(r) = s <=> r = Peer(s))
    BY SideFacts
  <2>3. FragmentsMoved(Peer(s), l, 0, 0, 0, 0, -1, 1)
    BY <1>1, <1>2, <1>3, <2>1, <2>2 DEF FragmentsMoved, By, Travelling, Writing
  <2>4. \A r \in Sides, k \in UsedLanes : FlowComplete(r, k)
    BY DEF MuxInv, FlowInv
  <2>5. -1 \in Int /\ 0 \in Int /\ 1 \in Int /\ 0 + 0 + 0 + 0 + -1 + 1 = 0
    OBVIOUS
  <2>6. QED  BY <1>1, <2>3, <2>4, <2>5, CompleteKept
<1>9. \A r \in Sides, k \in UsedLanes : EndIsLast(r, k)'
  BY <1>3 DEF MuxInv, FlowInv, EndIsLast
<1>10. QED  BY <1>4, <1>5, <1>6, <1>7, <1>8, <1>9, PartsMake

LEMMA TakePeerCreditKeeps ==
    ASSUME MuxInv, NEW s \in Sides, TakePeerCredit(s)
    PROVE  MuxInv' /\ Credit!Next
<1>1. MuxTypes /\ events[s] \in Seq(Events) /\ events[s] # <<>> /\ W \in Nat
  BY MuxAssumption DEF MuxInv, MuxTypes, TakePeerCredit
<1>2. PICK l \in UsedLanes : Head(events[s]) = Packet(l, "PeerCredit") /\ Head(events[s]).lane = l
  <2>1. Head(events[s]) \in Events /\ Head(events[s]).kind = "PeerCredit"
    BY <1>1, HeadTailProperties DEF TakePeerCredit
  <2>2. QED  BY <2>1, PacketFacts
<1>3. events' = [events EXCEPT ![s] = Tail(@)] /\ Tail(events[s]) \in Seq(Events)
  BY <1>1, HeadTailProperties DEF TakePeerCredit
<1>4. \A r \in Sides, k \in UsedLanes :
         /\ Granted(r, k)' = Granted(r, k) + By(Peer(s), l, r, k, 0)
         /\ Restored(r, k)' = Restored(r, k) + By(s, l, r, k, -1)
  <2>1. Less("PeerCredit", "GrantPeer") = 0 /\ Less("PeerCredit", "PeerCredit") = -1
    BY KindFacts
  <2> SUFFICES ASSUME NEW r \in Sides, NEW k \in UsedLanes
               PROVE  /\ Granted(r, k)' = Granted(r, k) + By(Peer(s), l, r, k, Less("PeerCredit", "GrantPeer"))
                      /\ Restored(r, k)' = Restored(r, k) + By(s, l, r, k, Less("PeerCredit", "PeerCredit"))
    BY <2>1
  <2>2. /\ "PeerCredit" \in {"PeerCredit", "GrantPeer"} /\ MuxTypes
        /\ events[s] # <<>> /\ Head(events[s]) = Packet(l, "PeerCredit")
        /\ events' = [events EXCEPT ![s] = Tail(@)]
    BY <1>1, <1>2, <1>3
  <2>3. QED  BY <2>2, EventTaken
<1>5. credits[s][l] \in Nat /\ credits[s][l] < W /\ Restored(s, l) > 0
  <2>1. FlowBalanced(s, l) /\ credits[s][l] \in Nat /\ Restored(s, l) \in Nat
    BY <1>1, NumberFacts DEF MuxInv, FlowInv
  <2>2. 1 \in 1..Len(events[s]) /\ events[s][1] = Packet(l, "PeerCredit")
    BY <1>1, <1>2, HeadTailProperties, EmptySeq
  <2>3. Restored(s, l) # 0
    BY <1>1, <2>2, CountPositive DEF Restored
  <2>4. QED  BY <1>1, <2>1, <2>3, BalanceFacts
<1>6. /\ credits' = [credits EXCEPT ![s][l] = @ + 1]
      /\ UNCHANGED <<toSend, buffered, closed, inbuf, received, open, burst, passed, out, wire, failed>>
      /\ UNCHANGED <<windows, delivery, ended, granting, eof>>
  BY <1>1, <1>2, <1>5 DEF TakePeerCredit, appVars, receiverVars
<1>7. /\ credits' \in [Sides -> [UsedLanes -> Nat]]
      /\ \A r \in Sides, k \in UsedLanes : credits'[r][k] = credits[r][k] + By(s, l, r, k, 1)
  <2>1. credits[s][l] + 1 \in Nat /\ credits \in [Sides -> [UsedLanes -> Nat]]
    BY <1>1, <1>5 DEF MuxTypes
  <2>2. QED  BY <1>6, <2>1 DEF By
<1>8. MuxTypes' /\ NeverFails' /\ BurstsAreShort' /\ PipesFit'
  <2>1. events' \in [Sides -> Seq(Events)]
    BY <1>1, <1>3 DEF MuxTypes
  <2>2. QED  BY <1>1, <1>6, <1>7, <2>1 DEF MuxInv, MuxTypes, NeverFails, BurstsAreShort, PipesFit
<1>9. Moved(s, l, 1, 0, 0, 0, 0, 0, -1)
  <2>1. \A r \in Sides, k \in UsedLanes :
           /\ windows[Peer(r)][k] \in Nat /\ Travelling(r, k) \in Nat /\ Delivering(r, k) \in Nat
           /\ Returning(r, k) \in Nat /\ Granted(r, k) \in Nat
    BY <1>1, NumberFacts, SideFacts
  <2>2. \A r \in Sides, k \in UsedLanes :
           /\ windows'[Peer(r)][k] = windows[Peer(r)][k] /\ Travelling(r, k)' = Travelling(r, k)
           /\ Delivering(r, k)' = Delivering(r, k) /\ Returning(r, k)' = Returning(r, k)
    BY <1>6 DEF Travelling, Delivering, Returning, Writing
  <2>3. \A i \in Sides, r \in Sides, k \in UsedLanes : By(i, l, r, k, 0) = 0
    BY DEF By
  <2>4. QED  BY <1>4, <1>7, <2>1, <2>2, <2>3, SideFacts DEF Moved
<1>11. Credit!Next /\ \A r \in Sides, k \in UsedLanes : FlowBalanced(r, k)'
  <2>1. \A r \in Sides, k \in UsedLanes : FlowBalanced(r, k)
    BY DEF MuxInv, FlowInv
  <2>2. 1 \in Int /\ 0 \in Int /\ -1 \in Int /\ 1 + 0 + 0 + 0 + 0 + -1 = 0 /\ 0 + 0 + 0 = 0
    OBVIOUS
  <2>3. Credit!Next
    BY <1>1, <1>5, <1>9, RestoreIsCredit
  <2>4. QED  BY <1>1, <1>8, <1>9, <2>1, <2>2, <2>3, BalanceKept
<1>12. \A r \in Sides, k \in UsedLanes : FlowComplete(r, k)' /\ EndIsLast(r, k)'
  BY <1>6 DEF MuxInv, FlowInv, FlowComplete, EndIsLast, Travelling, Writing
<1>13. QED  BY <1>8, <1>11, <1>12, PartsMake

LEMMA TakeGrantKeeps ==
    ASSUME MuxInv, NEW s \in Sides, TakeGrant(s)
    PROVE  MuxInv' /\ Credit!Next
<1>1. /\ MuxTypes /\ events[s] \in Seq(Events) /\ events[s] # <<>> /\ W \in Nat
      /\ Peer(s) \in Sides /\ Peer(Peer(s)) = s
  BY MuxAssumption, SideFacts DEF MuxInv, MuxTypes, TakeGrant
<1>2. PICK l \in UsedLanes : Head(events[s]) = Packet(l, "GrantPeer") /\ Head(events[s]).lane = l
  <2>1. Head(events[s]) \in Events /\ Head(events[s]).kind = "GrantPeer"
    BY <1>1, HeadTailProperties DEF TakeGrant
  <2>2. QED  BY <2>1, PacketFacts
<1>3. events' = [events EXCEPT ![s] = Tail(@)] /\ Tail(events[s]) \in Seq(Events)
  BY <1>1, HeadTailProperties DEF TakeGrant
<1>4. \A r \in Sides, k \in UsedLanes :
         /\ Granted(r, k)' = Granted(r, k) + By(Peer(s), l, r, k, -1)
         /\ Restored(r, k)' = Restored(r, k) + By(s, l, r, k, 0)
  <2>1. Less("GrantPeer", "GrantPeer") = -1 /\ Less("GrantPeer", "PeerCredit") = 0
    BY KindFacts
  <2> SUFFICES ASSUME NEW r \in Sides, NEW k \in UsedLanes
               PROVE  /\ Granted(r, k)' = Granted(r, k) + By(Peer(s), l, r, k, Less("GrantPeer", "GrantPeer"))
                      /\ Restored(r, k)' = Restored(r, k) + By(s, l, r, k, Less("GrantPeer", "PeerCredit"))
    BY <2>1
  <2>2. /\ "GrantPeer" \in {"PeerCredit", "GrantPeer"} /\ MuxTypes
        /\ events[s] # <<>> /\ Head(events[s]) = Packet(l, "GrantPeer")
        /\ events' = [events EXCEPT ![s] = Tail(@)]
    BY <1>1, <1>2, <1>3
  <2>3. QED  BY <2>2, EventTaken
<1>5. windows[s][l] \in Nat /\ windows[s][l] < W /\ Granted(Peer(s), l) > 0
  <2>1. FlowBalanced(Peer(s), l) /\ windows[s][l] \in Nat /\ Granted(Peer(s), l) \in Nat
    BY <1>1, NumberFacts DEF MuxInv, FlowInv
  <2>2. 1 \in 1..Len(events[s]) /\ events[s][1] = Packet(l, "GrantPeer")
    BY <1>1, <1>2, HeadTailProperties, EmptySeq
  <2>3. Granted(Peer(s), l) # 0
    BY <1>1, <2>2, CountPositive DEF Granted
  <2>4. QED  BY <1>1, <2>1, <2>3, BalanceFacts
<1>6. /\ windows' = [windows EXCEPT ![s][l] = @ + 1]
      /\ out[s] = NoPacket /\ out' = [out EXCEPT ![s] = Packet(l, "CREDIT")]
      /\ UNCHANGED <<toSend, buffered, closed, inbuf, received, open, credits, burst, passed, wire, failed>>
      /\ UNCHANGED <<delivery, ended, granting, eof>>
  <2>1. ~(windows[s][l] >= W)
    BY <1>1, <1>5
  <2>2. QED  BY <1>2, <2>1 DEF TakeGrant, Selecting, appVars
<1>7. /\ windows' \in [Sides -> [UsedLanes -> Nat]]
      /\ \A r \in Sides, k \in UsedLanes : windows'[r][k] = windows[r][k] + By(s, l, r, k, 1)
  <2> DEFINE v == windows[s][l] + 1
  <2>1. windows \in [Sides -> [UsedLanes -> Nat]]
    BY <1>1 DEF MuxTypes
  <2>2. v \in Nat /\ v = windows[s][l] + 1 /\ 1 \in Int
    BY <1>5
  <2>3. windows' = [windows EXCEPT ![s][l] = v]
    BY <1>6
  <2> HIDE DEF v
  <2>4. /\ windows' \in [Sides -> [UsedLanes -> Nat]]
        /\ \A r \in Sides, k \in UsedLanes : windows'[r][k] = IF r = s /\ k = l THEN v ELSE windows[r][k]
    BY <2>1, <2>2, <2>3
  <2>5. \A r \in Sides, k \in UsedLanes : windows[r][k] \in Nat
    BY <2>1
  <2>6. QED  BY <2>2, <2>4, <2>5 DEF By
<1>8. MuxTypes' /\ NeverFails' /\ BurstsAreShort' /\ PipesFit'
  <2>1. events' \in [Sides -> Seq(Events)]
    BY <1>1, <1>3 DEF MuxTypes
  <2>2. out' \in [Sides -> Packets \cup {NoPacket}]
    BY <1>1, <1>6, PacketFacts DEF MuxTypes, PacketKinds
  <2>3. QED  BY <1>1, <1>6, <1>7, <2>1, <2>2 DEF MuxInv, MuxTypes, NeverFails, BurstsAreShort, PipesFit
<1>9. \A r \in Sides, k \in UsedLanes :
         /\ Travelling(r, k)' = Travelling(r, k) + By(s, l, r, k, 0)
         /\ Returning(r, k)' = Returning(r, k) + By(Peer(s), l, r, k, 1)
  <2>1. One("CREDIT", "DATA") = 0 /\ One("CREDIT", "CREDIT") = 1
    BY KindFacts
  <2> SUFFICES ASSUME NEW r \in Sides, NEW k \in UsedLanes
               PROVE  /\ Travelling(r, k)' = Travelling(r, k) + By(s, l, r, k, One("CREDIT", "DATA"))
                      /\ Returning(r, k)' = Returning(r, k) + By(Peer(s), l, r, k, One("CREDIT", "CREDIT"))
    BY <2>1
  <2>2. /\ "CREDIT" \in PacketKinds /\ MuxTypes /\ out[s] = NoPacket
        /\ out' = [out EXCEPT ![s] = Packet(l, "CREDIT")] /\ wire' = wire
    BY <1>1, <1>6 DEF PacketKinds
  <2>3. QED  BY <2>2, PacketChosen
<1>10. Moved(Peer(s), l, 0, 0, 0, -1, 1, 1, 0)
  <2>1. \A r \in Sides, k \in UsedLanes :
           /\ credits[r][k] \in Nat /\ Travelling(r, k) \in Nat /\ Delivering(r, k) \in Nat
           /\ Restored(r, k) \in Nat
    BY <1>1, NumberFacts
  <2>2. \A r \in Sides, k \in UsedLanes :
           /\ credits'[r][k] = credits[r][k] /\ Delivering(r, k)' = Delivering(r, k)
    BY <1>6 DEF Delivering
  <2>4. \A r \in Sides, k \in UsedLanes : Peer(r) \in Sides /\ By(s, l, Peer(r), k, 1) = By(Peer(s), l, r, k, 1)
    BY SideFacts DEF By
  <2>5. \A r \in Sides, k \in UsedLanes :
           /\ credits'[r][k] = credits[r][k] + By(Peer(s), l, r, k, 0)
           /\ Travelling(r, k)' = Travelling(r, k) + By(Peer(s), l, r, k, 0)
           /\ Delivering(r, k)' = Delivering(r, k) + By(Peer(s), l, r, k, 0)
           /\ Restored(r, k)' = Restored(r, k) + By(Peer(s), l, r, k, 0)
    BY <1>4, <1>9, <2>1, <2>2, ByNothing
  <2>6. \A r \in Sides, k \in UsedLanes :
           windows'[Peer(r)][k] = windows[Peer(r)][k] + By(Peer(s), l, r, k, 1)
    BY <1>7, <2>4
  <2>7. QED  BY <1>4, <1>9, <2>5, <2>6 DEF Moved
<1>11. Credit!Next /\ \A r \in Sides, k \in UsedLanes : FlowBalanced(r, k)'
  <2>1. \A r \in Sides, k \in UsedLanes : FlowBalanced(r, k)
    BY DEF MuxInv, FlowInv
  <2>2. 1 \in Int /\ 0 \in Int /\ -1 \in Int /\ 0 + 0 + 0 + -1 + 1 + 0 = 0 /\ 1 + 0 + -1 = 0
    OBVIOUS
  <2>3. Credit!Next
    BY <1>1, <1>5, <1>10, GrantIsCredit
  <2>4. QED  BY <1>1, <1>8, <1>10, <2>1, <2>2, <2>3, BalanceKept
<1>12. \A r \in Sides, k \in UsedLanes : FlowComplete(r, k)'
  <2> SUFFICES ASSUME NEW r \in Sides, NEW k \in UsedLanes
               PROVE  FlowComplete(r, k)'
    OBVIOUS
  <2>1. Travelling(r, k)' = Travelling(r, k)
    BY <1>1, <1>9, NumberFacts DEF By
  <2>2. QED  BY <1>6, <2>1 DEF MuxInv, FlowInv, FlowComplete
<1>13. \A r \in Sides, k \in UsedLanes : EndIsLast(r, k)'
  <2> SUFFICES ASSUME NEW r \in Sides, NEW k \in UsedLanes
               PROVE  EndIsLast(r, k)'
    OBVIOUS
  <2>1. EndIsLast(r, k)
    BY DEF MuxInv, FlowInv
  <2>2. out'[r] = out[r] \/ out'[r] \notin OfLane(k)
    BY <1>1, <1>6, OfLaneFacts DEF MuxTypes
  <2>3. /\ closed'[r][k] => toSend'[r][k] = 0
        /\ ~open'[r][k] => closed'[r][k] /\ buffered'[r][k] = 0
        /\ eof'[Peer(r)][k] => ended'[Peer(r)][k] /\ delivery'[Peer(r)][k] = 0
    BY <1>6, <2>1 DEF EndIsLast
  <2>4. QED  BY <1>6, <2>1, <2>2, <2>3, EndKept
<1>14. QED  BY <1>8, <1>11, <1>12, <1>13, PartsMake

(* The lane the select takes is one that can be read, of the lowest rank.  *)
LEMMA NextLaneFacts ==
    ASSUME MuxTypes, NEW s \in Sides, Readable(s) # {}
    PROVE  /\ NextLane(s) \in Readable(s)
           /\ \A k \in Readable(s) : Rank(s, NextLane(s)) <= Rank(s, k)
<1>1. Readable(s) \subseteq {"control", "input", "clipboard"}
  BY MuxAssumption DEF Readable
<1>2. /\ Rank(s, "control") = 1 /\ Rank(s, "input") = 2
      /\ Rank(s, "clipboard") = IF burst[s] >= Burst THEN 0 ELSE 3
  BY DEF Rank
<1>3. \E l \in Readable(s) : \A k \in Readable(s) : Rank(s, l) <= Rank(s, k)
  <2>1. CASE "clipboard" \in Readable(s) /\ burst[s] >= Burst
    BY <1>1, <1>2, <2>1
  <2>2. CASE ~("clipboard" \in Readable(s) /\ burst[s] >= Burst) /\ "control" \in Readable(s)
    BY <1>1, <1>2, <2>2
  <2>3. CASE ~("clipboard" \in Readable(s) /\ burst[s] >= Burst) /\ "control" \notin Readable(s)
             /\ "input" \in Readable(s)
    BY <1>1, <1>2, <2>3
  <2>4. CASE "control" \notin Readable(s) /\ "input" \notin Readable(s)
    BY <1>1, <1>2, <2>4
  <2>5. QED  BY <2>1, <2>2, <2>3, <2>4
<1>4. QED  BY <1>3 DEF NextLane

LEMMA BurstIsOver ==
    ASSUME MuxTypes, NEW s \in Sides, "clipboard" \in Readable(s), NextLane(s) # "clipboard"
    PROVE  burst[s] < Burst
<1>1. NextLane(s) \in {"control", "input"} /\ Rank(s, NextLane(s)) <= Rank(s, "clipboard")
  BY NextLaneFacts, MuxAssumption DEF Readable
<1>2. burst[s] \in Nat /\ Burst \in Nat
  BY MuxAssumption DEF MuxTypes
<1>3. QED  BY <1>1, <1>2 DEF Rank

LEMMA ReadLaneKeeps ==
    ASSUME MuxInv, NEW s \in Sides, ReadLane(s)
    PROVE  MuxInv' /\ Credit!Next
<1> DEFINE l == NextLane(s)
<1>1. /\ MuxTypes /\ Readable(s) # {} /\ out[s] = NoPacket /\ buffered[s][l] > 0
      /\ buffered' = [buffered EXCEPT ![s][l] = @ - 1]
      /\ credits' = [credits EXCEPT ![s][l] = @ - 1]
      /\ out' = [out EXCEPT ![s] = Packet(l, "DATA")]
      /\ burst' = [burst EXCEPT ![s] = IF l = "clipboard" THEN 0 ELSE @ + 1]
      /\ passed' = [passed EXCEPT ![s] =
                      IF l # "clipboard" /\ "clipboard" \in Readable(s) THEN @ + 1 ELSE 0]
  BY DEF MuxInv, ReadLane, Selecting
<1>2. /\ UNCHANGED <<toSend, closed, inbuf, received, open, wire, events, failed>>
      /\ UNCHANGED <<windows, delivery, ended, granting, eof>>
  BY DEF ReadLane, receiverVars
<1>3. l \in UsedLanes /\ open[s][l] /\ credits[s][l] > 0
  BY <1>1, NextLaneFacts DEF Readable
<1>4. "clipboard" \in Readable(s) /\ l # "clipboard" => burst[s] < Burst
  BY <1>1, BurstIsOver
<1> HIDE DEF l
<1>5. credits[s][l] \in Nat /\ buffered[s][l] \in Nat /\ credits[s][l] - 1 \in Nat /\ buffered[s][l] - 1 \in Nat
  BY <1>1, <1>3, NumberFacts
<1>6. /\ credits' \in [Sides -> [UsedLanes -> Nat]]
      /\ \A r \in Sides, k \in UsedLanes : credits'[r][k] = credits[r][k] + By(s, l, r, k, -1)
  <2>1. credits \in [Sides -> [UsedLanes -> Nat]]
    BY <1>1 DEF MuxTypes
  <2>2. /\ credits' \in [Sides -> [UsedLanes -> Nat]]
        /\ \A r \in Sides, k \in UsedLanes : credits'[r][k] = IF r = s /\ k = l THEN credits[s][l] - 1 ELSE credits[r][k]
    BY <1>1, <1>3, <1>5, <2>1
  <2>3. \A r \in Sides, k \in UsedLanes : credits[r][k] \in Nat
    BY <2>1
  <2>4. QED  BY <2>2, <2>3 DEF By
<1>7. /\ buffered' \in [Sides -> [UsedLanes -> Nat]]
      /\ \A r \in Sides, k \in UsedLanes : buffered'[r][k] = buffered[r][k] + By(s, l, r, k, -1)
  <2>1. buffered \in [Sides -> [UsedLanes -> Nat]]
    BY <1>1 DEF MuxTypes
  <2>2. /\ buffered' \in [Sides -> [UsedLanes -> Nat]]
        /\ \A r \in Sides, k \in UsedLanes : buffered'[r][k] = IF r = s /\ k = l THEN buffered[s][l] - 1 ELSE buffered[r][k]
    BY <1>1, <1>3, <1>5, <2>1
  <2>3. \A r \in Sides, k \in UsedLanes : buffered[r][k] \in Nat
    BY <2>1
  <2>4. QED  BY <2>2, <2>3 DEF By
<1>8. /\ burst' \in [Sides -> Nat] /\ passed' \in [Sides -> Nat] /\ BurstsAreShort'
  <2>1. burst \in [Sides -> Nat] /\ passed \in [Sides -> Nat] /\ Burst \in Nat
    BY <1>1, MuxAssumption DEF MuxTypes
  <2>2. \A r \in Sides : passed[r] <= burst[r] /\ passed[r] <= Burst
    BY DEF MuxInv, BurstsAreShort
  <2>3. /\ burst' \in [Sides -> Nat] /\ passed' \in [Sides -> Nat]
        /\ \A r \in Sides : /\ burst'[r] = IF r # s THEN burst[r] ELSE IF l = "clipboard" THEN 0 ELSE burst[s] + 1
                            /\ passed'[r] = IF r # s THEN passed[r]
                                            ELSE IF l # "clipboard" /\ "clipboard" \in Readable(s)
                                                 THEN passed[s] + 1 ELSE 0
    BY <1>1, <2>1
  <2>4. QED  BY <1>4, <2>1, <2>2, <2>3 DEF BurstsAreShort
<1>9. MuxTypes' /\ NeverFails' /\ BurstsAreShort' /\ PipesFit'
  <2>1. out' \in [Sides -> Packets \cup {NoPacket}]
    BY <1>1, <1>3, PacketFacts DEF MuxTypes, PacketKinds
  <2>2. MuxTypes'
    BY <1>1, <1>2, <1>6, <1>7, <1>8, <2>1 DEF MuxTypes
  <2>3. NeverFails'
    BY <1>2 DEF MuxInv, NeverFails
  <2>4. PipesFit'
    <3>1. \A r \in Sides, k \in UsedLanes : buffered[r][k] \in Nat /\ W \in Nat
      BY <1>1, NumberFacts, MuxAssumption
    <3>2. QED  BY <1>2, <1>7, <3>1 DEF MuxInv, PipesFit, By
  <2>5. QED  BY <1>8, <2>2, <2>3, <2>4
<1>10. \A r \in Sides, k \in UsedLanes :
         /\ Travelling(r, k)' = Travelling(r, k) + By(s, l, r, k, 1)
         /\ Returning(r, k)' = Returning(r, k) + By(Peer(s), l, r, k, 0)
  <2>1. One("DATA", "DATA") = 1 /\ One("DATA", "CREDIT") = 0
    BY KindFacts
  <2> SUFFICES ASSUME NEW r \in Sides, NEW k \in UsedLanes
               PROVE  /\ Travelling(r, k)' = Travelling(r, k) + By(s, l, r, k, One("DATA", "DATA"))
                      /\ Returning(r, k)' = Returning(r, k) + By(Peer(s), l, r, k, One("DATA", "CREDIT"))
    BY <2>1
  <2>2. /\ "DATA" \in PacketKinds /\ MuxTypes /\ out[s] = NoPacket /\ l \in UsedLanes
        /\ out' = [out EXCEPT ![s] = Packet(l, "DATA")] /\ wire' = wire
    BY <1>1, <1>2, <1>3 DEF PacketKinds
  <2>3. QED  BY <2>2, PacketChosen
<1>11. Moved(s, l, -1, 1, 0, 0, 0, 0, 0)
  <2>1. \A r \in Sides, k \in UsedLanes :
           /\ windows[Peer(r)][k] \in Nat /\ Delivering(r, k) \in Nat /\ Granted(r, k) \in Nat
           /\ Returning(r, k) \in Nat /\ Restored(r, k) \in Nat
    BY <1>1, NumberFacts, SideFacts
  <2>2. \A r \in Sides, k \in UsedLanes :
           /\ windows'[Peer(r)][k] = windows[Peer(r)][k] /\ Delivering(r, k)' = Delivering(r, k)
           /\ Granted(r, k)' = Granted(r, k) /\ Restored(r, k)' = Restored(r, k)
    BY <1>2 DEF Delivering, Granted, Restored
  <2>3. \A r \in Sides, k \in UsedLanes :
           /\ windows'[Peer(r)][k] = windows[Peer(r)][k] + By(s, l, r, k, 0)
           /\ Delivering(r, k)' = Delivering(r, k) + By(s, l, r, k, 0)
           /\ Granted(r, k)' = Granted(r, k) + By(s, l, r, k, 0)
           /\ Returning(r, k)' = Returning(r, k) + By(s, l, r, k, 0)
           /\ Restored(r, k)' = Restored(r, k) + By(s, l, r, k, 0)
    BY <1>10, <2>1, <2>2, ByNothing
  <2>4. QED  BY <1>6, <1>10, <2>3 DEF Moved
<1>12. Credit!Next /\ \A r \in Sides, k \in UsedLanes : FlowBalanced(r, k)'
  <2>1. \A r \in Sides, k \in UsedLanes : FlowBalanced(r, k)
    BY DEF MuxInv, FlowInv
  <2>2. 1 \in Int /\ 0 \in Int /\ -1 \in Int /\ -1 + 1 + 0 + 0 + 0 + 0 = 0 /\ 0 + 0 + 0 = 0
    OBVIOUS
  <2>3. Credit!Next
    BY <1>1, <1>3, <1>11, SendIsCredit
  <2>4. QED  BY <1>1, <1>3, <1>9, <1>11, <2>1, <2>2, <2>3, BalanceKept
<1>13. \A r \in Sides, k \in UsedLanes : FlowComplete(r, k)'
  <2>1. \A r \in Sides, k \in UsedLanes :
           /\ toSend[r][k] \in Nat /\ delivery[Peer(r)][k] \in Nat
           /\ inbuf[Peer(r)][k] \in Nat /\ received[Peer(r)][k] \in Nat
    BY <1>1, NumberFacts, SideFacts
  <2>2. \A r \in Sides, k \in UsedLanes :
           /\ toSend'[r][k] = toSend[r][k] + By(s, l, r, k, 0)
           /\ delivery'[Peer(r)][k] = delivery[Peer(r)][k] + By(s, l, r, k, 0)
           /\ inbuf'[Peer(r)][k] = inbuf[Peer(r)][k] + By(s, l, r, k, 0)
           /\ received'[Peer(r)][k] = received[Peer(r)][k] + By(s, l, r, k, 0)
    BY <1>2, <2>1, ByNothing
  <2>3. FragmentsMoved(s, l, 0, -1, 1, 0, 0, 0)
    BY <1>7, <1>10, <2>2 DEF FragmentsMoved
  <2>4. \A r \in Sides, k \in UsedLanes : FlowComplete(r, k)
    BY DEF MuxInv, FlowInv
  <2>5. -1 \in Int /\ 0 \in Int /\ 1 \in Int /\ 0 + -1 + 1 + 0 + 0 + 0 = 0
    OBVIOUS
  <2>6. QED  BY <1>1, <1>3, <2>3, <2>4, <2>5, CompleteKept
<1>14. \A r \in Sides, k \in UsedLanes : EndIsLast(r, k)'
  <2> SUFFICES ASSUME NEW r \in Sides, NEW k \in UsedLanes
               PROVE  EndIsLast(r, k)'
    OBVIOUS
  <2>1. EndIsLast(r, k)
    BY DEF MuxInv, FlowInv
  <2>2. \/ out'[r] = out[r]
        \/ out'[r] \notin OfLane(k)
        \/ open[r][k] /\ (out'[r] = Packet(k, "FINISH") => ~open'[r][k])
    BY <1>1, <1>3, OfLaneFacts DEF MuxTypes
  <2>3. ~(r = s /\ k = l) => buffered'[r][k] = buffered[r][k]
    BY <1>7, <1>1, NumberFacts DEF By
  <2>4. /\ closed'[r][k] => toSend'[r][k] = 0
        /\ ~open'[r][k] => closed'[r][k] /\ buffered'[r][k] = 0
        /\ eof'[Peer(r)][k] => ended'[Peer(r)][k] /\ delivery'[Peer(r)][k] = 0
    BY <1>2, <1>3, <2>1, <2>3 DEF EndIsLast
  <2>5. QED  BY <1>2, <2>1, <2>2, <2>4, EndKept
<1>15. QED  BY <1>9, <1>12, <1>13, <1>14, PartsMake

LEMMA ReadEndKeeps ==
    ASSUME MuxInv, NEW s \in Sides, ReadEnd(s)
    PROVE  MuxInv' /\ UNCHANGED Credit!vars
<1> DEFINE l == NextLane(s)
<1>1. /\ MuxTypes /\ Readable(s) # {} /\ out[s] = NoPacket /\ buffered[s][l] = 0
      /\ open' = [open EXCEPT ![s][l] = FALSE]
      /\ out' = [out EXCEPT ![s] = Packet(l, "FINISH")]
  BY DEF MuxInv, ReadEnd, Selecting
<1>2. /\ UNCHANGED <<toSend, buffered, closed, inbuf, received, credits, burst, passed, wire, events, failed>>
      /\ UNCHANGED <<windows, delivery, ended, granting, eof>>
  BY DEF ReadEnd, receiverVars, appVars
<1>3. l \in UsedLanes /\ open[s][l] /\ closed[s][l]
  BY <1>1, NextLaneFacts DEF Readable
<1> HIDE DEF l
<1>4. /\ open' \in [Sides -> [UsedLanes -> BOOLEAN]]
      /\ \A r \in Sides, k \in UsedLanes : open'[r][k] = IF r = s /\ k = l THEN FALSE ELSE open[r][k]
  <2>1. open \in [Sides -> [UsedLanes -> BOOLEAN]]
    BY <1>1 DEF MuxTypes
  <2>2. QED  BY <1>1, <1>3, <2>1
<1>5. out' \in [Sides -> Packets \cup {NoPacket}]
  BY <1>1, <1>3, PacketFacts DEF MuxTypes, PacketKinds
<1>6. MuxTypes' /\ NeverFails' /\ BurstsAreShort' /\ PipesFit'
  BY <1>1, <1>2, <1>4, <1>5 DEF MuxInv, MuxTypes, NeverFails, BurstsAreShort, PipesFit
<1>7. \A r \in Sides, k \in UsedLanes :
         /\ Travelling(r, k)' = Travelling(r, k) /\ Returning(r, k)' = Returning(r, k)
  <2>1. One("FINISH", "DATA") = 0 /\ One("FINISH", "CREDIT") = 0
    BY KindFacts
  <2> SUFFICES ASSUME NEW r \in Sides, NEW k \in UsedLanes
               PROVE  Travelling(r, k)' = Travelling(r, k) /\ Returning(r, k)' = Returning(r, k)
    OBVIOUS
  <2>2. /\ "FINISH" \in PacketKinds /\ MuxTypes /\ out[s] = NoPacket /\ l \in UsedLanes
        /\ out' = [out EXCEPT ![s] = Packet(l, "FINISH")] /\ wire' = wire
    BY <1>1, <1>2, <1>3 DEF PacketKinds
  <2>3. /\ Travelling(r, k)' = Travelling(r, k) + By(s, l, r, k, One("FINISH", "DATA"))
        /\ Returning(r, k)' = Returning(r, k) + By(Peer(s), l, r, k, One("FINISH", "CREDIT"))
    BY <2>2, PacketChosen
  <2>4. Travelling(r, k) \in Nat /\ Returning(r, k) \in Nat
    BY <1>1, NumberFacts
  <2>5. QED  BY <2>1, <2>3, <2>4, ByNothing
<1>8. UNCHANGED Credit!vars /\ \A r \in Sides, k \in UsedLanes : FlowBalanced(r, k)'
  <2>1. Still
    BY <1>2, <1>7 DEF Still, Delivering, Granted, Restored
  <2>2. QED  BY <2>1, RestIsCredit DEF MuxInv, FlowInv
<1>9. \A r \in Sides, k \in UsedLanes : FlowComplete(r, k)'
  BY <1>2, <1>7 DEF MuxInv, FlowInv, FlowComplete
<1>10. \A r \in Sides, k \in UsedLanes : EndIsLast(r, k)'
  <2> SUFFICES ASSUME NEW r \in Sides, NEW k \in UsedLanes
               PROVE  EndIsLast(r, k)'
    OBVIOUS
  <2>1. EndIsLast(r, k)
    BY DEF MuxInv, FlowInv
  <2>2. \/ out'[r] = out[r]
        \/ out'[r] \notin OfLane(k)
        \/ open[r][k] /\ (out'[r] = Packet(k, "FINISH") => ~open'[r][k])
    BY <1>1, <1>3, <1>4, OfLaneFacts DEF MuxTypes
  <2>3. /\ closed'[r][k] => toSend'[r][k] = 0
        /\ ~open'[r][k] => closed'[r][k] /\ buffered'[r][k] = 0
        /\ eof'[Peer(r)][k] => ended'[Peer(r)][k] /\ delivery'[Peer(r)][k] = 0
    BY <1>1, <1>2, <1>3, <1>4, <2>1 DEF EndIsLast
  <2>4. ~open[r][k] => ~open'[r][k]
    BY <1>4
  <2>5. QED  BY <1>2, <2>1, <2>2, <2>3, <2>4, EndKept
<1>11. QED  BY <1>6, <1>8, <1>9, <1>10, PartsMake

LEMMA WritePacketKeeps ==
    ASSUME MuxInv, NEW s \in Sides, WritePacket(s)
    PROVE  MuxInv' /\ UNCHANGED Credit!vars
<1>1. /\ MuxTypes /\ Peer(s) \in Sides /\ out[s] # NoPacket /\ out' = [out EXCEPT ![s] = NoPacket]
      /\ wire' = [wire EXCEPT ![Peer(s)] = Append(@, out[s])]
  BY SideFacts DEF MuxInv, WritePacket
<1>2. /\ UNCHANGED <<toSend, buffered, closed, inbuf, received, open, credits, burst, passed, events, failed>>
      /\ UNCHANGED <<windows, delivery, ended, granting, eof>>
  BY DEF WritePacket, receiverVars, appVars
<1>3. out[s] \in Packets /\ wire[Peer(s)] \in Seq(Packets)
  BY <1>1 DEF MuxTypes
<1>4. \A r \in Sides, k \in UsedLanes :
         /\ Travelling(r, k)' = Travelling(r, k) /\ Returning(r, k)' = Returning(r, k)
  BY <1>1, PacketWritten
<1>5. /\ wire' \in [Sides -> Seq(Packets)] /\ out' \in [Sides -> Packets \cup {NoPacket}]
      /\ \A r \in Sides : /\ wire'[r] = IF r = Peer(s) THEN Append(wire[Peer(s)], out[s]) ELSE wire[r]
                          /\ out'[r] = IF r = s THEN NoPacket ELSE out[r]
  <2>1. Append(wire[Peer(s)], out[s]) \in Seq(Packets)
    BY <1>3, AppendProperties
  <2>2. wire \in [Sides -> Seq(Packets)] /\ out \in [Sides -> Packets \cup {NoPacket}]
    BY <1>1 DEF MuxTypes
  <2>3. QED  BY <1>1, <2>1, <2>2
<1>6. MuxTypes' /\ NeverFails' /\ BurstsAreShort' /\ PipesFit'
  BY <1>1, <1>2, <1>5 DEF MuxInv, MuxTypes, NeverFails, BurstsAreShort, PipesFit
<1>7. UNCHANGED Credit!vars /\ \A r \in Sides, k \in UsedLanes : FlowBalanced(r, k)'
  <2>1. Still
    BY <1>2, <1>4 DEF Still, Delivering, Granted, Restored
  <2>2. QED  BY <2>1, RestIsCredit DEF MuxInv, FlowInv
<1>8. \A r \in Sides, k \in UsedLanes : FlowComplete(r, k)'
  BY <1>2, <1>4 DEF MuxInv, FlowInv, FlowComplete
<1>9. \A r \in Sides, k \in UsedLanes : EndIsLast(r, k)'
  <2> SUFFICES ASSUME NEW r \in Sides, NEW k \in UsedLanes
               PROVE  EndIsLast(r, k)'
    OBVIOUS
  <2>1. EndIsLast(r, k)
    BY DEF MuxInv, FlowInv
  <2>2. CASE r = s
    <3>1. /\ wire[Peer(r)] \in Seq(Packets) /\ out[r] \in Packets
          /\ wire'[Peer(r)] = Append(wire[Peer(r)], out[r]) /\ out'[r] = NoPacket
      BY <1>1, <1>3, <1>5, <2>2
    <3>2. UNCHANGED <<closed, toSend, open, buffered, ended, eof, delivery>>
      BY <1>2
    <3>3. QED  BY <2>1, <3>1, <3>2, EndWritten
  <2>3. CASE r # s
    <3>1. wire'[Peer(r)] = wire[Peer(r)] /\ out'[r] = out[r]
      BY <1>5, <2>3, SideFacts
    <3>2. QED  BY <1>2, <2>1, <3>1 DEF EndIsLast
  <2>4. QED  BY <2>2, <2>3
<1>10. QED  BY <1>6, <1>7, <1>8, <1>9, PartsMake

(* What the receive task of s finds at the head of its wire.               *)
LEMMA IncomingFacts ==
    ASSUME MuxTypes, NEW s \in Sides, NEW kind \in PacketKinds, Incoming(s, kind)
    PROVE  \E l \in UsedLanes :
              /\ Head(wire[s]) = Packet(l, kind) /\ Head(wire[s]).lane = l
              /\ 1 \in DOMAIN wire[s] /\ wire[s][1] = Packet(l, kind)
              /\ wire[s] \in Seq(Packets) /\ wire[s] # <<>> /\ Tail(wire[s]) \in Seq(Packets)
              /\ Count(l, kind, wire[s]) # 0
<1>1. wire[s] \in Seq(Packets) /\ wire[s] # <<>> /\ Head(wire[s]).kind = kind
  BY DEF MuxTypes, Incoming
<1>2. /\ Head(wire[s]) \in Packets /\ Tail(wire[s]) \in Seq(Packets)
      /\ 1 \in DOMAIN wire[s] /\ wire[s][1] = Head(wire[s]) /\ 1 \in 1..Len(wire[s])
  BY <1>1, HeadTailProperties, EmptySeq
<1>3. PICK l \in UsedLanes : Head(wire[s]) = Packet(l, kind) /\ Head(wire[s]).lane = l
  BY <1>1, <1>2, PacketFacts
<1>4. Count(l, kind, wire[s]) # 0
  BY <1>1, <1>2, <1>3, CountPositive
<1>5. QED  BY <1>1, <1>2, <1>3, <1>4

(* A fragment that arrives was not announced as the end, and fits.         *)
LEMMA DataIsWelcome ==
    ASSUME MuxInv, NEW s \in Sides, NEW l \in UsedLanes, 1 \in DOMAIN wire[s],
           wire[s][1] = Packet(l, "DATA"), Count(l, "DATA", wire[s]) # 0
    PROVE  /\ ~ended[s][l] /\ windows[s][l] > 0 /\ delivery[s][l] < W
           /\ Travelling(Peer(s), l) > 0
<1>1. Peer(s) \in Sides /\ Peer(Peer(s)) = s /\ MuxTypes
  BY SideFacts DEF MuxInv
<1>2. ended[s][l] => \A j \in DOMAIN wire[s] : wire[s][j] \notin OfLane(l)
  <2>1. EndIsLast(Peer(s), l)
    BY <1>1 DEF MuxInv, FlowInv
  <2>2. QED  BY <1>1, <2>1 DEF EndIsLast
<1>3. ~ended[s][l]
  BY <1>2, OfLaneFacts
<1>4. Travelling(Peer(s), l) > 0
  <2>1. Count(l, "DATA", wire[s]) \in Nat /\ Writing(Peer(s), l, "DATA") \in Nat
    BY <1>1, PlacesFinite DEF MuxTypes, Writing
  <2>2. Travelling(Peer(s), l) = Count(l, "DATA", wire[s]) + Writing(Peer(s), l, "DATA")
    BY <1>1 DEF Travelling
  <2>3. QED  BY <2>1, <2>2
<1>5. FlowBalanced(Peer(s), l)
  BY <1>1 DEF MuxInv, FlowInv
<1>6. windows[s][l] > 0 /\ delivery[s][l] < W
  BY <1>1, <1>4, <1>5, BalanceFacts
<1>7. QED  BY <1>3, <1>4, <1>6

(* What reading a packet does to the ends of the lanes.                    *)
LEMMA EndsRead ==
    ASSUME MuxInv, NEW s \in Sides, wire[s] # <<>>, wire' = [wire EXCEPT ![s] = Tail(@)],
           UNCHANGED <<closed, toSend, open, buffered, out, eof>>,
           \A r \in Sides, k \in UsedLanes :
              ended'[r][k] <=> ended[r][k] \/ (r = s /\ Head(wire[s]) = Packet(k, "FINISH")),
           \A r \in Sides, k \in UsedLanes : eof[r][k] => delivery'[r][k] = 0
    PROVE  \A r \in Sides, k \in UsedLanes : EndIsLast(r, k)'
<1> SUFFICES ASSUME NEW r \in Sides, NEW k \in UsedLanes
             PROVE  EndIsLast(r, k)'
  OBVIOUS
<1>1. EndIsLast(r, k) /\ Peer(r) \in Sides /\ Peer(s) \in Sides /\ Peer(Peer(s)) = s
  BY SideFacts DEF MuxInv, FlowInv
<1>2. \A i \in Sides : wire[i] \in Seq(Packets) /\ wire'[i] = IF i = s THEN Tail(wire[s]) ELSE wire[i]
  BY DEF MuxInv, MuxTypes
<1>3. CASE Peer(r) = s
  <2>2. ended'[Peer(r)][k] <=> ended[Peer(r)][k] \/ Head(wire[Peer(r)]) = Packet(k, "FINISH")
    BY <1>1, <1>3
  <2>3. /\ wire[Peer(r)] \in Seq(Packets) /\ wire[Peer(r)] # <<>> /\ wire'[Peer(r)] = Tail(wire[Peer(r)])
        /\ eof[Peer(r)][k] => delivery'[Peer(r)][k] = 0
    BY <1>1, <1>2, <1>3
  <2>4. QED  BY <1>1, <2>2, <2>3, EndRead
<1>4. CASE Peer(r) # s
  <2>1. wire'[Peer(r)] = wire[Peer(r)] /\ (ended'[Peer(r)][k] <=> ended[Peer(r)][k])
    BY <1>1, <1>2, <1>4
  <2>2. eof[Peer(r)][k] => delivery'[Peer(r)][k] = 0
    BY <1>1
  <2>3. QED  BY <1>1, <2>1, <2>2 DEF EndIsLast
<1>5. QED  BY <1>3, <1>4

LEMMA ReceiveDataKeeps ==
    ASSUME MuxInv, NEW s \in Sides, ReceiveData(s)
    PROVE  MuxInv' /\ Credit!Next
<1>1. MuxTypes /\ Peer(s) \in Sides /\ Peer(Peer(s)) = s /\ "DATA" \in PacketKinds
  BY SideFacts DEF MuxInv, PacketKinds
<1>2. PICK l \in UsedLanes :
         /\ Head(wire[s]) = Packet(l, "DATA") /\ Head(wire[s]).lane = l
         /\ 1 \in DOMAIN wire[s] /\ wire[s][1] = Packet(l, "DATA")
         /\ wire[s] # <<>> /\ Tail(wire[s]) \in Seq(Packets) /\ Count(l, "DATA", wire[s]) # 0
  BY <1>1, IncomingFacts DEF ReceiveData
<1>3. ~ended[s][l] /\ windows[s][l] > 0 /\ delivery[s][l] < W /\ Travelling(Peer(s), l) > 0
  BY <1>2, DataIsWelcome
<1>4. /\ windows[s][l] \in Nat /\ delivery[s][l] \in Nat /\ windows[s][l] - 1 \in Nat
      /\ delivery[s][l] + 1 \in Nat /\ windows[s][l] # 0 /\ delivery[s][l] # W
  BY <1>1, <1>3, NumberFacts, MuxAssumption
<1>5. /\ windows' = [windows EXCEPT ![s][l] = @ - 1] /\ delivery' = [delivery EXCEPT ![s][l] = @ + 1]
      /\ wire' = [wire EXCEPT ![s] = Tail(@)]
      /\ UNCHANGED <<toSend, buffered, closed, inbuf, received, open, credits, burst, passed, out>>
      /\ UNCHANGED <<ended, granting, eof, events, failed>>
  BY <1>2, <1>3, <1>4 DEF ReceiveData, appVars, schedulerVars
<1>6. /\ windows' \in [Sides -> [UsedLanes -> Nat]]
      /\ \A r \in Sides, k \in UsedLanes : windows'[r][k] = windows[r][k] + By(s, l, r, k, -1)
  <2>1. windows \in [Sides -> [UsedLanes -> Nat]]
    BY <1>1 DEF MuxTypes
  <2>2. /\ windows' \in [Sides -> [UsedLanes -> Nat]]
        /\ \A r \in Sides, k \in UsedLanes : windows'[r][k] = IF r = s /\ k = l THEN windows[s][l] - 1 ELSE windows[r][k]
    BY <1>4, <1>5, <2>1
  <2>3. \A r \in Sides, k \in UsedLanes : windows[r][k] \in Nat
    BY <2>1
  <2>4. QED  BY <2>2, <2>3 DEF By
<1>7. /\ delivery' \in [Sides -> [UsedLanes -> Nat]]
      /\ \A r \in Sides, k \in UsedLanes : delivery'[r][k] = delivery[r][k] + By(s, l, r, k, 1)
  <2>1. delivery \in [Sides -> [UsedLanes -> Nat]]
    BY <1>1 DEF MuxTypes
  <2>2. /\ delivery' \in [Sides -> [UsedLanes -> Nat]]
        /\ \A r \in Sides, k \in UsedLanes : delivery'[r][k] = IF r = s /\ k = l THEN delivery[s][l] + 1 ELSE delivery[r][k]
    BY <1>4, <1>5, <2>1
  <2>3. \A r \in Sides, k \in UsedLanes : delivery[r][k] \in Nat
    BY <2>1
  <2>4. QED  BY <2>2, <2>3 DEF By
<1>8. MuxTypes' /\ NeverFails' /\ BurstsAreShort' /\ PipesFit'
  <2>1. wire' \in [Sides -> Seq(Packets)]
    BY <1>1, <1>2, <1>5 DEF MuxTypes
  <2>2. QED  BY <1>1, <1>5, <1>6, <1>7, <2>1 DEF MuxInv, MuxTypes, NeverFails, BurstsAreShort, PipesFit
<1>9. \A r \in Sides, k \in UsedLanes :
         /\ Travelling(r, k)' = Travelling(r, k) + By(Peer(s), l, r, k, -1)
         /\ Returning(r, k)' = Returning(r, k) + By(s, l, r, k, 0)
  <2>1. Less("DATA", "DATA") = -1 /\ Less("DATA", "CREDIT") = 0
    BY KindFacts
  <2> SUFFICES ASSUME NEW r \in Sides, NEW k \in UsedLanes
               PROVE  /\ Travelling(r, k)' = Travelling(r, k) + By(Peer(s), l, r, k, Less("DATA", "DATA"))
                      /\ Returning(r, k)' = Returning(r, k) + By(s, l, r, k, Less("DATA", "CREDIT"))
    BY <2>1
  <2>2. /\ "DATA" \in PacketKinds /\ MuxTypes /\ wire[s] # <<>> /\ Head(wire[s]) = Packet(l, "DATA")
        /\ wire' = [wire EXCEPT ![s] = Tail(@)] /\ out' = out
    BY <1>1, <1>2, <1>5
  <2>3. QED  BY <2>2, PacketRead, ZenonT(60)
<1>10. /\ \A r \in Sides, k \in UsedLanes : Peer(r) \in Sides
       /\ \A r \in Sides, k \in UsedLanes : \A x : By(s, l, Peer(r), k, x) = By(Peer(s), l, r, k, x)
  BY SideFacts DEF By
<1>11. Moved(Peer(s), l, 0, -1, 1, 0, -1, 0, 0)
  <2>1. \A r \in Sides, k \in UsedLanes :
           /\ credits[r][k] \in Nat /\ Granted(r, k) \in Nat /\ Returning(r, k) \in Nat /\ Restored(r, k) \in Nat
    BY <1>1, NumberFacts
  <2>2. \A r \in Sides, k \in UsedLanes :
           /\ credits'[r][k] = credits[r][k] + By(Peer(s), l, r, k, 0)
           /\ Granted(r, k)' = Granted(r, k) + By(Peer(s), l, r, k, 0)
           /\ Returning(r, k)' = Returning(r, k) + By(Peer(s), l, r, k, 0)
           /\ Restored(r, k)' = Restored(r, k) + By(Peer(s), l, r, k, 0)
    BY <1>5, <1>9, <2>1, ByNothing DEF Granted, Restored
  <2>3. \A r \in Sides, k \in UsedLanes :
           windows'[Peer(r)][k] = windows[Peer(r)][k] + By(Peer(s), l, r, k, -1)
    BY <1>6, <1>10
  <2>4. \A r \in Sides, k \in UsedLanes : Delivering(r, k)' = Delivering(r, k) + By(Peer(s), l, r, k, 1)
    <3> SUFFICES ASSUME NEW r \in Sides, NEW k \in UsedLanes
                 PROVE  Delivering(r, k)' = Delivering(r, k) + By(Peer(s), l, r, k, 1)
      OBVIOUS
    <3>1. delivery'[Peer(r)][k] = delivery[Peer(r)][k] + By(Peer(s), l, r, k, 1)
      BY <1>7, <1>10
    <3>2. delivery[Peer(r)][k] \in Nat /\ By(Peer(s), l, r, k, 1) \in Nat
      BY <1>1, <1>10, NumberFacts DEF By
    <3>3. QED  BY <1>5, <3>1, <3>2 DEF Delivering
  <2>5. QED  BY <1>9, <2>2, <2>3, <2>4 DEF Moved
<1>12. Credit!Next /\ \A r \in Sides, k \in UsedLanes : FlowBalanced(r, k)'
  <2>1. \A r \in Sides, k \in UsedLanes : FlowBalanced(r, k)
    BY DEF MuxInv, FlowInv
  <2>2. 1 \in Int /\ 0 \in Int /\ -1 \in Int /\ 0 + -1 + 1 + 0 + 0 + 0 = 0 /\ -1 + 1 + 0 = 0
    OBVIOUS
  <2>3. Credit!Next
    BY <1>1, <1>3, <1>11, ArriveIsCredit
  <2>4. QED  BY <1>1, <1>8, <1>11, <2>1, <2>2, <2>3, BalanceKept
<1>13. \A r \in Sides, k \in UsedLanes : FlowComplete(r, k)'
  <2>1. \A r \in Sides, k \in UsedLanes :
           /\ toSend[r][k] \in Nat /\ buffered[r][k] \in Nat
           /\ inbuf[Peer(r)][k] \in Nat /\ received[Peer(r)][k] \in Nat
    BY <1>1, NumberFacts, SideFacts
  <2>2. \A r \in Sides, k \in UsedLanes :
           /\ toSend'[r][k] = toSend[r][k] + By(Peer(s), l, r, k, 0)
           /\ buffered'[r][k] = buffered[r][k] + By(Peer(s), l, r, k, 0)
           /\ inbuf'[Peer(r)][k] = inbuf[Peer(r)][k] + By(Peer(s), l, r, k, 0)
           /\ received'[Peer(r)][k] = received[Peer(r)][k] + By(Peer(s), l, r, k, 0)
    BY <1>5, <2>1, ByNothing
  <2>3. \A r \in Sides, k \in UsedLanes :
           delivery'[Peer(r)][k] = delivery[Peer(r)][k] + By(Peer(s), l, r, k, 1)
    BY <1>7, <1>10
  <2>4. FragmentsMoved(Peer(s), l, 0, 0, -1, 1, 0, 0)
    BY <1>9, <2>2, <2>3 DEF FragmentsMoved
  <2>5. \A r \in Sides, k \in UsedLanes : FlowComplete(r, k)
    BY DEF MuxInv, FlowInv
  <2>6. -1 \in Int /\ 0 \in Int /\ 1 \in Int /\ 0 + 0 + -1 + 1 + 0 + 0 = 0
    OBVIOUS
  <2>7. QED  BY <1>1, <2>4, <2>5, <2>6, CompleteKept
<1>14. \A r \in Sides, k \in UsedLanes : EndIsLast(r, k)'
  <2>1. \A r \in Sides, k \in UsedLanes : eof[r][k] => ended[r][k] /\ delivery[r][k] = 0
    <3> SUFFICES ASSUME NEW r \in Sides, NEW k \in UsedLanes
                 PROVE  eof[r][k] => ended[r][k] /\ delivery[r][k] = 0
      OBVIOUS
    <3>1. Peer(r) \in Sides /\ Peer(Peer(r)) = r
      BY SideFacts
    <3>2. EndIsLast(Peer(r), k)
      BY <3>1 DEF MuxInv, FlowInv
    <3>3. QED  BY <3>1, <3>2 DEF EndIsLast
  <2>2. \A r \in Sides, k \in UsedLanes : ~(r = s /\ k = l) => delivery'[r][k] = delivery[r][k]
    BY <1>1, <1>7, NumberFacts DEF By
  <2>3. \A r \in Sides, k \in UsedLanes : eof[r][k] => delivery'[r][k] = 0
    BY <1>3, <2>1, <2>2
  <2>4. \A r \in Sides, k \in UsedLanes :
           ended'[r][k] <=> ended[r][k] \/ (r = s /\ Head(wire[s]) = Packet(k, "FINISH"))
    BY <1>2, <1>5, OfLaneFacts
  <2>5. /\ wire[s] # <<>> /\ wire' = [wire EXCEPT ![s] = Tail(@)]
        /\ UNCHANGED <<closed, toSend, open, buffered, out, eof>>
    BY <1>2, <1>5
  <2>6. QED  BY <2>3, <2>4, <2>5, EndsRead
<1>15. QED  BY <1>8, <1>12, <1>13, <1>14, PartsMake

(* The end of a lane means that everything delivered was handed on.        *)
LEMMA EndMeansDelivered ==
    ASSUME MuxInv
    PROVE  \A r \in Sides, k \in UsedLanes : eof[r][k] => ended[r][k] /\ delivery[r][k] = 0
<1> SUFFICES ASSUME NEW r \in Sides, NEW k \in UsedLanes
             PROVE  eof[r][k] => ended[r][k] /\ delivery[r][k] = 0
  OBVIOUS
<1>1. Peer(r) \in Sides /\ Peer(Peer(r)) = r
  BY SideFacts
<1>2. EndIsLast(Peer(r), k)
  BY <1>1 DEF MuxInv, FlowInv
<1>3. QED  BY <1>1, <1>2 DEF EndIsLast

LEMMA ReceiveCreditKeeps ==
    ASSUME MuxInv, NEW s \in Sides, ReceiveCredit(s)
    PROVE  MuxInv' /\ Credit!Next
<1>1. MuxTypes /\ "CREDIT" \in PacketKinds
  BY DEF MuxInv, PacketKinds
<1>2. PICK l \in UsedLanes :
         /\ Head(wire[s]) = Packet(l, "CREDIT") /\ Head(wire[s]).lane = l
         /\ wire[s] # <<>> /\ Tail(wire[s]) \in Seq(Packets) /\ Count(l, "CREDIT", wire[s]) # 0
  BY <1>1, IncomingFacts DEF ReceiveCredit
<1>3. /\ wire' = [wire EXCEPT ![s] = Tail(@)]
      /\ events' = [events EXCEPT ![s] = Append(@, Packet(l, "PeerCredit"))]
      /\ UNCHANGED <<toSend, buffered, closed, inbuf, received, open, credits, burst, passed, out>>
      /\ UNCHANGED <<windows, delivery, ended, granting, eof, failed>>
  BY <1>2 DEF ReceiveCredit, appVars, schedulerVars, receiverVars
<1>4. Returning(s, l) > 0
  <2>1. Count(l, "CREDIT", wire[s]) \in Nat /\ Writing(Peer(s), l, "CREDIT") \in Nat
    BY <1>1, PlacesFinite DEF MuxTypes, Writing
  <2>2. QED  BY <1>2, <2>1 DEF Returning
<1>5. \A r \in Sides, k \in UsedLanes :
         /\ Travelling(r, k)' = Travelling(r, k) + By(Peer(s), l, r, k, 0)
         /\ Returning(r, k)' = Returning(r, k) + By(s, l, r, k, -1)
  <2>1. Less("CREDIT", "DATA") = 0 /\ Less("CREDIT", "CREDIT") = -1
    BY KindFacts
  <2> SUFFICES ASSUME NEW r \in Sides, NEW k \in UsedLanes
               PROVE  /\ Travelling(r, k)' = Travelling(r, k) + By(Peer(s), l, r, k, Less("CREDIT", "DATA"))
                      /\ Returning(r, k)' = Returning(r, k) + By(s, l, r, k, Less("CREDIT", "CREDIT"))
    BY <2>1
  <2>2. /\ "CREDIT" \in PacketKinds /\ MuxTypes /\ wire[s] # <<>> /\ Head(wire[s]) = Packet(l, "CREDIT")
        /\ wire' = [wire EXCEPT ![s] = Tail(@)] /\ out' = out
    BY <1>1, <1>2, <1>3
  <2>3. QED  BY <2>2, PacketRead, ZenonT(60)
<1>6. \A r \in Sides, k \in UsedLanes :
         /\ Granted(r, k)' = Granted(r, k) + By(Peer(s), l, r, k, 0)
         /\ Restored(r, k)' = Restored(r, k) + By(s, l, r, k, 1)
  <2>1. One("PeerCredit", "GrantPeer") = 0 /\ One("PeerCredit", "PeerCredit") = 1
    BY KindFacts
  <2> SUFFICES ASSUME NEW r \in Sides, NEW k \in UsedLanes
               PROVE  /\ Granted(r, k)' = Granted(r, k) + By(Peer(s), l, r, k, One("PeerCredit", "GrantPeer"))
                      /\ Restored(r, k)' = Restored(r, k) + By(s, l, r, k, One("PeerCredit", "PeerCredit"))
    BY <2>1
  <2>2. /\ "PeerCredit" \in {"PeerCredit", "GrantPeer"} /\ MuxTypes
        /\ events' = [events EXCEPT ![s] = Append(@, Packet(l, "PeerCredit"))]
    BY <1>1, <1>3
  <2>3. QED  BY <2>2, EventAdded
<1>7. Moved(s, l, 0, 0, 0, 0, 0, -1, 1)
  <2>1. \A r \in Sides, k \in UsedLanes :
           /\ credits[r][k] \in Nat /\ windows[Peer(r)][k] \in Nat /\ Granted(r, k) \in Nat
           /\ Travelling(r, k) \in Nat /\ Delivering(r, k) \in Nat
    BY <1>1, NumberFacts, SideFacts
  <2>2. \A r \in Sides, k \in UsedLanes :
           /\ credits'[r][k] = credits[r][k] + By(s, l, r, k, 0)
           /\ windows'[Peer(r)][k] = windows[Peer(r)][k] + By(s, l, r, k, 0)
           /\ Travelling(r, k)' = Travelling(r, k) + By(s, l, r, k, 0)
           /\ Delivering(r, k)' = Delivering(r, k) + By(s, l, r, k, 0)
           /\ Granted(r, k)' = Granted(r, k) + By(s, l, r, k, 0)
    <3> SUFFICES ASSUME NEW r \in Sides, NEW k \in UsedLanes
                 PROVE  /\ credits'[r][k] = credits[r][k] + By(s, l, r, k, 0)
                        /\ windows'[Peer(r)][k] = windows[Peer(r)][k] + By(s, l, r, k, 0)
                        /\ Travelling(r, k)' = Travelling(r, k) + By(s, l, r, k, 0)
                        /\ Delivering(r, k)' = Delivering(r, k) + By(s, l, r, k, 0)
                        /\ Granted(r, k)' = Granted(r, k) + By(s, l, r, k, 0)
      OBVIOUS
    <3>1. Delivering(r, k)' = Delivering(r, k) /\ credits' = credits /\ windows' = windows
      BY <1>3 DEF Delivering
    <3>2. /\ Travelling(r, k)' = Travelling(r, k) + By(Peer(s), l, r, k, 0)
          /\ Granted(r, k)' = Granted(r, k) + By(Peer(s), l, r, k, 0)
      BY <1>5, <1>6
    <3>3. \A q \in Sides : \A n \in Nat : n + By(q, l, r, k, 0) = n
      BY ByNothing
    <3>4. s \in Sides /\ Peer(s) \in Sides
      BY SideFacts
    <3>5. /\ credits[r][k] + By(s, l, r, k, 0) = credits[r][k]
          /\ windows[Peer(r)][k] + By(s, l, r, k, 0) = windows[Peer(r)][k]
          /\ Delivering(r, k) + By(s, l, r, k, 0) = Delivering(r, k)
      BY <2>1, <3>3, <3>4
    <3>6. /\ Travelling(r, k) + By(s, l, r, k, 0) = Travelling(r, k)
          /\ Travelling(r, k) + By(Peer(s), l, r, k, 0) = Travelling(r, k)
          /\ Granted(r, k) + By(s, l, r, k, 0) = Granted(r, k)
          /\ Granted(r, k) + By(Peer(s), l, r, k, 0) = Granted(r, k)
      BY <2>1, <3>3, <3>4
    <3>7. QED  BY <3>1, <3>2, <3>5, <3>6
  <2>3. QED  BY <1>5, <1>6, <2>2 DEF Moved
<1>8. MuxTypes' /\ NeverFails' /\ BurstsAreShort' /\ PipesFit'
  <2>1. wire' \in [Sides -> Seq(Packets)]
    BY <1>1, <1>2, <1>3 DEF MuxTypes
  <2>2. events' \in [Sides -> Seq(Events)]
    <3>1. events[s] \in Seq(Events) /\ Packet(l, "PeerCredit") \in Events
      BY <1>1, PacketFacts DEF MuxTypes
    <3>2. Append(events[s], Packet(l, "PeerCredit")) \in Seq(Events)
      BY <3>1, AppendProperties
    <3>3. QED  BY <1>1, <1>3, <3>2 DEF MuxTypes
  <2>3. QED  BY <1>1, <1>3, <2>1, <2>2 DEF MuxInv, MuxTypes, NeverFails, BurstsAreShort, PipesFit
<1>9. Credit!Next /\ \A r \in Sides, k \in UsedLanes : FlowBalanced(r, k)'
  <2>1. \A r \in Sides, k \in UsedLanes : FlowBalanced(r, k)
    BY DEF MuxInv, FlowInv
  <2>2. 1 \in Int /\ 0 \in Int /\ -1 \in Int /\ 0 + 0 + 0 + 0 + -1 + 1 = 0 /\ 0 + 0 + 0 = 0
    OBVIOUS
  <2>3. Credit!Next
    BY <1>1, <1>4, <1>7, ReturnIsCredit
  <2>4. QED  BY <1>1, <1>7, <1>8, <2>1, <2>2, <2>3, BalanceKept
<1>10. \A r \in Sides, k \in UsedLanes : FlowComplete(r, k)'
  <2>1. \A r \in Sides, k \in UsedLanes : Travelling(r, k)' = Travelling(r, k)
    BY <1>1, <1>5, NumberFacts, ByNothing
  <2>2. QED  BY <1>3, <2>1 DEF MuxInv, FlowInv, FlowComplete
<1>11. \A r \in Sides, k \in UsedLanes : EndIsLast(r, k)'
  <2>1. \A r \in Sides, k \in UsedLanes :
           ended'[r][k] <=> ended[r][k] \/ (r = s /\ Head(wire[s]) = Packet(k, "FINISH"))
    BY <1>2, <1>3, OfLaneFacts
  <2>2. \A r \in Sides, k \in UsedLanes : eof[r][k] => delivery'[r][k] = 0
    BY <1>3, EndMeansDelivered
  <2>3. /\ wire[s] # <<>> /\ wire' = [wire EXCEPT ![s] = Tail(@)]
        /\ UNCHANGED <<closed, toSend, open, buffered, out, eof>>
    BY <1>2, <1>3
  <2>4. QED  BY <2>1, <2>2, <2>3, EndsRead
<1>12. QED  BY <1>8, <1>9, <1>10, <1>11, PartsMake

LEMMA ReceiveFinishKeeps ==
    ASSUME MuxInv, NEW s \in Sides, ReceiveFinish(s)
    PROVE  MuxInv' /\ UNCHANGED Credit!vars
<1>1. /\ MuxTypes /\ "FINISH" \in PacketKinds /\ Peer(s) \in Sides /\ Peer(Peer(s)) = s
  BY SideFacts DEF MuxInv, PacketKinds
<1>2. PICK l \in UsedLanes :
         /\ Head(wire[s]) = Packet(l, "FINISH") /\ Head(wire[s]).lane = l
         /\ 1 \in DOMAIN wire[s] /\ wire[s][1] = Packet(l, "FINISH")
         /\ wire[s] # <<>> /\ Tail(wire[s]) \in Seq(Packets)
  BY <1>1, IncomingFacts DEF ReceiveFinish
<1>3. ~ended[s][l]
  <2>1. EndIsLast(Peer(s), l)
    BY <1>1 DEF MuxInv, FlowInv
  <2>2. ended[s][l] => \A j \in DOMAIN wire[s] : wire[s][j] \notin OfLane(l)
    BY <1>1, <2>1 DEF EndIsLast
  <2>3. QED  BY <1>2, <2>2, OfLaneFacts
<1>4. /\ wire' = [wire EXCEPT ![s] = Tail(@)] /\ ended' = [ended EXCEPT ![s][l] = TRUE]
      /\ UNCHANGED <<toSend, buffered, closed, inbuf, received, open, credits, burst, passed, out>>
      /\ UNCHANGED <<windows, delivery, granting, eof, events, failed>>
  BY <1>2, <1>3 DEF ReceiveFinish, appVars, schedulerVars
<1>5. /\ ended' \in [Sides -> [UsedLanes -> BOOLEAN]]
      /\ \A r \in Sides, k \in UsedLanes : ended'[r][k] <=> ended[r][k] \/ (r = s /\ k = l)
  BY <1>1, <1>4 DEF MuxTypes
<1>6. MuxTypes' /\ NeverFails' /\ BurstsAreShort' /\ PipesFit'
  <2>1. wire' \in [Sides -> Seq(Packets)]
    BY <1>1, <1>2, <1>4 DEF MuxTypes
  <2>2. QED  BY <1>1, <1>4, <1>5, <2>1 DEF MuxInv, MuxTypes, NeverFails, BurstsAreShort, PipesFit
<1>7. \A r \in Sides, k \in UsedLanes :
         /\ Travelling(r, k)' = Travelling(r, k) /\ Returning(r, k)' = Returning(r, k)
  <2>1. Less("FINISH", "DATA") = 0 /\ Less("FINISH", "CREDIT") = 0
    BY KindFacts
  <2> SUFFICES ASSUME NEW r \in Sides, NEW k \in UsedLanes
               PROVE  Travelling(r, k)' = Travelling(r, k) /\ Returning(r, k)' = Returning(r, k)
    OBVIOUS
  <2>2. /\ "FINISH" \in PacketKinds /\ MuxTypes /\ wire[s] # <<>> /\ Head(wire[s]) = Packet(l, "FINISH")
        /\ wire' = [wire EXCEPT ![s] = Tail(@)] /\ out' = out
    BY <1>1, <1>2, <1>4
  <2>3. /\ Travelling(r, k)' = Travelling(r, k) + By(Peer(s), l, r, k, Less("FINISH", "DATA"))
        /\ Returning(r, k)' = Returning(r, k) + By(s, l, r, k, Less("FINISH", "CREDIT"))
    BY <2>2, PacketRead, ZenonT(60)
  <2>4. Travelling(r, k) \in Nat /\ Returning(r, k) \in Nat
    BY <1>1, NumberFacts
  <2>5. QED  BY <2>1, <2>3, <2>4, ByNothing
<1>8. UNCHANGED Credit!vars /\ \A r \in Sides, k \in UsedLanes : FlowBalanced(r, k)'
  <2>1. Still
    BY <1>4, <1>7 DEF Still, Delivering, Granted, Restored
  <2>2. QED  BY <2>1, RestIsCredit DEF MuxInv, FlowInv
<1>9. \A r \in Sides, k \in UsedLanes : FlowComplete(r, k)'
  BY <1>4, <1>7 DEF MuxInv, FlowInv, FlowComplete
<1>10. \A r \in Sides, k \in UsedLanes : EndIsLast(r, k)'
  <2>1. \A r \in Sides, k \in UsedLanes :
           ended'[r][k] <=> ended[r][k] \/ (r = s /\ Head(wire[s]) = Packet(k, "FINISH"))
    BY <1>2, <1>5, OfLaneFacts
  <2>2. \A r \in Sides, k \in UsedLanes : eof[r][k] => delivery'[r][k] = 0
    BY <1>4, EndMeansDelivered
  <2>3. /\ wire[s] # <<>> /\ wire' = [wire EXCEPT ![s] = Tail(@)]
        /\ UNCHANGED <<closed, toSend, open, buffered, out, eof>>
    BY <1>2, <1>4
  <2>4. QED  BY <2>1, <2>2, <2>3, EndsRead
<1>11. QED  BY <1>6, <1>8, <1>9, <1>10, PartsMake

LEMMA DeliverFragmentKeeps ==
    ASSUME MuxInv, NEW s \in Sides, NEW l \in UsedLanes, DeliverFragment(s, l)
    PROVE  MuxInv' /\ UNCHANGED Credit!vars
<1>1. /\ MuxTypes /\ delivery[s][l] \in Nat /\ inbuf[s][l] \in Nat /\ W \in Nat
      /\ delivery[s][l] > 0 /\ inbuf[s][l] < W /\ ~granting[s][l]
      /\ delivery[s][l] - 1 \in Nat /\ inbuf[s][l] + 1 \in Nat
      /\ Peer(s) \in Sides /\ Peer(Peer(s)) = s
  BY NumberFacts, MuxAssumption, SideFacts DEF MuxInv, DeliverFragment
<1>2. /\ delivery' = [delivery EXCEPT ![s][l] = @ - 1] /\ inbuf' = [inbuf EXCEPT ![s][l] = @ + 1]
      /\ granting' = [granting EXCEPT ![s][l] = TRUE]
      /\ UNCHANGED <<toSend, buffered, closed, received, open, credits, burst, passed, out>>
      /\ UNCHANGED <<windows, ended, eof, wire, events, failed>>
  BY DEF DeliverFragment, schedulerVars
<1>3. /\ delivery' \in [Sides -> [UsedLanes -> Nat]]
      /\ \A r \in Sides, k \in UsedLanes : delivery'[r][k] = IF r = s /\ k = l THEN delivery[s][l] - 1 ELSE delivery[r][k]
  BY <1>1, <1>2 DEF MuxTypes
<1>4. /\ inbuf' \in [Sides -> [UsedLanes -> Nat]]
      /\ \A r \in Sides, k \in UsedLanes : inbuf'[r][k] = IF r = s /\ k = l THEN inbuf[s][l] + 1 ELSE inbuf[r][k]
  BY <1>1, <1>2 DEF MuxTypes
<1>5. /\ granting' \in [Sides -> [UsedLanes -> BOOLEAN]]
      /\ \A r \in Sides, k \in UsedLanes : granting'[r][k] <=> granting[r][k] \/ (r = s /\ k = l)
  BY <1>1, <1>2 DEF MuxTypes
<1>6. MuxTypes' /\ NeverFails' /\ BurstsAreShort' /\ PipesFit'
  <2>1. MuxTypes'
    BY <1>1, <1>2, <1>3, <1>4, <1>5 DEF MuxTypes
  <2>2. NeverFails' /\ BurstsAreShort'
    BY <1>2 DEF MuxInv, NeverFails, BurstsAreShort
  <2>3. PipesFit'
    BY <1>1, <1>2, <1>4 DEF MuxInv, PipesFit
  <2>4. QED  BY <2>1, <2>2, <2>3
<1>7. \A r \in Sides, k \in UsedLanes : Delivering(r, k)' = Delivering(r, k)
  <2> SUFFICES ASSUME NEW r \in Sides, NEW k \in UsedLanes
               PROVE  Delivering(r, k)' = Delivering(r, k)
    OBVIOUS
  <2>1. Peer(r) \in Sides
    BY SideFacts
  <2>2. CASE Peer(r) = s /\ k = l
    <3>1. /\ granting'[Peer(r)][k] /\ ~granting[Peer(r)][k]
          /\ delivery'[Peer(r)][k] = delivery[Peer(r)][k] - 1 /\ delivery[Peer(r)][k] \in Nat
      BY <1>1, <1>3, <1>5, <2>1, <2>2
    <3>2. QED  BY <3>1 DEF Delivering
  <2>3. CASE ~(Peer(r) = s /\ k = l)
    BY <1>3, <1>5, <2>1, <2>3 DEF Delivering
  <2>4. QED  BY <2>2, <2>3
<1>8. UNCHANGED Credit!vars /\ \A r \in Sides, k \in UsedLanes : FlowBalanced(r, k)'
  <2>1. Still
    BY <1>2, <1>7 DEF Still, Travelling, Granted, Returning, Restored, Writing
  <2>2. QED  BY <2>1, RestIsCredit DEF MuxInv, FlowInv
<1>9. \A r \in Sides, k \in UsedLanes : FlowComplete(r, k)'
  <2>1. \A r \in Sides, k \in UsedLanes :
           /\ toSend[r][k] \in Nat /\ buffered[r][k] \in Nat /\ Travelling(r, k) \in Nat
           /\ delivery[Peer(r)][k] \in Nat /\ inbuf[Peer(r)][k] \in Nat /\ received[Peer(r)][k] \in Nat
    BY <1>1, NumberFacts, SideFacts
  <2>2. \A r \in Sides, k \in UsedLanes :
           /\ toSend'[r][k] = toSend[r][k] + By(Peer(s), l, r, k, 0)
           /\ buffered'[r][k] = buffered[r][k] + By(Peer(s), l, r, k, 0)
           /\ Travelling(r, k)' = Travelling(r, k) + By(Peer(s), l, r, k, 0)
           /\ received'[Peer(r)][k] = received[Peer(r)][k] + By(Peer(s), l, r, k, 0)
    BY <1>2, <2>1, ByNothing DEF Travelling, Writing
  <2>3. \A r \in Sides : Peer(r) \in Sides /\ (Peer(r) = s <=> r = Peer(s))
    BY SideFacts
  <2>4. \A r \in Sides, k \in UsedLanes :
           /\ delivery'[Peer(r)][k] = delivery[Peer(r)][k] + By(Peer(s), l, r, k, -1)
           /\ inbuf'[Peer(r)][k] = inbuf[Peer(r)][k] + By(Peer(s), l, r, k, 1)
    BY <1>1, <1>3, <1>4, <2>1, <2>3 DEF By
  <2>5. FragmentsMoved(Peer(s), l, 0, 0, 0, -1, 1, 0)
    BY <2>2, <2>4 DEF FragmentsMoved
  <2>6. \A r \in Sides, k \in UsedLanes : FlowComplete(r, k)
    BY DEF MuxInv, FlowInv
  <2>7. -1 \in Int /\ 0 \in Int /\ 1 \in Int /\ 0 + 0 + 0 + -1 + 1 + 0 = 0
    OBVIOUS
  <2>8. QED  BY <1>1, <2>5, <2>6, <2>7, CompleteKept
<1>10. \A r \in Sides, k \in UsedLanes : EndIsLast(r, k)'
  <2> SUFFICES ASSUME NEW r \in Sides, NEW k \in UsedLanes
               PROVE  EndIsLast(r, k)'
    OBVIOUS
  <2>1. EndIsLast(r, k) /\ Peer(r) \in Sides
    BY SideFacts DEF MuxInv, FlowInv
  <2>2. eof[Peer(r)][k] => delivery[Peer(r)][k] = 0
    BY <2>1, EndMeansDelivered
  <2>3. eof'[Peer(r)][k] => delivery'[Peer(r)][k] = 0
    BY <1>1, <1>2, <1>3, <2>1, <2>2
  <2>4. QED  BY <1>2, <2>1, <2>3 DEF EndIsLast
<1>11. QED  BY <1>6, <1>8, <1>9, <1>10, PartsMake

LEMMA DeliverGrantKeeps ==
    ASSUME MuxInv, NEW s \in Sides, NEW l \in UsedLanes, DeliverGrant(s, l)
    PROVE  MuxInv' /\ Credit!Next
<1>1. /\ MuxTypes /\ granting[s][l] /\ delivery[s][l] \in Nat
      /\ Peer(s) \in Sides /\ Peer(Peer(s)) = s
  BY NumberFacts, SideFacts DEF MuxInv, DeliverGrant
<1>2. /\ granting' = [granting EXCEPT ![s][l] = FALSE]
      /\ events' = [events EXCEPT ![s] = Append(@, Packet(l, "GrantPeer"))]
      /\ UNCHANGED <<toSend, buffered, closed, inbuf, received, open, credits, burst, passed, out>>
      /\ UNCHANGED <<windows, delivery, ended, eof, wire, failed>>
  BY DEF DeliverGrant, appVars, schedulerVars
<1>3. /\ granting' \in [Sides -> [UsedLanes -> BOOLEAN]]
      /\ \A r \in Sides, k \in UsedLanes : granting'[r][k] <=> granting[r][k] /\ ~(r = s /\ k = l)
  BY <1>1, <1>2 DEF MuxTypes
<1>4. MuxTypes' /\ NeverFails' /\ BurstsAreShort' /\ PipesFit'
  <2>1. events' \in [Sides -> Seq(Events)]
    <3>1. events[s] \in Seq(Events) /\ Packet(l, "GrantPeer") \in Events
      BY <1>1, PacketFacts DEF MuxTypes
    <3>2. Append(events[s], Packet(l, "GrantPeer")) \in Seq(Events)
      BY <3>1, AppendProperties
    <3>3. QED  BY <1>1, <1>2, <3>2 DEF MuxTypes
  <2>2. QED  BY <1>1, <1>2, <1>3, <2>1 DEF MuxInv, MuxTypes, NeverFails, BurstsAreShort, PipesFit
<1>5. \A r \in Sides, k \in UsedLanes :
         /\ Granted(r, k)' = Granted(r, k) + By(Peer(s), l, r, k, 1)
         /\ Restored(r, k)' = Restored(r, k) + By(s, l, r, k, 0)
  <2>1. One("GrantPeer", "GrantPeer") = 1 /\ One("GrantPeer", "PeerCredit") = 0
    BY KindFacts
  <2> SUFFICES ASSUME NEW r \in Sides, NEW k \in UsedLanes
               PROVE  /\ Granted(r, k)' = Granted(r, k) + By(Peer(s), l, r, k, One("GrantPeer", "GrantPeer"))
                      /\ Restored(r, k)' = Restored(r, k) + By(s, l, r, k, One("GrantPeer", "PeerCredit"))
    BY <2>1
  <2>2. /\ "GrantPeer" \in {"PeerCredit", "GrantPeer"} /\ MuxTypes
        /\ events' = [events EXCEPT ![s] = Append(@, Packet(l, "GrantPeer"))]
    BY <1>1, <1>2
  <2>3. QED  BY <2>2, EventAdded
<1>6. Delivering(Peer(s), l) > 0
  BY <1>1 DEF Delivering
<1>7. \A r \in Sides, k \in UsedLanes : Delivering(r, k)' = Delivering(r, k) + By(Peer(s), l, r, k, -1)
  <2> SUFFICES ASSUME NEW r \in Sides, NEW k \in UsedLanes
               PROVE  Delivering(r, k)' = Delivering(r, k) + By(Peer(s), l, r, k, -1)
    OBVIOUS
  <2>1. /\ Peer(r) \in Sides /\ (Peer(r) = s <=> r = Peer(s)) /\ delivery[Peer(r)][k] \in Nat
        /\ delivery'[Peer(r)][k] = delivery[Peer(r)][k]
    BY <1>1, <1>2, SideFacts, NumberFacts
  <2>2. CASE r = Peer(s) /\ k = l
    <3>1. granting[Peer(r)][k] /\ ~granting'[Peer(r)][k]
      BY <1>1, <1>3, <2>1, <2>2
    <3>2. QED  BY <2>1, <2>2, <3>1 DEF Delivering, By
  <2>3. CASE ~(r = Peer(s) /\ k = l)
    <3>1. granting'[Peer(r)][k] <=> granting[Peer(r)][k]
      BY <1>3, <2>1, <2>3
    <3>2. QED  BY <2>1, <2>3, <3>1 DEF Delivering, By
  <2>4. QED  BY <2>2, <2>3
<1>8. Moved(Peer(s), l, 0, 0, -1, 1, 0, 0, 0)
  <2>1. \A r \in Sides, k \in UsedLanes :
           /\ credits[r][k] \in Nat /\ windows[Peer(r)][k] \in Nat /\ Travelling(r, k) \in Nat
           /\ Returning(r, k) \in Nat /\ Restored(r, k) \in Nat
    BY <1>1, NumberFacts, SideFacts
  <2>2. \A r \in Sides, k \in UsedLanes :
           /\ credits'[r][k] = credits[r][k] + By(Peer(s), l, r, k, 0)
           /\ windows'[Peer(r)][k] = windows[Peer(r)][k] + By(Peer(s), l, r, k, 0)
           /\ Travelling(r, k)' = Travelling(r, k) + By(Peer(s), l, r, k, 0)
           /\ Returning(r, k)' = Returning(r, k) + By(Peer(s), l, r, k, 0)
           /\ Restored(r, k)' = Restored(r, k) + By(Peer(s), l, r, k, 0)
    BY <1>2, <1>5, <2>1, ByNothing DEF Travelling, Returning, Writing
  <2>3. QED  BY <1>5, <1>7, <2>2 DEF Moved
<1>9. Credit!Next /\ \A r \in Sides, k \in UsedLanes : FlowBalanced(r, k)'
  <2>1. \A r \in Sides, k \in UsedLanes : FlowBalanced(r, k)
    BY DEF MuxInv, FlowInv
  <2>2. 1 \in Int /\ 0 \in Int /\ -1 \in Int /\ 0 + 0 + -1 + 1 + 0 + 0 = 0 /\ 0 + -1 + 1 = 0
    OBVIOUS
  <2>3. Credit!Next
    BY <1>1, <1>6, <1>8, DeliverIsCredit
  <2>4. QED  BY <1>1, <1>4, <1>8, <2>1, <2>2, <2>3, BalanceKept
<1>10. \A r \in Sides, k \in UsedLanes : FlowComplete(r, k)' /\ EndIsLast(r, k)'
  BY <1>2 DEF MuxInv, FlowInv, FlowComplete, EndIsLast, Travelling, Writing
<1>11. QED  BY <1>4, <1>9, <1>10, PartsMake

LEMMA DeliverEndKeeps ==
    ASSUME MuxInv, NEW s \in Sides, NEW l \in UsedLanes, DeliverEnd(s, l)
    PROVE  MuxInv' /\ UNCHANGED Credit!vars
<1>1. /\ MuxTypes /\ ended[s][l] /\ delivery[s][l] = 0 /\ eof' = [eof EXCEPT ![s][l] = TRUE]
      /\ UNCHANGED <<toSend, buffered, closed, inbuf, received, open, credits, burst, passed, out>>
      /\ UNCHANGED <<windows, delivery, ended, granting, wire, events, failed>>
  BY DEF MuxInv, DeliverEnd, appVars, schedulerVars
<1>2. /\ eof' \in [Sides -> [UsedLanes -> BOOLEAN]]
      /\ \A r \in Sides, k \in UsedLanes : eof'[r][k] <=> eof[r][k] \/ (r = s /\ k = l)
  BY <1>1 DEF MuxTypes
<1>3. MuxTypes' /\ NeverFails' /\ BurstsAreShort' /\ PipesFit'
  BY <1>1, <1>2 DEF MuxInv, MuxTypes, NeverFails, BurstsAreShort, PipesFit
<1>4. UNCHANGED Credit!vars /\ \A r \in Sides, k \in UsedLanes : FlowBalanced(r, k)'
  BY <1>1, StillWhere, RestIsCredit DEF MuxInv, FlowInv
<1>5. \A r \in Sides, k \in UsedLanes : FlowComplete(r, k)'
  BY <1>1 DEF MuxInv, FlowInv, FlowComplete, Travelling, Writing
<1>6. \A r \in Sides, k \in UsedLanes : EndIsLast(r, k)'
  <2> SUFFICES ASSUME NEW r \in Sides, NEW k \in UsedLanes
               PROVE  EndIsLast(r, k)'
    OBVIOUS
  <2>1. EndIsLast(r, k) /\ Peer(r) \in Sides
    BY SideFacts DEF MuxInv, FlowInv
  <2>2. eof'[Peer(r)][k] => ended[Peer(r)][k] /\ delivery[Peer(r)][k] = 0
    BY <1>1, <1>2, <2>1, EndMeansDelivered
  <2>3. QED  BY <1>1, <2>1, <2>2 DEF EndIsLast
<1>7. QED  BY <1>3, <1>4, <1>5, <1>6, PartsMake

(***************************************************************************)
(* The first state and every step.                                         *)
(***************************************************************************)
LEMMA InitHasMuxInv == Init => MuxInv
<1> SUFFICES ASSUME Init
             PROVE  MuxInv
  OBVIOUS
<1>1. MuxTypes
  BY MuxAssumption DEF Init, MuxTypes, PerLane, PerSide
<1>2. NeverFails /\ BurstsAreShort /\ PipesFit
  BY MuxAssumption DEF Init, NeverFails, BurstsAreShort, PipesFit, PerLane, PerSide
<1>3. ASSUME NEW s \in Sides, NEW l \in UsedLanes
      PROVE  FlowInv(s, l)
  <2>1. Peer(s) \in Sides /\ W \in Nat /\ Load[s][l] \in Nat
    BY SideFacts, MuxAssumption
  <2>2. /\ wire[s] = <<>> /\ wire[Peer(s)] = <<>> /\ events[s] = <<>> /\ events[Peer(s)] = <<>>
        /\ out[s] = NoPacket /\ out[Peer(s)] = NoPacket
        /\ credits[s][l] = W /\ windows[Peer(s)][l] = W /\ delivery[Peer(s)][l] = 0
        /\ ~granting[Peer(s)][l] /\ toSend[s][l] = Load[s][l] /\ buffered[s][l] = 0
        /\ inbuf[Peer(s)][l] = 0 /\ received[Peer(s)][l] = 0
        /\ open[s][l] /\ ~closed[s][l] /\ ~ended[Peer(s)][l] /\ ~eof[Peer(s)][l]
    BY <2>1 DEF Init, PerLane, PerSide
  <2>3. \A r, k : out[r] = NoPacket => Writing(r, l, k) = 0
    BY PacketFacts DEF Writing
  <2>4. /\ Travelling(s, l) = 0 /\ Delivering(s, l) = 0 /\ Granted(s, l) = 0
        /\ Returning(s, l) = 0 /\ Restored(s, l) = 0
    BY <2>2, <2>3, CountOfNothing DEF Travelling, Delivering, Granted, Returning, Restored
  <2>5. FlowBalanced(s, l)
    BY <2>1, <2>2, <2>4 DEF FlowBalanced
  <2>6. FlowComplete(s, l)
    BY <2>1, <2>2, <2>4 DEF FlowComplete
  <2>7. EndIsLast(s, l)
    BY <2>2, PacketFacts DEF EndIsLast
  <2>8. QED  BY <2>5, <2>6, <2>7 DEF FlowInv
<1>4. QED  BY <1>1, <1>2, <1>3 DEF MuxInv

LEMMA NextKeepsMuxInv ==
    ASSUME MuxInv, [Next]_vars
    PROVE  MuxInv' /\ [Credit!Next]_(Credit!vars)
<1>1. ASSUME NEW s \in Sides, Scheduler(s)
      PROVE  MuxInv' /\ [Credit!Next]_(Credit!vars)
  BY <1>1, TakePeerCreditKeeps, TakeGrantKeeps, ReadLaneKeeps, ReadEndKeeps, WritePacketKeeps DEF Scheduler
<1>2. ASSUME NEW s \in Sides, Receiver(s)
      PROVE  MuxInv' /\ [Credit!Next]_(Credit!vars)
  BY <1>2, ReceiveDataKeeps, ReceiveCreditKeeps, ReceiveFinishKeeps DEF Receiver
<1>3. ASSUME NEW s \in Sides, NEW l \in UsedLanes, Delivery(s, l)
      PROVE  MuxInv' /\ [Credit!Next]_(Credit!vars)
  BY <1>3, DeliverFragmentKeeps, DeliverGrantKeeps, DeliverEndKeeps DEF Delivery
<1>4. ASSUME NEW s \in Sides, NEW l \in UsedLanes, AppWrite(s, l) \/ AppClose(s, l) \/ AppRead(s, l)
      PROVE  MuxInv' /\ [Credit!Next]_(Credit!vars)
  BY <1>4, AppWriteKeeps, AppCloseKeeps, AppReadKeeps
<1>5. CASE UNCHANGED vars
  <2>1. /\ UNCHANGED <<toSend, buffered, closed, inbuf, received, open, credits, burst, passed, out>>
        /\ UNCHANGED <<windows, delivery, ended, granting, eof, wire, events, failed>>
    BY <1>5 DEF vars, appVars, schedulerVars, receiverVars
  <2>2. UNCHANGED Credit!vars
    BY <2>1, StillWhere, RestIsCredit
  <2>3. MuxInv'
    <3>1. MuxTypes' /\ NeverFails' /\ BurstsAreShort' /\ PipesFit'
      BY <2>1 DEF MuxInv, MuxTypes, NeverFails, BurstsAreShort, PipesFit
    <3>2. \A r \in Sides, k \in UsedLanes : FlowBalanced(r, k)'
      BY <2>1, StillWhere, RestIsCredit DEF MuxInv, FlowInv
    <3>3. \A r \in Sides, k \in UsedLanes : FlowComplete(r, k)'
      BY <2>1 DEF MuxInv, FlowInv, FlowComplete, Travelling, Writing
    <3>4. \A r \in Sides, k \in UsedLanes : EndIsLast(r, k)'
      BY <2>1 DEF MuxInv, FlowInv, EndIsLast
    <3>5. QED  BY <3>1, <3>2, <3>3, <3>4, PartsMake
  <2>4. QED  BY <2>2, <2>3
<1>6. QED  BY <1>1, <1>2, <1>3, <1>4, <1>5 DEF Next, Done

(***************************************************************************)
(* The theorems.                                                           *)
(***************************************************************************)
(* The invariant holds in every reachable state.                           *)
THEOREM MuxIsInvariant == Spec => []MuxInv
<1>1. MuxInv /\ [Next]_vars => MuxInv'
  BY NextKeepsMuxInv
<1>2. QED  BY <1>1, InitHasMuxInv, PTL DEF Spec

(* Every credit, window and queue stays between zero and WINDOW_PACKETS    *)
(* (the u32 counters of mux.rs neither underflow nor pass their limit).    *)
THEOREM TypeCorrect == Spec => []TypeOK
<1>1. ASSUME MuxInv
      PROVE  TypeOK
  <2>1. ASSUME NEW s \in Sides, NEW l \in UsedLanes
        PROVE  /\ credits[s][l] \in 0..W /\ windows[s][l] \in 0..W /\ delivery[s][l] \in 0..W
               /\ buffered[s][l] \in 0..W /\ inbuf[s][l] \in 0..W
    <3>1. MuxTypes /\ Peer(s) \in Sides /\ Peer(Peer(s)) = s /\ W \in Nat
      BY <1>1, SideFacts, MuxAssumption DEF MuxInv
    <3>2. FlowBalanced(s, l) /\ FlowBalanced(Peer(s), l)
      BY <1>1, <3>1 DEF MuxInv, FlowInv
    <3>3. credits[s][l] \in 0..W
      <4>1. /\ credits[s][l] \in Nat /\ Travelling(s, l) \in Nat /\ Delivering(s, l) \in Nat
            /\ Granted(s, l) \in Nat /\ Returning(s, l) \in Nat /\ Restored(s, l) \in Nat
        BY <3>1, NumberFacts
      <4>2. QED  BY <3>1, <3>2, <4>1 DEF FlowBalanced
    <3>4. windows[s][l] \in 0..W /\ delivery[s][l] \in 0..W
      <4>1. /\ windows[s][l] \in Nat /\ delivery[s][l] \in Nat
            /\ Delivering(Peer(s), l) \in Nat /\ Granted(Peer(s), l) \in Nat
        BY <3>1, NumberFacts
      <4>2. windows[s][l] + Delivering(Peer(s), l) + Granted(Peer(s), l) = W
        BY <3>1, <3>2 DEF FlowBalanced
      <4>3. delivery[s][l] <= Delivering(Peer(s), l)
        BY <3>1, <4>1 DEF Delivering
      <4>4. QED  BY <3>1, <4>1, <4>2, <4>3
    <3>5. buffered[s][l] \in 0..W /\ inbuf[s][l] \in 0..W
      BY <1>1, <3>1, NumberFacts DEF MuxInv, PipesFit
    <3>6. QED  BY <3>3, <3>4, <3>5
  <2>2. MuxTypes
    BY <1>1 DEF MuxInv
  <2>3. /\ credits \in [Sides -> [UsedLanes -> 0..W]] /\ windows \in [Sides -> [UsedLanes -> 0..W]]
        /\ delivery \in [Sides -> [UsedLanes -> 0..W]] /\ buffered \in [Sides -> [UsedLanes -> 0..W]]
        /\ inbuf \in [Sides -> [UsedLanes -> 0..W]]
    BY <2>1, <2>2 DEF MuxTypes
  <2>4. QED  BY <2>2, <2>3 DEF MuxTypes, TypeOK, Kinds, PacketKinds, Packets, Events
<1>2. QED  BY <1>1, MuxIsInvariant, PTL

(* No order of the ten tasks makes one of them return a protocol error     *)
(* (the bail! of receive and schedule), which would close the carrier with *)
(* every lane on it.                                                       *)
THEOREM NeverFailing == Spec => []NeverFails
<1>1. MuxInv => NeverFails
  BY DEF MuxInv
<1>2. QED  BY <1>1, MuxIsInvariant, PTL

(* The end of a lane is reported only after everything its peer wrote.     *)
THEOREM EndFollowsData == Spec => []EndAfterData
<1>1. ASSUME MuxInv, NEW s \in Sides, NEW l \in UsedLanes, eof[s][l]
      PROVE  received[s][l] + inbuf[s][l] = Load[Peer(s)][l]
  <2> DEFINE r == Peer(s)
  <2>1. r \in Sides /\ Peer(r) = s /\ MuxTypes
    BY <1>1, SideFacts DEF MuxInv
  <2>2. FlowComplete(r, l) /\ EndIsLast(r, l)
    BY <1>1, <2>1 DEF MuxInv, FlowInv
  <2> HIDE DEF r
  <2>3. /\ ended[s][l] /\ delivery[s][l] = 0 /\ toSend[r][l] = 0 /\ buffered[r][l] = 0
        /\ out[r] \notin OfLane(l) /\ \A j \in DOMAIN wire[s] : wire[s][j] \notin OfLane(l)
    BY <1>1, <2>1, <2>2 DEF EndIsLast
  <2>4. Travelling(r, l) = 0
    <3>1. Packet(l, "DATA") \in OfLane(l)
      BY OfLaneFacts
    <3>2. wire[s] \in Seq(Packets) /\ \A j \in 1..Len(wire[s]) : wire[s][j] # Packet(l, "DATA")
      <4>1. wire[s] \in Seq(Packets) /\ DOMAIN wire[s] = 1..Len(wire[s])
        BY <2>1 DEF MuxTypes
      <4>2. QED  BY <2>3, <3>1, <4>1
    <3>3. Count(l, "DATA", wire[s]) = 0
      BY <3>2, CountPositive
    <3>4. Writing(r, l, "DATA") = 0
      BY <2>3, <3>1 DEF Writing
    <3>5. QED  BY <2>1, <3>3, <3>4 DEF Travelling
  <2>5. received[s][l] \in Nat /\ inbuf[s][l] \in Nat
    BY <2>1, NumberFacts
  <2>6. toSend[r][l] + buffered[r][l] + Travelling(r, l)
          + delivery[s][l] + inbuf[s][l] + received[s][l] = Load[r][l]
    BY <2>1, <2>2 DEF FlowComplete
  <2>7. received[s][l] + inbuf[s][l] = Load[r][l]
    BY <2>3, <2>4, <2>5, <2>6
  <2>8. QED  BY <2>7 DEF r
<1>2. MuxInv => EndAfterData
  BY <1>1 DEF EndAfterData
<1>3. QED  BY <1>2, MuxIsInvariant, PTL

(* A ready clipboard fragment is passed by at most PRIORITY_BURST packets. *)
THEOREM ClipboardGoesOn == Spec => []ClipboardNotStarved
<1>1. MuxInv => ClipboardNotStarved
  BY DEF MuxInv, BurstsAreShort, ClipboardNotStarved
<1>2. QED  BY <1>1, MuxIsInvariant, PTL

(* The ten tasks and their queues implement the credits of MuxCredit.      *)
THEOREM CreditIsImplemented == Spec => ImplementsCredit
<1>1. Init => Credit!Init
  <2> SUFFICES ASSUME Init
               PROVE  Credit!Init
    OBVIOUS
  <2>1. ASSUME NEW s \in Sides, NEW l \in UsedLanes
        PROVE  /\ credits[s][l] = W /\ windows[Peer(s)][l] = W
               /\ Travelling(s, l) = 0 /\ Delivering(s, l) = 0 /\ Granted(s, l) = 0
               /\ Returning(s, l) = 0 /\ Restored(s, l) = 0
    <3>1. Peer(s) \in Sides
      BY SideFacts
    <3>2. /\ wire[s] = <<>> /\ wire[Peer(s)] = <<>> /\ events[s] = <<>> /\ events[Peer(s)] = <<>>
          /\ out[s] = NoPacket /\ out[Peer(s)] = NoPacket
          /\ credits[s][l] = W /\ windows[Peer(s)][l] = W /\ delivery[Peer(s)][l] = 0
          /\ ~granting[Peer(s)][l]
      BY <3>1 DEF Init, PerLane, PerSide
    <3>3. \A r, k : out[r] = NoPacket => Writing(r, l, k) = 0
      BY PacketFacts DEF Writing
    <3>4. QED  BY <3>2, <3>3, CountOfNothing DEF Travelling, Delivering, Granted, Returning, Restored
  <2>2. /\ FlowCredits = [f \in Flows |-> W] /\ FlowWindow = [f \in Flows |-> W]
        /\ FlowData = [f \in Flows |-> 0] /\ FlowQueue = [f \in Flows |-> 0]
        /\ FlowGrants = [f \in Flows |-> 0] /\ FlowReturning = [f \in Flows |-> 0]
        /\ FlowRestored = [f \in Flows |-> 0]
    BY <2>1, FlowFacts DEF FlowCredits, FlowData, FlowQueue, FlowGrants, FlowWindow, FlowReturning,
                           FlowRestored
  <2>3. Credit!Zero = [f \in Flows |-> 0] /\ Credit!Full = [f \in Flows |-> W]
    BY FlowFacts DEF Credit!Zero, Credit!Full
  <2>4. QED  BY <2>2, <2>3 DEF Credit!Init, FlowCredits, FlowData, FlowQueue, FlowGrants, FlowWindow,
                               FlowReturning, FlowRestored
<1>2. MuxInv /\ [Next]_vars => [Credit!Next]_(Credit!vars)
  BY NextKeepsMuxInv
<1>3. QED  BY <1>1, <1>2, MuxIsInvariant, PTL DEF Spec, ImplementsCredit, Credit!Spec
=============================================================================
