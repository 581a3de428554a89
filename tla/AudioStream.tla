---------------------------- MODULE AudioStream ----------------------------
(***************************************************************************)
(* One direction of the sound between two devices (src/audio/): frames are *)
(* numbered, grouped in blocks with parity, encrypted under a counter and  *)
(* sent in datagrams that may be lost, repeated or late.  The receiver     *)
(* refuses what it has seen, rebuilds what the parity allows, and passes   *)
(* the frames on in order, with a note for each it gives up.               *)
(***************************************************************************)
EXTENDS Naturals, Sequences, FiniteSets, SequencesExt

CONSTANTS DataShards,   \* frames of a block (4)
          ParityShards, \* parity datagrams of a block (2)
          SeqNumbers,   \* the number of sequence numbers (2^16)
          ReplayWindow, \* how far back a counter is remembered (64)
          InitialDrop,  \* frames dropped when a stream starts
          FirstBlock,   \* bound: the first block of the stream that is sent here
          LastBlock,    \* bound: the last one
          MaxLate       \* bound: datagrams that are late at the same time

ASSUME AudioAssumption ==
    /\ {DataShards, ParityShards, SeqNumbers, ReplayWindow} \subseteq Nat \ {0}
    /\ {InitialDrop, FirstBlock, LastBlock, MaxLate} \subseteq Nat
    /\ SeqNumbers % DataShards = 0
    /\ 2 * DataShards * (LastBlock - FirstBlock + 1) <= SeqNumbers

VARIABLES
    next,    \* the datagram to be sent next: its block and its place in it
    late,    \* datagrams that will arrive later, or once more
    seen,    \* AudioDecryptor: the highest counter, and the ones seen of the window
    startup, \* AudioDepacketizer: frames still to be dropped, whether any has come
    queue,   \* RtpAudioQueue
    heard    \* the frames passed on: position, and the frame that was played

audioVars == <<next, late, seen, startup, queue, heard>>

Shards == DataShards + ParityShards
Missing == 0

\* A datagram is known by its block, counted without end, and its place: first
\* the frames, then the parity.
Counter(d) == d.block * Shards + d.place
IsFrame(d) == d.place <= DataShards
Frame(block, place) == block * DataShards + place

\* What of it goes over the wire wraps round.
Base(block) == (block * DataShards) % SeqNumbers
Plus(seq, n) == (seq + n) % SeqNumbers
IsBefore(a, b) == a # b /\ (a + SeqNumbers - b) % SeqNumbers >= SeqNumbers \div 2

NewBlock(b) == [block |-> b, got |-> {}, full |-> FALSE, passed |-> 0, given |-> FALSE, aged |-> FALSE]

AudioInit ==
    /\ next = [block |-> FirstBlock, place |-> 1] /\ late = {}
    /\ seen = [highest |-> 0, window |-> {}]
    /\ startup = [drop |-> InitialDrop, some |-> FALSE]
    /\ queue = [blocks |-> <<>>, next |-> 0, oldest |-> 0, lastLate |-> 0, lates |-> FALSE,
                syncing |-> TRUE, started |-> FALSE]
    /\ heard = <<>>

-----------------------------------------------------------------------------
(* The queue of the receiver.                                              *)

HeadBlock(q) == Head(q.blocks)
HasPlace(b, place) == place \in b.got \/ b.full
Expected(b) == Plus(Base(b.block), b.passed)

\* has_packet_ready
IsReady(q) ==
    /\ q.blocks # <<>>
    /\ \/ HeadBlock(q).given
       \/ Expected(HeadBlock(q)) = q.next /\ HasPlace(HeadBlock(q), HeadBlock(q).passed + 1)

\* handle_missing_packets: a block that never came is passed over; then the
\* first block is given up if another waits behind it, at once as long as no
\* datagram has come late, else when its time is over.
HandleMissing(q) ==
    IF q.blocks = <<>> THEN q
    ELSE LET head == HeadBlock(q)
             jumps == IsBefore(q.next, Base(head.block))
             moved == IF jumps THEN [q EXCEPT !.next = Base(head.block), !.oldest = Base(head.block)] ELSE q
         IN  IF \/ jumps /\ HasPlace(head, head.passed + 1)
                \/ Len(q.blocks) = 1
                \/ q.lates /\ ~head.aged
             THEN moved ELSE [moved EXCEPT !.blocks[1].given = TRUE]

\* The place has been dealt with; the last one frees the block.
Advance(q) ==
    LET head == HeadBlock(q) IN
    IF head.passed + 1 = DataShards
    THEN [q EXCEPT !.blocks = Tail(@), !.next = Plus(@, 1), !.syncing = FALSE,
                   !.oldest = Plus(Base(head.block), DataShards)]
    ELSE [q EXCEPT !.blocks[1].passed = @ + 1, !.next = Plus(@, 1)]

\* Mutant: what is missing is only looked after when a datagram comes.
DequeueAsIs(q) ==
    IF ~IsReady(q) THEN <<q, <<>>>>
    ELSE LET head == HeadBlock(q)
             place == head.passed + 1
             entry(frame) == <<[at |-> Frame(head.block, place), frame |-> frame]>>
         IN  IF ~HasPlace(head, place)
             THEN IF Expected(head) = q.next THEN <<Advance(q), entry(Missing)>> ELSE <<q, <<>>>>
             ELSE <<Advance(q), entry(Frame(head.block, place))>>

\* dequeue_ready: the queue after it, and the frame or the note if there is one.
Dequeue(asked) ==
    LET q == IF IsReady(asked) THEN asked ELSE HandleMissing(asked) IN
    IF ~IsReady(q) THEN <<q, <<>>>>
    ELSE LET head == HeadBlock(q)
             place == head.passed + 1
             entry(frame) == <<[at |-> Frame(head.block, place), frame |-> frame]>>
         IN  IF ~HasPlace(head, place)
             THEN IF Expected(head) = q.next THEN <<Advance(q), entry(Missing)>> ELSE <<q, <<>>>>
             ELSE <<Advance(q), entry(Frame(head.block, place))>>

\* drain_ready
RECURSIVE Drain(_, _)
Drain(q, frames) ==
    LET step == Dequeue(q) IN
    IF step[2] = <<>> THEN <<step[1], frames>> ELSE Drain(step[1], frames \o step[2])

\* A frame of a block that is over is noted as late; the note is dropped when
\* the stream has moved beyond it.
NoteLate(q, d) ==
    LET seq == Plus(Base(d.block), d.place - 1) IN
    IF ~IsFrame(d) THEN q
    ELSE IF ~q.syncing /\ IsBefore(seq, q.oldest) THEN [q EXCEPT !.lastLate = seq, !.lates = TRUE]
    ELSE IF q.lates /\ IsBefore(q.oldest, q.lastLate) THEN [q EXCEPT !.lates = FALSE]
    ELSE q

\* ensure_block: blocks are kept in the order of their first number.
Ensure(q, block) ==
    LET before == SelectSeq(q.blocks, LAMBDA b : IsBefore(Base(b.block), Base(block)))
        after == SelectSeq(q.blocks, LAMBDA b : IsBefore(Base(block), Base(b.block)))
    IN  IF \E i \in DOMAIN q.blocks : q.blocks[i].block = block THEN q
        ELSE [q EXCEPT !.blocks = before \o <<NewBlock(block)>> \o after]

\* The datagram takes its place; as many datagrams as a block has frames, of
\* either kind, make it whole.
Place(q, d) ==
    LET i == CHOOSE i \in DOMAIN q.blocks : q.blocks[i].block = d.block
        got == q.blocks[i].got \cup {d.place}
    IN  IF q.blocks[i].full \/ d.place \in q.blocks[i].got THEN q
        ELSE LET placed == [q EXCEPT !.blocks[i].got = got,
                                     !.blocks[i].full = Cardinality(got) >= DataShards]
             IN  IF IsReady(placed) THEN placed ELSE HandleMissing(placed)

\* Mutant: a datagram of a block that is over opens the block again.
AddAlways(q, d) ==
    LET noted == NoteLate(q, d) IN
    IF ~q.started
    THEN [noted EXCEPT !.started = TRUE, !.next = Plus(Base(d.block), DataShards),
                       !.oldest = Plus(Base(d.block), DataShards)]
    ELSE Place(Ensure(noted, d.block), d)

\* add_packet: the first datagram only tells where the next block begins.
Add(q, d) ==
    LET noted == NoteLate(q, d) IN
    IF ~q.started
    THEN [noted EXCEPT !.started = TRUE, !.next = Plus(Base(d.block), DataShards),
                       !.oldest = Plus(Base(d.block), DataShards)]
    ELSE IF IsBefore(Base(d.block), q.oldest) THEN noted
    ELSE Place(Ensure(noted, d.block), d)

-----------------------------------------------------------------------------
(* The receiver.                                                           *)

\* AudioDecryptor::decrypt: a counter that is known, or too old to know.
Refused(d) ==
    /\ Counter(d) <= seen.highest
    /\ Counter(d) \in seen.window \/ seen.highest - Counter(d) >= ReplayWindow

Recorded(d) ==
    LET highest == IF Counter(d) > seen.highest THEN Counter(d) ELSE seen.highest IN
    [highest |-> highest,
     window |-> {c \in seen.window \cup {Counter(d)} : highest - c < ReplayWindow}]

Hand(q) ==
    LET drained == Drain(q, <<>>) IN queue' = drained[1] /\ heard' = heard \o drained[2]

\* receive_packets and AudioDepacketizer::push_datagram.
Receive(d) ==
    IF Refused(d) THEN UNCHANGED <<seen, startup, queue, heard>>
    ELSE /\ seen' = Recorded(d)
         /\ IF startup.drop > 0
            THEN /\ startup' = [drop |-> startup.drop - IF IsFrame(d) THEN 1 ELSE 0, some |-> TRUE]
                 /\ UNCHANGED <<queue, heard>>
            ELSE startup' = [startup EXCEPT !.some = TRUE] /\ Hand(Add(queue, d))

\* Nothing has come for 200 ms.
ReceiveTimeout ==
    /\ startup' = IF startup.some THEN [startup EXCEPT !.drop = 0] ELSE startup
    /\ Hand([queue EXCEPT !.blocks = [i \in DOMAIN @ |-> [@[i] EXCEPT !.aged = TRUE]]])
    /\ UNCHANGED <<next, late, seen>>

\* Time passes while datagrams come.
Age ==
    /\ \E i \in DOMAIN queue.blocks : ~queue.blocks[i].aged
    /\ queue' = [queue EXCEPT !.blocks = [i \in DOMAIN @ |-> [@[i] EXCEPT !.aged = TRUE]]]
    /\ UNCHANGED <<next, late, seen, startup, heard>>

-----------------------------------------------------------------------------
(* The sender and the network.                                             *)

\* push_encoded_frame and encrypt: the parity follows the last frame of its block.
Sent ==
    next' = IF next.place = Shards THEN [block |-> next.block + 1, place |-> 1]
            ELSE [next EXCEPT !.place = @ + 1]

MaySend == next.block <= LastBlock

Arrives == MaySend /\ Sent /\ Receive(next) /\ UNCHANGED late

IsLost == MaySend /\ Sent /\ UNCHANGED <<late, seen, startup, queue, heard>>

IsDelayed ==
    /\ MaySend /\ Cardinality(late) < MaxLate /\ Sent /\ late' = late \cup {next}
    /\ UNCHANGED <<seen, startup, queue, heard>>

IsRepeated == MaySend /\ Cardinality(late) < MaxLate /\ Sent /\ late' = late \cup {next} /\ Receive(next)

ArrivesLate(d) == d \in late /\ late' = late \ {d} /\ Receive(d) /\ UNCHANGED next

AudioNext ==
    \/ Arrives \/ IsLost \/ IsDelayed \/ IsRepeated
    \/ \E d \in late : ArrivesLate(d)
    \/ ReceiveTimeout \/ Age

\* The socket is read with a time limit, again and again.
AudioFairness == WF_audioVars(ReceiveTimeout)

AudioSpec == AudioInit /\ [][AudioNext]_audioVars /\ AudioFairness

-----------------------------------------------------------------------------
\* Every frame is played at its own place, none twice, none after a later one,
\* and none of a block is left out without a note, across the end of the
\* sequence numbers and with whatever is lost, late or repeated.
FramesInOrder ==
    /\ \A i \in DOMAIN heard : heard[i].frame \in {heard[i].at, Missing}
    /\ \A i \in 1..(Len(heard) - 1) :
          \/ heard[i + 1].at = heard[i].at + 1
          \/ heard[i + 1].at > heard[i].at /\ heard[i + 1].at % DataShards = 1 % DataShards

\* A block that waits behind another one is not kept for ever, also when no
\* further datagram comes.
SoundGoesOn == Len(queue.blocks) > 1 ~> Len(queue.blocks) <= 1
=============================================================================
