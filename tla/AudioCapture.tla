---------------------------- MODULE AudioCapture ----------------------------
(***************************************************************************)
(* The sending end of a sound link (src/audio/runtime/send.rs, capture.rs) *)
(* on the Windows backend (platform/windows.rs): a device thread writes    *)
(* samples into a ring that keeps the newest, the capture thread cuts them *)
(* into frames, an encoder and a sender follow.  The device thread gets    *)
(* over a change of the device by itself; other errors make the capture    *)
(* thread open it anew.                                                    *)
(***************************************************************************)
EXTENDS AudioQueue

CONSTANTS FrameSamples, \* samples of a frame
          MicLimit,     \* samples the ring holds
          SampleLimit,  \* frames that wait for the encoder (30)
          PacketLimit,  \* packets that wait for the sender (32)
          MaxSamples,   \* bound: samples recorded
          MaxMics       \* bound: starts of a device

ASSUME CaptureAssumption ==
    /\ {FrameSamples, MicLimit, SampleLimit, PacketLimit} \subseteq Nat \ {0}
    /\ {MaxSamples, MaxMics} \subseteq Nat /\ FrameSamples <= MicLimit

VARIABLES
    txStop,   \* the stop of the link
    txSup,    \* its supervisor
    capture,  \* the capture thread: where it is, and what comes next
    mic,      \* the device thread, whether it is to stop, and its ring of samples
    mics,     \* starts of a device so far
    recorded, \* samples recorded so far
    frames,   \* the queue to the encoder; a sample is its number and its device
    encoder, packets, \* encode_frames and the queue to the sender
    transmit, \* send_packets
    sent      \* the frames sent

captureVars == <<txStop, txSup, capture, mic, mics, recorded, frames, encoder, packets, transmit, sent>>
Stages == <<encoder, packets, transmit, sent>>
Supervisor == <<txStop, txSup>>

NoMic == [at |-> "none", stop |-> FALSE, ring |-> <<>>, recovering |-> FALSE, closed |-> FALSE]
Finished == {"ok", "failed"}

CaptureInit ==
    /\ txStop = FALSE /\ txSup = "select"
    /\ capture = [at |-> "check", frame |-> <<>>, next |-> "none"]
    /\ mic = NoMic /\ mics = 0 /\ recorded = 0
    /\ frames = NewQueue(SampleLimit) /\ packets = NewQueue(PacketLimit)
    /\ encoder = "run" /\ transmit = "run" /\ sent = <<>>

-----------------------------------------------------------------------------
(* The device thread and its ring.                                         *)

\* Mutant: the ring keeps what it has when the device changes.
KeepRing(ring) == ring

\* discard_oldest, of all there is: begin_recovery, finish_recovery and
\* configure_capture_packet, which makes a new ring for the new device.
ClearRing(ring) == <<>>

\* CaptureThreadContext::start fails: at first that is the answer to open, later
\* it is tried again in a second.
MicFails ==
    /\ mic.at = "starting" /\ capture.at = "open"
    /\ mic' = [mic EXCEPT !.at = "ended", !.closed = TRUE]
    /\ UNCHANGED <<Supervisor, capture, mics, recorded, frames, Stages>>

MicStarts ==
    /\ mic.at \in {"starting", "again"} /\ mics < MaxMics /\ mics' = mics + 1
    /\ IF mic.closed THEN mic' = [mic EXCEPT !.at = "ended"]
       ELSE mic' = [mic EXCEPT !.at = "run", !.recovering = FALSE, !.ring = ClearRing(@)]
    /\ UNCHANGED <<Supervisor, capture, recorded, frames, Stages>>

\* write_capture: the oldest samples make room.
MicRecords ==
    /\ mic.at = "run" /\ recorded < MaxSamples /\ recorded' = recorded + 1
    /\ mic' = IF mic.closed \/ mic.recovering THEN mic
              ELSE [mic EXCEPT !.ring = Append(IF Len(@) = MicLimit THEN Tail(@) ELSE @,
                                               [number |-> recorded + 1, device |-> mics])]
    /\ UNCHANGED <<Supervisor, capture, mics, frames, Stages>>

\* Another default device, or this one is gone: begin_recovery.
MicLost ==
    /\ mic.at = "run"
    /\ mic' = IF mic.closed THEN [mic EXCEPT !.at = "ended"]
              ELSE [mic EXCEPT !.at = "again", !.recovering = TRUE, !.ring = ClearRing(@)]
    /\ UNCHANGED <<Supervisor, capture, mics, recorded, frames, Stages>>

\* It is told to stop, while it records or waits for its next attempt, or it
\* meets an error it cannot get over.
MicEnds ==
    /\ \/ mic.stop /\ mic.at \in {"run", "again"} /\ mic' = [mic EXCEPT !.at = "ended"]
       \/ mic.at = "run" /\ mic' = [mic EXCEPT !.at = "ended", !.closed = TRUE]
    /\ UNCHANGED <<Supervisor, capture, mics, recorded, frames, Stages>>

-----------------------------------------------------------------------------
(* The capture thread.                                                     *)

CaptureTo(at) == capture' = [capture EXCEPT !.at = at]

DropInput(next) ==
    /\ capture' = [capture EXCEPT !.at = "drop", !.next = next]
    /\ mic' = [mic EXCEPT !.stop = TRUE, !.closed = TRUE]

CaptureChecks ==
    /\ capture.at = "check"
    /\ IF txStop THEN CaptureTo("ok") /\ UNCHANGED mic
       ELSE CaptureTo("open") /\ mic' = [NoMic EXCEPT !.at = "starting"]
    /\ UNCHANGED <<Supervisor, mics, recorded, frames, Stages>>

\* open() has heard from the device thread.
InputOpened ==
    /\ capture.at = "open" /\ mic.at # "starting"
    /\ IF mic.at = "ended" /\ mic.closed
       THEN CaptureTo(IF txStop THEN "ok" ELSE "backoff") /\ mic' = NoMic
       ELSE IF txStop THEN DropInput("ok") ELSE CaptureTo("read") /\ UNCHANGED mic
    /\ UNCHANGED <<Supervisor, mics, recorded, frames, Stages>>

\* read_frame: a whole frame, nothing for 200 ms, or the ring is closed.
CaptureReads ==
    /\ capture.at = "read"
    /\ CASE txStop -> DropInput("ok")
         [] ~txStop /\ mic.closed -> DropInput("backoff")
         [] ~txStop /\ ~mic.closed ->
               /\ Len(mic.ring) >= FrameSamples
               /\ mic' = [mic EXCEPT !.ring = SubSeq(@, FrameSamples + 1, Len(@))]
               /\ capture' = [capture EXCEPT !.at = "push", !.frame = SubSeq(mic.ring, 1, FrameSamples)]
    /\ UNCHANGED <<Supervisor, mics, recorded, frames, Stages>>

CapturePushes ==
    /\ capture.at = "push"
    /\ IF txStop \/ frames.closed THEN DropInput("ok") /\ UNCHANGED frames
       ELSE frames' = Pushed(frames, capture.frame) /\ CaptureTo("read") /\ UNCHANGED mic
    /\ UNCHANGED <<Supervisor, mics, recorded, Stages>>

\* The thread of the device is waited for; after an error five seconds pass
\* before the next attempt, unless the link is stopped.
CaptureDrops ==
    /\ capture.at = "drop" /\ mic.at = "ended"
    /\ CaptureTo(IF txStop THEN "ok" ELSE capture.next) /\ mic' = NoMic
    /\ UNCHANGED <<Supervisor, mics, recorded, frames, Stages>>

\* Mutant: the pause between two attempts does not heed the stop.
BackoffSleeps ==
    /\ capture.at = "backoff" /\ ~txStop /\ CaptureTo("check")
    /\ UNCHANGED <<Supervisor, mic, mics, recorded, frames, Stages>>

Backoff ==
    /\ capture.at = "backoff" /\ CaptureTo(IF txStop THEN "ok" ELSE "check")
    /\ UNCHANGED <<Supervisor, mic, mics, recorded, frames, Stages>>

-----------------------------------------------------------------------------
(* The encoder, the sender and the supervisor.                             *)

Encode ==
    /\ encoder = "run"
    /\ IF frames.closed THEN encoder' = "ok" /\ UNCHANGED <<frames, packets>>
       ELSE /\ frames.items # <<>> /\ frames' = Popped(frames)
            /\ \/ txStop /\ encoder' = "ok" /\ UNCHANGED packets
               \/ ~txStop /\ encoder' = "failed" /\ UNCHANGED packets
               \/ /\ ~txStop /\ packets' = Pushed(packets, Head(frames.items))
                  /\ encoder' = IF packets.closed THEN "ok" ELSE encoder
    /\ UNCHANGED <<Supervisor, capture, mic, mics, recorded, transmit, sent>>

Transmit ==
    /\ transmit = "run"
    /\ IF packets.closed THEN transmit' = "ok" /\ UNCHANGED <<packets, sent>>
       ELSE /\ packets.items # <<>> /\ packets' = Popped(packets)
            /\ \/ txStop /\ transmit' = "ok" /\ UNCHANGED sent
               \/ ~txStop /\ transmit' = "failed" /\ UNCHANGED sent
               \/ ~txStop /\ sent' = Append(sent, Head(packets.items)) /\ UNCHANGED transmit
    /\ UNCHANGED <<Supervisor, capture, mic, mics, recorded, frames, encoder>>

StageStates == {capture.at, encoder, transmit}
CaptureSupervised ==
    Supervise(txSup, txStop, StageStates \cap Finished # {}, StageStates \subseteq Finished)

CaptureSupervises ==
    /\ CaptureSupervised # txSup /\ txSup' = CaptureSupervised
    /\ txStop' = (txStop \/ txSup = "cancel")
    /\ frames' = IF txSup = "close" THEN ClosedQueue(frames) ELSE frames
    /\ packets' = IF txSup = "close" THEN ClosedQueue(packets) ELSE packets
    /\ UNCHANGED <<capture, mic, mics, recorded, encoder, transmit, sent>>

StopCapture ==
    /\ ~txStop /\ txStop' = TRUE
    /\ UNCHANGED <<txSup, capture, mic, mics, recorded, frames, Stages>>

CaptureThread ==
    CaptureChecks \/ InputOpened \/ CaptureReads \/ CapturePushes \/ CaptureDrops \/ Backoff

Mic == MicFails \/ MicStarts \/ MicRecords \/ MicLost \/ MicEnds

CaptureNext == CaptureThread \/ Mic \/ Encode \/ Transmit \/ CaptureSupervises \/ StopCapture

\* The threads run on, and the start of a device comes to an end.
CaptureFairness ==
    /\ WF_captureVars(CaptureThread) /\ WF_captureVars(MicStarts \/ MicFails)
    /\ WF_captureVars(mic.stop /\ MicEnds)
    /\ WF_captureVars(Encode) /\ WF_captureVars(Transmit) /\ WF_captureVars(CaptureSupervises)

CaptureSpec == CaptureInit /\ [][CaptureNext]_captureVars /\ CaptureFairness

-----------------------------------------------------------------------------
\* A frame that is sent holds samples of one device in their order, and no frame
\* overtakes or repeats another, though rings and queues drop what is old and
\* the device is replaced under them.
WholeFrames ==
    /\ \A i \in DOMAIN sent : \A j, k \in DOMAIN sent[i] :
          j < k => sent[i][j].number < sent[i][k].number /\ sent[i][j].device = sent[i][k].device
    /\ \A i \in 1..(Len(sent) - 1) : sent[i][FrameSamples].number < sent[i + 1][1].number

\* A link that is stopped or one of whose stages fails is collected whole, with
\* the thread of its device.
CaptureEnds ==
    txStop \/ StageStates \cap Finished # {}
        ~> txSup = "done" /\ StageStates \subseteq Finished /\ mic.at = "none"
=============================================================================
