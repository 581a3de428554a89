--------------------------- MODULE AudioPlayback ---------------------------
(***************************************************************************)
(* The receiving end of a sound link (src/audio/runtime/receive.rs,        *)
(* render.rs) on the Windows backend (platform/windows.rs): the task that  *)
(* reads the socket, the thread that decodes and submits frames, and the   *)
(* thread of the device behind a ring.  The device is lost and opened      *)
(* again while frames keep coming, and the link may be stopped at any time.*)
(***************************************************************************)
EXTENDS AudioQueue

CONSTANTS DecodeLimit,  \* frames the queue before the decoder holds (30)
          BacklogLimit, \* frames behind it that make a frame too old to be played
          RingLimit,    \* frames the ring of the device holds
          MaxFrames,    \* bound: frames that arrive
          MaxOutputs    \* bound: devices that are opened

ASSUME PlaybackAssumption ==
    {DecodeLimit, RingLimit} \subseteq Nat \ {0} /\ {BacklogLimit, MaxFrames, MaxOutputs} \subseteq Nat

VARIABLES
    rxStop,    \* the stop of the link
    rxSup,     \* its supervisor
    rxReader,  \* receive_packets
    decode,    \* the queue; a frame is the number of devices opened when it came
    render,    \* the render thread: where it is, the frame it holds, what comes next
    speaker,   \* the device thread, whether it is to stop, and its ring
    outputs,   \* devices opened, whether one was lost or refused before
    arrived,
    sounded    \* the frames played, with the device that played them

playbackVars == <<rxStop, rxSup, rxReader, decode, render, speaker, outputs, arrived, sounded>>

NoSpeaker == [at |-> "none", stop |-> FALSE, ring |-> <<>>, closed |-> FALSE]
Reader == <<rxStop, rxSup, rxReader, arrived>>
Device == <<speaker, outputs, sounded>>

PlaybackInit ==
    /\ rxStop = FALSE /\ rxSup = "select" /\ rxReader = "run"
    /\ decode = NewQueue(DecodeLimit)
    /\ render = [at |-> "check", frame |-> 0, next |-> "none"]
    /\ speaker = NoSpeaker /\ outputs = [opened |-> 0, recovering |-> FALSE]
    /\ arrived = 0 /\ sounded = {}

Over == {"ok", "failed"}

-----------------------------------------------------------------------------
(* The socket.                                                             *)

\* What the depacketizer passes on; without a queue the task is over.
Arrive ==
    /\ rxReader = "run" /\ ~rxStop /\ arrived < MaxFrames /\ arrived' = arrived + 1
    /\ decode' = Pushed(decode, outputs.opened)
    /\ rxReader' = IF decode.closed THEN "ok" ELSE rxReader
    /\ UNCHANGED <<rxStop, rxSup, render, Device>>

ReaderEnds ==
    /\ rxReader = "run"
    /\ \/ rxStop /\ rxReader' = "ok"
       \/ rxReader' = "failed"
    /\ UNCHANGED <<rxStop, rxSup, arrived, decode, render, Device>>

-----------------------------------------------------------------------------
(* The render thread.                                                      *)

RenderTo(at) == render' = [render EXCEPT !.at = at]

\* The output is dropped: its thread is told to stop and waited for.
DropOutput(next) ==
    /\ render' = [render EXCEPT !.at = "drop", !.next = next]
    /\ speaker' = [speaker EXCEPT !.stop = TRUE, !.closed = TRUE]

\* After an error of the device; only another kind of error ends the link.
Retried == IF rxStop THEN "ok" ELSE "retry"

RenderChecks ==
    /\ render.at = "check" /\ RenderTo(IF rxStop THEN "ok" ELSE "open")
    /\ UNCHANGED <<Reader, decode, Device>>

\* open() returns when the thread of the device reports how its start went.
OpenOutput ==
    /\ render.at = "open"
    /\ \/ /\ outputs.opened < MaxOutputs /\ outputs' = [outputs EXCEPT !.opened = @ + 1]
          /\ speaker' = [NoSpeaker EXCEPT !.at = "run"] /\ RenderTo("opened")
       \/ /\ outputs' = [outputs EXCEPT !.recovering = TRUE]
          /\ RenderTo(Retried) /\ UNCHANGED speaker
       \/ RenderTo("failed") /\ UNCHANGED <<speaker, outputs>>
    /\ UNCHANGED <<Reader, decode, sounded>>

\* Mutant: what came while the device was opened is played.
OpenedKeeps ==
    /\ render.at = "opened"
    /\ IF rxStop THEN DropOutput("ok") ELSE RenderTo("pop") /\ UNCHANGED speaker
    /\ UNCHANGED <<Reader, decode, outputs, sounded>>

Opened ==
    /\ render.at = "opened"
    /\ IF rxStop THEN DropOutput("ok")
       ELSE RenderTo(IF outputs.recovering THEN "window" ELSE "pop") /\ UNCHANGED speaker
    /\ UNCHANGED <<Reader, decode, outputs, sounded>>

\* discard_until, after the device was opened again and before the next attempt:
\* the queue is emptied until the time is over or the queue is closed.
Discard ==
    /\ render.at \in {"window", "retry"} /\ decode' = Emptied(decode)
    /\ \/ ~decode.closed /\ decode.items # <<>> /\ UNCHANGED <<render, speaker>>
       \/ /\ render.at = "window"
          /\ IF decode.closed \/ rxStop THEN DropOutput("ok") ELSE RenderTo("pop") /\ UNCHANGED speaker
       \/ /\ render.at = "retry" /\ RenderTo(IF decode.closed THEN "ok" ELSE "check") /\ UNCHANGED speaker
    /\ UNCHANGED <<Reader, outputs, sounded>>

\* decode_frames: the decoder sees every frame, also the ones that are too old.
RenderPops ==
    /\ render.at = "pop"
    /\ \/ decode.closed /\ DropOutput("ok") /\ UNCHANGED decode
       \/ /\ ~decode.closed /\ decode.items # <<>> /\ decode' = Popped(decode)
          /\ \/ DropOutput(IF rxStop THEN "ok" ELSE "failed")
             \/ /\ ~rxStop /\ UNCHANGED speaker
                /\ render' = IF Len(decode.items) - 1 > BacklogLimit THEN render
                             ELSE [render EXCEPT !.at = "submit", !.frame = Head(decode.items)]
    /\ UNCHANGED <<Reader, outputs, sounded>>

\* submit_frame: it waits for room in the ring, for a tenth of a second.
RenderSubmits ==
    /\ render.at = "submit"
    /\ \/ /\ ~speaker.closed /\ Len(speaker.ring) < RingLimit
          /\ speaker' = [speaker EXCEPT !.ring = Append(@, render.frame)]
          /\ RenderTo("pop") /\ UNCHANGED outputs
       \/ /\ speaker.closed \/ Len(speaker.ring) = RingLimit
          /\ DropOutput(Retried) /\ outputs' = [outputs EXCEPT !.recovering = TRUE]
    /\ UNCHANGED <<Reader, decode, sounded>>

RenderDrops ==
    /\ render.at = "drop" /\ speaker.at = "ended"
    /\ RenderTo(render.next) /\ speaker' = NoSpeaker
    /\ UNCHANGED <<Reader, decode, outputs, sounded>>

-----------------------------------------------------------------------------
(* The device thread.                                                      *)

SpeakerPlays ==
    /\ speaker.at = "run" /\ speaker.ring # <<>>
    /\ sounded' = sounded \cup {[frame |-> Head(speaker.ring), device |-> outputs.opened]}
    /\ speaker' = [speaker EXCEPT !.ring = Tail(@)]
    /\ UNCHANGED <<Reader, decode, render, outputs>>

\* The default device has changed or this one is gone; or it is told to stop.
SpeakerEnds ==
    /\ speaker.at = "run" /\ speaker' = [speaker EXCEPT !.at = "ended", !.closed = TRUE]
    /\ UNCHANGED <<Reader, decode, render, outputs, sounded>>

-----------------------------------------------------------------------------
(* The supervisor and the session.                                         *)

RenderOver == render.at \in Over
Supervised == Supervise(rxSup, rxStop, RenderOver \/ rxReader \in Over, RenderOver /\ rxReader \in Over)

\* Mutant: the stop is announced, and the queues stay open.
SuperviseOpen ==
    /\ Supervised # rxSup /\ rxSup' = Supervised
    /\ rxStop' = (rxStop \/ rxSup = "cancel")
    /\ UNCHANGED <<rxReader, arrived, decode, render, Device>>

PlaybackSupervises ==
    /\ Supervised # rxSup /\ rxSup' = Supervised
    /\ rxStop' = (rxStop \/ rxSup = "cancel")
    /\ decode' = IF rxSup = "close" THEN ClosedQueue(decode) ELSE decode
    /\ UNCHANGED <<rxReader, arrived, render, Device>>

\* AudioTaskHandle is stopped or dropped.
StopPlayback ==
    /\ ~rxStop /\ rxStop' = TRUE
    /\ UNCHANGED <<rxSup, rxReader, arrived, decode, render, Device>>

Render == RenderChecks \/ OpenOutput \/ Opened \/ Discard \/ RenderPops \/ RenderSubmits \/ RenderDrops

PlaybackNext ==
    \/ Arrive \/ ReaderEnds \/ Render \/ SpeakerPlays \/ SpeakerEnds
    \/ PlaybackSupervises \/ StopPlayback

\* The threads run on; a device reads its event at least twice a second.
PlaybackFairness ==
    /\ WF_playbackVars(Render) /\ WF_playbackVars(PlaybackSupervises)
    /\ WF_playbackVars(rxStop /\ ReaderEnds) /\ WF_playbackVars(speaker.stop /\ SpeakerEnds)

PlaybackSpec == PlaybackInit /\ [][PlaybackNext]_playbackVars /\ PlaybackFairness

-----------------------------------------------------------------------------
\* A device that replaces a lost one plays only what came after it was opened,
\* though frames are queued while there is none and while it is being opened.
FreshSound == \A s \in sounded : s.device > 1 => s.frame = s.device

\* A link that is stopped, or one of whose stages fails, comes to its end: no
\* thread stays in a wait for frames, for room or for its device.
PlaybackEnds ==
    rxStop \/ render.at = "failed" \/ rxReader \in Over
        ~> rxSup = "done" /\ RenderOver /\ rxReader \in Over /\ speaker.at = "none"
=============================================================================
