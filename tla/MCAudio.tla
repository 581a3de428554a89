------------------------------- MODULE MCAudio -------------------------------
(***************************************************************************)
(* A sound link: the datagrams between its two ends, four blocks that      *)
(* cross the end of the sequence numbers; the threads of the receiving     *)
(* end; and those of the sending end.  A behaviour is one of one of them,  *)
(* with the others over.                                                   *)
(***************************************************************************)
EXTENDS AudioStream, AudioPlayback, AudioCapture

AudioOver ==
    /\ next = [block |-> LastBlock + 1, place |-> 1] /\ late = {}
    /\ seen = [highest |-> 0, window |-> {}]
    /\ startup = [drop |-> 0, some |-> TRUE]
    /\ queue = [blocks |-> <<>>, next |-> 0, oldest |-> 0, lastLate |-> 0, lates |-> FALSE,
                syncing |-> TRUE, started |-> FALSE]
    /\ heard = <<>>

PlaybackOver ==
    /\ rxStop = TRUE /\ rxSup = "done" /\ rxReader = "ok"
    /\ decode = ClosedQueue(NewQueue(DecodeLimit))
    /\ render = [at |-> "ok", frame |-> 0, next |-> "none"]
    /\ speaker = NoSpeaker /\ outputs = [opened |-> 0, recovering |-> FALSE]
    /\ arrived = 0 /\ sounded = {}

CaptureOver ==
    /\ txStop = TRUE /\ txSup = "done"
    /\ capture = [at |-> "ok", frame |-> <<>>, next |-> "none"]
    /\ mic = NoMic /\ mics = 0 /\ recorded = 0
    /\ frames = ClosedQueue(NewQueue(SampleLimit)) /\ packets = ClosedQueue(NewQueue(PacketLimit))
    /\ encoder = "ok" /\ transmit = "ok" /\ sent = <<>>

LinkInit ==
    \/ AudioInit /\ PlaybackOver /\ CaptureOver
    \/ AudioOver /\ PlaybackInit /\ CaptureOver
    \/ AudioOver /\ PlaybackOver /\ CaptureInit

LinkNext ==
    \/ AudioNext /\ UNCHANGED <<playbackVars, captureVars>>
    \/ PlaybackNext /\ UNCHANGED <<audioVars, captureVars>>
    \/ CaptureNext /\ UNCHANGED <<audioVars, playbackVars>>

linkVars == <<audioVars, playbackVars, captureVars>>

LinkSpec ==
    /\ LinkInit /\ [][LinkNext]_linkVars
    /\ AudioFairness /\ PlaybackFairness /\ CaptureFairness

-----------------------------------------------------------------------------
\* What comes out of either end was made after its device was opened: what waited
\* while there was none is not played, and a frame is not pieced together from
\* what was recorded before and after.
SoundIsFresh == FreshSound /\ WholeFrames

\* The sound is that of the peer: each frame at its place and played once, whatever
\* the network does, and none of it from before the device that plays it.
SoundIsTrue == FramesInOrder /\ SoundIsFresh

\* Either end of a link that is stopped or fails comes to its end.
LinkEnds == PlaybackEnds /\ CaptureEnds
=============================================================================
