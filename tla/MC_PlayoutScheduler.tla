------------------------- MODULE MC_PlayoutScheduler -------------------------
(***************************************************************************)
(* Model-checking instance of PlayoutScheduler.                            *)
(*                                                                         *)
(* The lists are extended timestamps as get_frames returns them.  Audio is *)
(* Opus (payload type 111, 48 kHz): 20 ms, a repeated timestamp, 50 ms,    *)
(* ending close to the video: with jitter either track may end first.      *)
(* Video (90 kHz) starts with a two-packet frame, then a one-packet frame  *)
(* 33 ms later and a two-packet frame 33 ms after that.  A sleep may       *)
(* overrun by 1 ms, and the thread may lose 7 ms before a clock read, more *)
(* than the 5 ms tolerance, so packets are also relayed late and the       *)
(* following ones must catch up.                                           *)
(***************************************************************************)
EXTENDS PlayoutScheduler

MCAFrames == <<0, 960, 960, 3360>>
MCVFrames == <<0, 0, 3000, 6000, 6000>>
MCAudioPt == 111
MCOvershoot == {0, 1000}
MCDelay == {0, 7000}

\* A video stream paused for one second (90000 ticks at 90 kHz): the gap is
\* 1000000 us.
MCVFramesPause == <<0, 90000>>
MCAFramesNone == <<>>
MCDelayNone == {0}
=============================================================================
