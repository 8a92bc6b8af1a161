--------------------------- MODULE MC_RtcpFeedback ---------------------------
(***************************************************************************)
(* Model-checking instance of RtcpFeedback.  The session is created just  *)
(* after boot (no keyframe request is due yet) or 20 s after it (the      *)
(* first video packet requests one).  Packets come half a second or a     *)
(* second apart over six seconds, enough to finish the ramp-up and reach  *)
(* the five-second REMB.  configure may ask for no interval at all, for   *)
(* 1.5 s, and for no bitrate or 300 kbps.                                *)
(***************************************************************************)
EXTENDS RtcpFeedback

MCStartTimes == {0, 20000000}
MCTickSteps == {500000, 1000000}
MCReqBitrates == {0, 300000}
MCReqIntervals == {0, 1500}
MCSsrcs == {1, 2}
=============================================================================
