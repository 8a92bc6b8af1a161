----------------------------- MODULE RtcpFeedback -----------------------------
(***************************************************************************)
(* The feedback a recording session sends its publisher:                   *)
(* janus_auviousrecordplay_send_rtcp_feedback, called by incoming_rtp for  *)
(* every packet that passes the simulcast filter, with the settings that   *)
(* create_session gives a session and "configure" changes.                 *)
(*                                                                         *)
(* Time is janus_get_monotonic_time() in microseconds.  The session's      *)
(* PeerConnection can go down (hangup_media) and come up again on the same *)
(* handle; the feedback state belongs to the session and outlives it.      *)
(* Audio packets are not modelled: send_rtcp_feedback returns at once for  *)
(* them and the recorder write they cause is modelled in Lifecycle.        *)
(***************************************************************************)
EXTENDS Integers

CONSTANTS
  StartTimes,    \* monotonic clock values at create_session
  TickSteps,     \* microseconds between two packets or events
  MaxTime,       \* bound: how far past create_session the clock runs
  MaxPkts,       \* bound: video packets the publisher sends
  MaxSetups,     \* bound: PeerConnections on the handle
  ReqBitrates,   \* JSON integers "video-bitrate-max" may carry
  ReqIntervals,  \* JSON integers "video-keyframe-interval" may carry
  Ssrcs          \* SSRCs of the publisher's video substreams, none 0

\* The fields are guint / guint32 and json_integer_value is 64-bit, so a
\* JSON value of 2^32 or more would be truncated; TLC's integers stop at
\* 2^31 - 1, so the inputs stay below 2^31, where storing them is exact.
ASSUME /\ ReqBitrates \subseteq 0..2147483647 /\ ReqIntervals \subseteq 0..2147483647
       /\ Ssrcs \subseteq Nat \ {0}

USecPerSec == 1000000   \* G_USEC_PER_SEC
RampUp     == 4         \* session->video_remb_startup at create_session
RembPeriod == 5 * USecPerSec

VARIABLES
  now,
  t0,            \* history: the clock at create_session
  up,            \* a PeerConnection is up (handle->stopped is 0)
  setups,        \* PeerConnections set up so far
  ssrc,          \* session->simulcast_ssrc
  startup,       \* session->video_remb_startup
  rembLast,      \* session->video_remb_last
  bitrate,       \* session->video_bitrate
  kfInterval,    \* session->video_keyframe_interval (ms)
  kfLast,        \* session->video_keyframe_request_last
  pkts,          \* history: video packets received
  fed,           \* history: video packets passed to send_rtcp_feedback
  out            \* history: what the last step sent: remb (or -1), pli

vars == <<now, t0, up, setups, ssrc, startup, rembLast, bitrate, kfInterval,
          kfLast, pkts, fed, out>>

NoOut == [remb |-> -1, pli |-> FALSE]

\* create_session (lines 803-807).
Init ==
  /\ now \in StartTimes /\ t0 = now
  /\ up = FALSE /\ setups = 0 /\ ssrc = 0
  /\ startup = RampUp /\ rembLast = now /\ bitrate = 1024 * 1024
  /\ kfLast = 0 /\ kfInterval = 15000
  /\ pkts = 0 /\ fed = 0 /\ out = NoOut

Tick ==
  /\ \E d \in TickSteps : now' = now + d /\ now' <= t0 + MaxTime
  /\ out' = NoOut
  /\ UNCHANGED <<t0, up, setups, ssrc, startup, rembLast, bitrate, kfInterval,
                 kfLast, pkts, fed>>

\* setup_media brings a PeerConnection up; "record" with a JSEP that
\* negotiated simulcast sets simulcast_ssrc to its "ssrc-0", which is 0
\* when the JSEP has none.
SetupMedia ==
  /\ ~up /\ setups < MaxSetups
  /\ up' = TRUE /\ setups' = setups + 1
  /\ \E s \in Ssrcs \cup {0} : ssrc' = s
  /\ out' = NoOut
  /\ UNCHANGED <<now, t0, startup, rembLast, bitrate, kfInterval, kfLast,
                 pkts, fed>>

\* The core stops the handle and hangup_media_internal clears
\* simulcast_ssrc; nothing resets the feedback state.
HangupMedia ==
  /\ up
  /\ up' = FALSE /\ ssrc' = 0
  /\ out' = NoOut
  /\ UNCHANGED <<now, t0, setups, startup, rembLast, bitrate, kfInterval,
                 kfLast, pkts, fed>>

\* "configure", answered synchronously by handle_message: each of the two
\* settings is optional.
Configure ==
  /\ \E b \in ReqBitrates \cup {-1}, k \in ReqIntervals \cup {-1} :
       /\ b # -1 \/ k # -1
       /\ bitrate' = IF b = -1 THEN bitrate ELSE b
       /\ kfInterval' = IF k = -1 THEN kfInterval ELSE k
  /\ out' = NoOut
  /\ UNCHANGED <<now, t0, up, setups, ssrc, startup, rembLast, kfLast, pkts, fed>>

\* incoming_rtp drops a video packet of any other substream than the base.
RtpDropped(s) ==
  /\ ssrc # 0 /\ s # ssrc
  /\ out' = NoOut
  /\ UNCHANGED <<startup, rembLast, kfLast, fed>>

\* A keyframe request is due: the interval in ms, truncated to whole
\* seconds, has passed since the last one.
KeyframeDue == now - kfLast >= (kfInterval \div 1000) * USecPerSec

\* Fault variant: video_remb_startup-- outside the ramp-up branch.
RampDown_Always == startup' = startup - 1

\* Fault variant: the ramp-up counter is never decremented.
RampDown_Never == startup' = startup

RampDown == startup' = IF startup > 0 THEN startup - 1 ELSE startup

\* send_rtcp_feedback for a video packet.
Feedback ==
  LET rampup == startup > 0
      remb   == rampup \/ now - rembLast >= RembPeriod
      br     == IF rampup THEN bitrate \div startup ELSE bitrate
  IN  /\ RampDown
      /\ rembLast' = IF remb THEN now ELSE rembLast
      /\ kfLast' = IF KeyframeDue THEN now ELSE kfLast
      /\ out' = [remb |-> IF remb THEN br ELSE -1, pli |-> KeyframeDue]
      /\ fed' = fed + 1

IncomingRtp ==
  /\ up /\ pkts < MaxPkts
  /\ \E s \in Ssrcs :
       /\ pkts' = pkts + 1
       /\ RtpDropped(s) \/ ((ssrc = 0 \/ s = ssrc) /\ Feedback)
  /\ UNCHANGED <<now, t0, up, setups, ssrc, bitrate, kfInterval>>

Next == Tick \/ SetupMedia \/ HangupMedia \/ Configure \/ IncomingRtp

Spec == Init /\ [][Next]_vars

-----------------------------------------------------------------------------
TypeOK ==
  /\ up \in BOOLEAN /\ setups \in 0..MaxSetups /\ ssrc \in Ssrcs \cup {0}
  /\ startup \in 0..RampUp /\ fed \in 0..pkts /\ pkts \in 0..MaxPkts
  /\ bitrate \in Nat /\ kfInterval \in Nat
  /\ rembLast \in t0..now /\ (kfLast = 0 \/ kfLast \in t0..now)
  /\ out \in [remb : {-1} \cup Nat, pli : BOOLEAN]

\* The first four video packets fed back in a session each carry a REMB of
\* a quarter, a third, a half and all of the bitrate configured at that
\* moment, however far apart they come; after them a REMB goes out exactly
\* when five seconds have passed since the last one.
RembRampUp ==
  [][fed' = fed + 1 =>
       IF fed' <= RampUp
       THEN out'.remb = bitrate \div (RampUp + 1 - fed')
       ELSE out'.remb # -1 <=> now - rembLast >= RembPeriod]_vars
=============================================================================
