--------------------------- MODULE PlayoutScheduler ---------------------------
(***************************************************************************)
(* janus_auviousrecordplay_playout_thread: the thread that replays the     *)
(* audio and video frame lists of one viewer at their recorded cadence.   *)
(*                                                                         *)
(* A frame list is the sequence of the extended timestamps of its packets  *)
(* (what the thread reads of a frame packet); <<>> is a NULL list.  The    *)
(* cursors audio and video are indices into the lists; Len + 1 is NULL.    *)
(* Time is the monotonic wall clock in microseconds.  A struct timeval     *)
(* reference (abefore, vbefore) is represented by its total value          *)
(* tv_sec * 10^6 + tv_usec: the code's tv_usec normalisations leave that   *)
(* total unchanged and "passed" is computed from it exactly.               *)
(***************************************************************************)
EXTENDS Integers, Sequences, Functions

CONSTANTS
  AFrames,      \* session->aframes
  VFrames,      \* session->vframes
  AudioPt,      \* recording->audio_pt
  Overshoot,    \* extra microseconds a g_usleep(5000) may take
  Delay,        \* microseconds the thread may lose before reading the clock
  OpenMayFail   \* whether fopen of a recording file may fail at start

ASSUME /\ AFrames \in Seq(Nat) /\ VFrames \in Seq(Nat)
       /\ AFrames # <<>> \/ VFrames # <<>>
       /\ Overshoot \subseteq Nat /\ Delay \subseteq Nat
       /\ OpenMayFail \in BOOLEAN

IdleSleep == 5000   \* g_usleep(5000) when a round sent nothing
Early     == 5000   \* a packet may go out this much before its time

akhz == IF AudioPt \in {0, 8, 9} THEN 8 ELSE 48
vkhz == 90

VARIABLES
  pc,               \* "open", "top", "audio", "video", "teardown", "done"
  now,
  audio, video,     \* cursors
  abefore, vbefore, \* per-track reference instants
  asent, vsent,
  cancelled,        \* session->destroyed, !session->active or rec->destroyed
  closed,           \* gateway->close_pc has been called
  alog, vlog,       \* history: the time each packet was relayed
  cut               \* history: the cursors when cancellation happened

vars == <<pc, now, audio, video, abefore, vbefore, asent, vsent, cancelled,
          closed, alog, vlog, cut>>

-----------------------------------------------------------------------------
\* ts_diff = ((current->ts - current->prev->ts) * 1000) / khz
GapUs(F, i, khz) == ((F[i] - F[i - 1]) * 1000) \div khz

\* How far the timeval reference moves for a gap: tv_usec += gap % 10^6 and
\* tv_sec += gap / 10^6, then tv_usec -= gap / 10^6 as well.
RefAdvance(gap) == gap - (IF gap \div 1000000 > 0 THEN gap \div 1000000 ELSE 0)

\* Index after the run of video packets that share the timestamp of i.
NextFrame(i) ==
  LET same == {j \in i..Len(VFrames) : \A m \in i..j : VFrames[m] = VFrames[i]}
  IN  1 + CHOOSE j \in same : \A m \in same : m <= j

\* Fault variant: the loop ignores session->active and the destroyed flags.
Running_NoCancel == audio <= Len(AFrames) \/ video <= Len(VFrames)

\* Fault variant: the loop runs while both tracks have packets left.
Running_BothTracks == ~cancelled /\ audio <= Len(AFrames) /\ video <= Len(VFrames)

\* The loop condition at the top of every round.
Running == ~cancelled /\ (audio <= Len(AFrames) \/ video <= Len(VFrames))

-----------------------------------------------------------------------------
Open ==
  /\ pc = "open"
  /\ pc' = "top"
  /\ UNCHANGED <<now, audio, video, abefore, vbefore, asent, vsent, cancelled,
                 closed, alog, vlog, cut>>

\* fopen of a recording file fails: the thread returns at once, without
\* freeing the lists, leaving the viewer list or calling close_pc.
OpenFail ==
  /\ pc = "open" /\ OpenMayFail
  /\ pc' = "done"
  /\ UNCHANGED <<now, audio, video, abefore, vbefore, asent, vsent, cancelled,
                 closed, alog, vlog, cut>>

\* Top of the loop: sleep 5 ms if the previous round sent nothing.
Loop ==
  /\ pc = "top" /\ Running
  /\ \E o \in Overshoot :
       now' = IF ~asent /\ ~vsent THEN now + IdleSleep + o ELSE now
  /\ asent' = FALSE /\ vsent' = FALSE
  /\ pc' = "audio"
  /\ UNCHANGED <<audio, video, abefore, vbefore, cancelled, closed, alog, vlog, cut>>

LoopExit ==
  /\ pc = "top" /\ ~Running
  /\ pc' = "teardown"
  /\ UNCHANGED <<now, audio, video, abefore, vbefore, asent, vsent, cancelled,
                 closed, alog, vlog, cut>>

\* The values one read of the clock may return: the thread may have lost
\* some time before it.
\* Fault variant: a clock read may step back (a wall clock adjusted
\* backwards), as gettimeofday can.
Clock_StepsBack == {now - d : d \in Delay}

Clock == {now + d : d \in Delay}

AudioStep(t) ==
  /\ pc = "audio" /\ pc' = "video" /\ now' = t
  /\ UNCHANGED <<video, vbefore, vsent, cancelled, closed, vlog, cut>>

AudioNone ==
  /\ audio > Len(AFrames)
  /\ AudioStep(now)
  /\ UNCHANGED <<audio, abefore, asent, alog>>

\* First packet: send now and take the reference time.
AudioFirst ==
  /\ audio = 1 /\ audio <= Len(AFrames)
  /\ \E t \in Clock : AudioStep(t) /\ abefore' = t /\ alog' = Append(alog, t)
  /\ asent' = TRUE /\ audio' = audio + 1

AudioWait ==
  /\ 1 < audio /\ audio <= Len(AFrames)
  /\ \E t \in Clock : AudioStep(t) /\ t - abefore < GapUs(AFrames, audio, akhz) - Early
  /\ UNCHANGED <<audio, abefore, asent, alog>>

\* Fault variant: the early tolerance doubled.
AudioSend_WideTolerance ==
  /\ 1 < audio /\ audio <= Len(AFrames)
  /\ \E t \in Clock :
       /\ AudioStep(t)
       /\ t - abefore >= GapUs(AFrames, audio, akhz) - 2 * Early
       /\ alog' = Append(alog, t)
  /\ abefore' = abefore + RefAdvance(GapUs(AFrames, audio, akhz))
  /\ asent' = TRUE /\ audio' = audio + 1

\* Due: move the reference by the gap, then relay the packet.
AudioSend ==
  /\ 1 < audio /\ audio <= Len(AFrames)
  /\ \E t \in Clock :
       /\ AudioStep(t)
       /\ t - abefore >= GapUs(AFrames, audio, akhz) - Early
       /\ alog' = Append(alog, t)
  /\ abefore' = abefore + RefAdvance(GapUs(AFrames, audio, akhz))
  /\ asent' = TRUE /\ audio' = audio + 1

VideoStep(t) ==
  /\ pc = "video" /\ pc' = "top" /\ now' = t
  /\ UNCHANGED <<audio, abefore, asent, cancelled, closed, alog, cut>>

\* Relay every packet of the frame starting at the cursor, all at time t.
SendFrame(t) ==
  /\ video' = NextFrame(video)
  /\ vlog' = vlog \o [i \in 1..(NextFrame(video) - video) |-> t]
  /\ vsent' = TRUE

VideoNone ==
  /\ video > Len(VFrames)
  /\ VideoStep(now)
  /\ UNCHANGED <<video, vbefore, vsent, vlog>>

VideoFirst ==
  /\ video = 1 /\ video <= Len(VFrames)
  /\ \E t \in Clock : VideoStep(t) /\ SendFrame(t) /\ vbefore' = t

VideoWait ==
  /\ 1 < video /\ video <= Len(VFrames)
  /\ \E t \in Clock : VideoStep(t) /\ t - vbefore < GapUs(VFrames, video, vkhz) - Early
  /\ UNCHANGED <<video, vbefore, vsent, vlog>>

VideoSend ==
  /\ 1 < video /\ video <= Len(VFrames)
  /\ \E t \in Clock :
       /\ VideoStep(t)
       /\ t - vbefore >= GapUs(VFrames, video, vkhz) - Early
       /\ SendFrame(t)
  /\ vbefore' = vbefore + RefAdvance(GapUs(VFrames, video, vkhz))

\* After the loop: free the lists, leave rec->viewers, close_pc.
Teardown ==
  /\ pc = "teardown"
  /\ pc' = "done" /\ closed' = TRUE
  /\ UNCHANGED <<now, audio, video, abefore, vbefore, asent, vsent, cancelled,
                 alog, vlog, cut>>

\* hangup_media, destroy_session or the recording's destruction, from
\* another thread, at any time.
Cancel ==
  /\ ~cancelled /\ pc # "done"
  /\ cancelled' = TRUE
  /\ cut' = <<audio, video>>
  /\ UNCHANGED <<pc, now, audio, video, abefore, vbefore, asent, vsent, closed,
                 alog, vlog>>

-----------------------------------------------------------------------------
Init ==
  /\ pc = "open"
  /\ now = 0
  /\ audio = 1 /\ video = 1
  /\ abefore = 0 /\ vbefore = 0
  /\ asent = FALSE /\ vsent = FALSE
  /\ cancelled = FALSE /\ closed = FALSE
  /\ alog = <<>> /\ vlog = <<>>
  /\ cut = <<0, 0>>

Thread ==
  \/ Open \/ OpenFail \/ Loop \/ LoopExit
  \/ AudioNone \/ AudioFirst \/ AudioWait \/ AudioSend
  \/ VideoNone \/ VideoFirst \/ VideoWait \/ VideoSend
  \/ Teardown

Next == Thread \/ Cancel

\* The playout thread is a dedicated OS thread: it keeps being scheduled.
Spec == Init /\ [][Next]_vars /\ WF_vars(Thread)

-----------------------------------------------------------------------------
TypeOK ==
  /\ pc \in {"open", "top", "audio", "video", "teardown", "done"}
  /\ now \in Nat /\ abefore \in Nat /\ vbefore \in Nat
  /\ audio \in 1..(Len(AFrames) + 1) /\ video \in 1..(Len(VFrames) + 1)
  /\ {asent, vsent, cancelled, closed} \subseteq BOOLEAN
  /\ alog \in Seq(Nat) /\ vlog \in Seq(Nat)

\* Sum of the per-packet gaps from packet 1 to packet k of a list.
Offset(F, k, khz) == SumFunction([i \in 2..k |-> GapUs(F, i, khz)])

\* The reference instant of each track is the time its first packet went
\* out plus exactly the recorded gaps of the packets sent since: it is
\* advanced by the expected gap, never by measured time, so scheduling
\* jitter does not accumulate into drift.
AnchorExact ==
  /\ alog # <<>> => abefore = alog[1] + Offset(AFrames, Len(alog), akhz)
  /\ vlog # <<>> => vbefore = vlog[1] + Offset(VFrames, Len(vlog), vkhz)

\* No packet is relayed more than 5 ms ahead of the recorded cadence,
\* measured from the first packet of its track.
NotEarly ==
  /\ \A k \in 2..Len(alog) : alog[k] >= alog[1] + Offset(AFrames, k, akhz) - Early
  /\ \A k \in 2..Len(vlog) : vlog[k] >= vlog[1] + Offset(VFrames, k, vkhz) - Early

\* Cancellation takes effect within one round: after it, at most one more
\* audio packet and one more video frame are relayed.
CancelWithinRound ==
  cancelled =>
    /\ audio <= cut[1] + 1
    /\ video <= IF cut[2] <= Len(VFrames) THEN NextFrame(cut[2]) ELSE cut[2]

\* The thread always finishes: it relays every packet of both tracks unless
\* it is cancelled, and then tears the PeerConnection down.
Completion ==
  <>(pc = "done" /\ closed /\ (cancelled \/ (audio > Len(AFrames) /\ video > Len(VFrames))))

\* Once both recording files are open, the thread always finishes the same
\* way: it relays every packet of both tracks unless it is cancelled, and
\* then tears the PeerConnection down.  (Completion asks the same from the
\* start, which a failed fopen breaks.)
CompletionOnceOpen ==
  pc = "top" ~> (pc = "done" /\ closed /\ (cancelled \/ (audio > Len(AFrames) /\ video > Len(VFrames))))
=============================================================================
