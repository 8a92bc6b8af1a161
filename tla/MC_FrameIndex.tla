---------------------------- MODULE MC_FrameIndex ----------------------------
(***************************************************************************)
(* Model-checking instance of FrameIndex.                                  *)
(*                                                                         *)
(* The 32-bit timestamp space is scaled down by 2^26 so that a wraparound  *)
(* fits in a handful of packets; the code's constants keep their ratios:   *)
(*   2^32 -> 64,  2*10^9 -> 30 (0.47 of the space),                       *)
(*   1162037327 ("ECHO" read as a big-endian uint32) -> 17 (0.27),         *)
(*   10^6 -> 3, the smallest value above the largest timestamp distance    *)
(*   of two adjacent out-of-order packets, which is what it is there for.  *)
(* Sequence numbers keep their real 16-bit values.                         *)
(*                                                                         *)
(* A container is a header followed by N RTP packets of one stream: the    *)
(* stream starts at s1, each packet advances the timestamp by 0 (same      *)
(* frame), 1 or 2 modulo 2^32, the source may restart its clock at packet  *)
(* r with timestamp s2, sequence numbers count up from seq0 modulo 2^16,   *)
(* and two adjacent packets may be written in swapped order.               *)
(***************************************************************************)
EXTENDS FrameIndex, TLC

MCTsWrap    == 64
MCHeadroom  == 3
MCResetGap  == 30
MCPhantomTs == 17

N == 4

Hdr(k) == [kind |-> k, ts |-> 0, seq |-> 0, rank |-> 0]

\* Raw timestamps of the N packets, in capture order.
Capture(s1, inc, r, s2) ==
  LET ts[k \in 1..N] ==
        IF k = 1 THEN s1
        ELSE IF k = r THEN s2
        ELSE (ts[k - 1] + inc[k - 1]) % MCTsWrap
  IN ts

Packets(caps, seq0) ==
  [k \in 1..N |-> [kind |-> "rtp", ts |-> caps[k],
                   seq |-> (seq0 + k - 1) % 65536, rank |-> k]]

SwapAdj(s, i) ==
  IF i = 0 THEN s ELSE [s EXCEPT ![i] = s[i + 1], ![i + 1] = s[i]]

Jump(caps, k) == caps[k] < caps[k - 1]

\* Every backward jump is one the code is meant to compensate: a wraparound
\* or a clock restart of more than the reset threshold, clear of it by more
\* than the timestamp distance of two swapped packets (2), as a real 2*10^9
\* jump is clear of reordering jitter.
IsReset(caps) == \A k \in 2..N : Jump(caps, k) => caps[k - 1] - caps[k] > MCResetGap + 2

\* A wraparound or restart lands exactly on timestamp 0.
LandsOnZero(caps) == \E k \in 2..N : Jump(caps, k) /\ caps[k] = 0

\* A packet after a restart has a timestamp above the info-header phantom.
AbovePhantom(caps) ==
  \E k \in 2..N : (\E j \in 2..k : Jump(caps, j)) /\ caps[k] > MCPhantomTs - MCHeadroom

Params ==
  {"legacy", "info"} \X {0, 1, 10, 16, 17, 18, 40, 51, 55, 58, 59, 60, 61, 62, 63}
    \X [1..(N - 1) -> {0, 1, 2}] \X {0, 2, 3, 4} \X {3, 20} \X {0, 65534} \X (0..3)

Build(p) ==
  <<Hdr(p[1])>> \o SwapAdj(Packets(Capture(p[2], p[3], p[4], p[5]), p[6]), p[7])

CapsOf(p) == Capture(p[2], p[3], p[4], p[5])

\* Streams the index builder is meant to order, leaving out the two triggers
\* the violation runs below exhibit, and a reordering of the very first
\* packet across a reset, which the 10^6 headroom does not cover.
PassParams ==
  { p \in Params :
      /\ IsReset(CapsOf(p))
      /\ ~LandsOnZero(CapsOf(p))
      /\ ~(p[1] = "info" /\ AbovePhantom(CapsOf(p)))
      /\ ~(p[7] = 1 /\ Jump(CapsOf(p), 2)) }

P1 == [kind |-> "rtp", ts |-> 5, seq |-> 7, rank |-> 1]
P2 == [kind |-> "rtp", ts |-> 6, seq |-> 8, rank |-> 2]

\* Containers the scan rejects or partly skips.
FormatFiles ==
  { <<Hdr("badmagic")>>,
    <<Hdr("badinfo"), P1>>,
    <<Hdr("badlegacy"), P1>>,
    <<Hdr("legacy"), P1, Hdr("badmagic")>>,
    <<Hdr("legacy"), P1, Hdr("short"), P2>>,
    <<Hdr("legacy"), P1, Hdr("badlegacy"), P2>> }

MCFilesPass == { Build(p) : p \in PassParams } \cup FormatFiles

\* Legacy containers whose stream wraps around exactly onto timestamp 0.
MCFilesZeroWrap ==
  { Build(p) : p \in { p \in Params :
                         /\ p[1] = "legacy" /\ p[4] = 0 /\ p[6] = 0 /\ p[7] = 0
                         /\ LandsOnZero(CapsOf(p)) } }

\* New-format containers whose source restarts its clock (a reset) at a
\* timestamp above the phantom first_ts.
MCFilesPhantom ==
  { Build(p) : p \in { p \in Params :
                         /\ p[1] = "info" /\ p[4] # 0 /\ p[6] = 0 /\ p[7] = 0
                         /\ IsReset(CapsOf(p)) /\ ~LandsOnZero(CapsOf(p))
                         /\ AbovePhantom(CapsOf(p)) } }
=============================================================================
