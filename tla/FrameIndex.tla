----------------------------- MODULE FrameIndex -----------------------------
(***************************************************************************)
(* janus_auviousrecordplay_get_frames: the two-pass scan of one .mjr       *)
(* container that builds the ordered list of frame packets used for        *)
(* playout.                                                                *)
(*                                                                         *)
(* A container is a sequence of records.  The byte-level layout is         *)
(* abstracted to what the scan distinguishes:                              *)
(*   "info"      'J' record, len > 0, JSON info header that parses         *)
(*   "badinfo"   'J' info header whose JSON or t/c/s/u fields are invalid  *)
(*   "legacy"    'E' record, len = 5, starting with 'a' or 'v'             *)
(*   "badlegacy" 'E' record, len = 5, of another media type                *)
(*   "short"     'E' record with len < 12 (and not 5): not RTP             *)
(*   "rtp"       'E' record with len >= 12: an RTP packet (ts, seq)        *)
(*   "badmagic"  a record that does not start with 'M', or a short read    *)
(* "rank" is a history field, not in the file: the position of the packet *)
(* in capture order, used only to state what the index must achieve.       *)
(* Each loop iteration of a pass is one action; offset is the index of     *)
(* the record the iteration reads.                                         *)
(***************************************************************************)
EXTENDS Integers, Sequences, SequencesExt

CONSTANTS
  TsWrap,     \* 2^32: width of the RTP timestamp, added to post-reset packets
  Headroom,   \* 1000*1000: subtracted from the first timestamp seen
  ResetGap,   \* 2*1000*1000*1000: a backward jump larger than this is a reset
  PhantomTs,  \* value of bytes 4..7 of the record after the info header
  Files       \* the containers the function may be given

ASSUME /\ TsWrap \in Nat \ {0}
       /\ Headroom \in Nat /\ ResetGap \in Nat /\ PhantomTs \in 0..(TsWrap - 1)

SeqGap == 10000     \* sequence numbers further apart than this have wrapped

Kinds == {"info", "badinfo", "legacy", "badlegacy", "short", "rtp", "badmagic"}

VARIABLES
  file,           \* the container being scanned
  stage,          \* "prescan" (pass 1), "index" (pass 2), "done", "failed"
  offset,         \* index of the record the current iteration reads
  parsed_header,
  first_ts, last_ts, reset,
  list            \* the frame packets, head first: [seq, ts, rank]

vars == <<file, stage, offset, parsed_header, first_ts, last_ts, reset, list>>

Rec == file[offset]

-----------------------------------------------------------------------------
(* Pass 1: look for timestamp resets.                                      *)

\* The reset bookkeeping done on each RTP timestamp read in pass 1.
NextReset(ts) ==
  CASE last_ts = 0  -> reset
    [] ts < last_ts -> IF last_ts - ts > ResetGap THEN ts ELSE reset
    [] OTHER        -> IF ts < reset THEN ts ELSE reset

\* Fault variant: the "first_ts > 1000*1000" guard dropped.
ObserveTs_NoHeadroomGuard(ts) ==
  /\ first_ts' = IF last_ts = 0 THEN ts - Headroom ELSE first_ts
  /\ reset'    = NextReset(ts)
  /\ last_ts'  = ts

ObserveTs(ts) ==
  /\ first_ts' = IF last_ts = 0
                   THEN IF ts > Headroom THEN ts - Headroom ELSE ts
                   ELSE first_ts
  /\ reset'    = NextReset(ts)
  /\ last_ts'  = ts

PrescanStep ==
  /\ stage = "prescan" /\ offset <= Len(file)
  /\ offset' = offset + 1
  /\ UNCHANGED <<file, stage, list>>

\* Bad magic, or a first header that cannot be used: the function returns NULL.
PrescanFail ==
  /\ stage = "prescan" /\ offset <= Len(file)
  /\ \/ Rec.kind = "badmagic"
     \/ Rec.kind \in {"badinfo", "badlegacy"} /\ ~parsed_header
  /\ stage' = "failed"
  /\ UNCHANGED <<file, offset, parsed_header, first_ts, last_ts, reset, list>>

\* Old-format header: note it and continue with the next record.
PrescanLegacy ==
  /\ PrescanStep
  /\ Rec.kind = "legacy" /\ ~parsed_header
  /\ parsed_header' = TRUE
  /\ UNCHANGED <<first_ts, last_ts, reset>>

\* New-format info header.  The branch does not skip to the next record: it
\* falls through to the "only read RTP header" read, which takes 16 bytes
\* starting at the next record's magic, so bytes 4..7 of that magic are used
\* as an RTP timestamp.
PrescanInfo ==
  /\ PrescanStep
  /\ Rec.kind = "info" /\ ~parsed_header
  /\ parsed_header' = TRUE
  /\ ObserveTs(PhantomTs)

\* Records that are not RTP (len < 12) are skipped.
PrescanSkip ==
  /\ PrescanStep
  /\ \/ Rec.kind = "short"
     \/ Rec.kind \in {"legacy", "badlegacy"} /\ parsed_header
  /\ UNCHANGED <<parsed_header, first_ts, last_ts, reset>>

PrescanRtp ==
  /\ PrescanStep
  /\ Rec.kind = "rtp"
  /\ ObserveTs(Rec.ts)
  /\ UNCHANGED parsed_header

PrescanEnd ==
  /\ stage = "prescan" /\ offset > Len(file)
  /\ stage' = "index" /\ offset' = 1
  /\ UNCHANGED <<file, parsed_header, first_ts, last_ts, reset, list>>

-----------------------------------------------------------------------------
(* Pass 2: build the ordered list.                                         *)

\* The 64-bit timestamp given to a packet: post-reset packets are moved 2^32
\* ahead.
\* Fault variant: post-reset packets are not moved 2^32 ahead.
ExtTs_NoReset(ts) == ts

ExtTs(ts) ==
  IF reset = 0 \/ ts > first_ts THEN ts ELSE TsWrap + ts

\* The sequence-number tests under which the new packet goes after tmp.
SeqBefore(a, b) ==
  \/ a < b /\ b - a < SeqGap
  \/ a > b /\ a - b > SeqGap

\* Fault variant: equal timestamps always append, ignoring sequence numbers.
GoesAfter_TsOnly(tmp, p) == tmp.ts <= p.ts

GoesAfter(tmp, p) ==
  \/ tmp.ts < p.ts
  \/ tmp.ts = p.ts /\ SeqBefore(tmp.seq, p.seq)

\* Walking back from the tail, p is linked after the first node it goes
\* after; when there is none it becomes the new head.
InsertFrame(l, p) ==
  InsertAt(l, SelectLastInSeq(l, LAMBDA tmp : GoesAfter(tmp, p)) + 1, p)

IndexStep ==
  /\ stage = "index" /\ offset <= Len(file)
  /\ offset' = offset + 1
  /\ UNCHANGED <<file, stage, parsed_header, first_ts, last_ts, reset>>

IndexSkip ==
  /\ IndexStep
  /\ Rec.kind # "rtp"
  /\ UNCHANGED list

IndexRtp ==
  /\ IndexStep
  /\ Rec.kind = "rtp"
  /\ list' = InsertFrame(list, [seq |-> Rec.seq, ts |-> ExtTs(Rec.ts),
                                rank |-> Rec.rank])

IndexEnd ==
  /\ stage = "index" /\ offset > Len(file)
  /\ stage' = "done"
  /\ UNCHANGED <<file, offset, parsed_header, first_ts, last_ts, reset, list>>

-----------------------------------------------------------------------------
Init ==
  /\ file \in Files
  /\ stage = "prescan"
  /\ offset = 1
  /\ parsed_header = FALSE
  /\ first_ts = 0 /\ last_ts = 0 /\ reset = 0
  /\ list = <<>>

Next ==
  \/ PrescanFail \/ PrescanLegacy \/ PrescanInfo \/ PrescanSkip
  \/ PrescanRtp \/ PrescanEnd
  \/ IndexSkip \/ IndexRtp \/ IndexEnd

Spec == Init /\ [][Next]_vars

\* The function returns; nothing more happens.
Returned == stage \in {"done", "failed"}

-----------------------------------------------------------------------------
TypeOK ==
  /\ stage \in {"prescan", "index", "done", "failed"}
  /\ offset \in 1..(Len(file) + 1)
  /\ parsed_header \in BOOLEAN
  /\ {first_ts, last_ts, reset} \subseteq 0..(TsWrap - 1)
  /\ \A i \in DOMAIN list : list[i].ts \in 0..(2 * TsWrap - 1)

\* The returned index is ordered as its comment says: timestamps never go
\* backwards along the list, and two packets of one timestamp are never in
\* reverse (wraparound-aware) sequence-number order.
IndexOrdered ==
  stage = "done" =>
    /\ \A i, j \in DOMAIN list : i < j => list[i].ts <= list[j].ts
    /\ \A i \in 1..(Len(list) - 1) :
         list[i].ts = list[i + 1].ts => ~SeqBefore(list[i + 1].seq, list[i].seq)

\* Playout order is capture order: across out-of-order writes, sequence-number
\* wraparound inside a frame, timestamp wraparound and resets, the index plays
\* the packets in the order they were captured.
PlaysInCaptureOrder ==
  stage = "done" =>
    \A i \in 1..(Len(list) - 1) : list[i].rank < list[i + 1].rank
=============================================================================
