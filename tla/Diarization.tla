------------------------------ MODULE Diarization ------------------------------
(***************************************************************************)
(* The speaker diarization of one recording (src/diarization.cc):          *)
(* SegmentByVad turns the voice activity of the frames into segments, with *)
(* some silence added, and ComputeXvectorDiarization gives each a speaker. *)
(*                                                                         *)
(* The arrays A, S and E of SegmentByVad are the sets of the frames at     *)
(* which they are not zero.  A step is an iteration of one of its loops;   *)
(* "dia" is the loop it is in.  The clustering of the x-vectors, which is  *)
(* Kaldi's, is left open.                                                  *)
(***************************************************************************)
EXTENDS Integers, Sequences, FiniteSets

CONSTANTS
  MaxFrames,      \* bound: feature frames of a recording
  SilencePercent, \* silence_proportion: 20, or more where the recording is short
  ChunkSize,      \* frames in a chunk of XvectorNnet::Compute, -1 for one chunk
  MinChunkSize    \* frames it is padded to

ASSUME DiarizationAssumption ==
  /\ MaxFrames \in Nat /\ SilencePercent \in 0 .. 99
  /\ ChunkSize \in {-1} \cup (Nat \ {0}) /\ MinChunkSize \in Nat

VARIABLES
  dia,           \* "mark", "widen", "emit", "cluster", "done" or "crashed"
  num_frames,    \* N
  voiced,        \* A: the frames with speech
  S, E,          \* where segments start and end
  active_frames, \* the starts, in the order of the segments
  nonsil, num_segment_frames, changed,
  cursor,        \* i of the loop that widens, n of the loop that emits
  segmentation, spk_ids

mark_vars == <<S, E, active_frames, nonsil>>
widen_vars == <<num_segment_frames, changed>>
dia_vars == <<dia, num_frames, voiced, mark_vars, widen_vars, cursor, segmentation, spk_ids>>

DiaInit ==
  /\ num_frames \in 0 .. MaxFrames
  /\ voiced \in SUBSET (0 .. num_frames - 1)
  /\ dia = "mark" /\ S = {} /\ E = {} /\ active_frames = <<>> /\ nonsil = 0
  /\ num_segment_frames = 0 /\ changed = FALSE /\ cursor = 0
  /\ segmentation = <<>> /\ spk_ids = <<>>
-------------------------------------------------------------------------------
\* SegmentByVad: where the voice sets in and stops

Starts == {n \in voiced : n - 1 \notin voiced}
Ends == {n \in 1 .. num_frames : n - 1 \in voiced /\ n \notin voiced}

\* What the frames before the first start add if in_segment, which nothing has set
\* there, happens to be TRUE.
Leading == {n \in 0 .. num_frames - 1 : \A v \in voiced : n < v}

\* The ascending sequence of the members of a set of frames.
Ascending(F) ==
  CHOOSE f \in [1 .. Cardinality(F) -> F] : \A i, j \in DOMAIN f : i < j => f[i] < f[j]

\* Without a frame A(N - 1) is read out of range, and E(0) is set or not.
MarkVoiced ==
  /\ dia = "mark"
  /\ S' = Starts
  /\ E' \in IF num_frames = 0 THEN {{}, {0}} ELSE {Ends}
  /\ active_frames' = Ascending(Starts)
  /\ \E in_segment \in BOOLEAN :
       nonsil' = Cardinality(voiced) + (IF in_segment THEN Cardinality(Leading) ELSE 0)
  /\ num_segment_frames' = nonsil'
  /\ changed' = FALSE /\ cursor' = 1 /\ dia' = "widen"
  /\ UNCHANGED <<num_frames, voiced, segmentation, spk_ids>>
-------------------------------------------------------------------------------
\* SegmentByVad: silence is added until there is enough of it

target_segment_frames == (100 * nonsil) \div (100 - SilencePercent)
Enough == num_segment_frames >= target_segment_frames

\* Seeded fault: a start moves over the end of the segment before.
CanWidenOver(n) == n \in S /\ n > 0

\* Seeded fault: the first frame is not the limit.
CanWidenBelow(n) == n \in S /\ n \notin E

\* A start can move ahead unless it is the end of the segment before.  (The code would
\* also move an end that is in active_frames, but these are starts.)
CanWiden(n) == n \in S /\ n > 0 /\ n \notin E

WidenOne ==
  /\ dia = "widen" /\ ~Enough /\ cursor <= Len(active_frames)
  /\ LET n == active_frames[cursor] IN
       IF CanWiden(n)
         THEN /\ S' = (S \ {n}) \cup {n - 1}
              /\ active_frames' = [active_frames EXCEPT ![cursor] = n - 1]
              /\ num_segment_frames' = num_segment_frames + 1
              /\ changed' = TRUE
         ELSE UNCHANGED <<S, active_frames, widen_vars>>
  /\ cursor' = cursor + 1
  /\ UNCHANGED <<dia, num_frames, voiced, E, nonsil, segmentation, spk_ids>>

\* Seeded fault: a round without a change is followed by another.
WidenRoundAnyway ==
  /\ dia = "widen" /\ ~Enough /\ cursor > Len(active_frames)
  /\ changed' = FALSE /\ cursor' = 1
  /\ UNCHANGED <<dia, num_frames, voiced, mark_vars, num_segment_frames, segmentation, spk_ids>>

\* The next round; the loop ends with enough frames or after a round without a change.
WidenRound ==
  /\ dia = "widen" /\ ~Enough /\ cursor > Len(active_frames) /\ changed
  /\ changed' = FALSE /\ cursor' = 1
  /\ UNCHANGED <<dia, num_frames, voiced, mark_vars, num_segment_frames, segmentation, spk_ids>>

WidenStops ==
  /\ dia = "widen"
  /\ Enough \/ (cursor > Len(active_frames) /\ ~changed)
  /\ dia' = "emit" /\ cursor' = 0
  /\ UNCHANGED <<num_frames, voiced, mark_vars, widen_vars, segmentation, spk_ids>>
-------------------------------------------------------------------------------
\* SegmentByVad: the segments

\* Seeded fault: the end counts as a frame of the segment.
EndOfIncluded(n) == 1 + CHOOSE p \in E : n < p /\ \A q \in E : n < q => p <= q

\* The p of the inner loop: the first end after n, or N.
EndOf(n) ==
  CHOOSE p \in n + 1 .. num_frames :
    /\ p \in E \/ p = num_frames
    /\ \A q \in n + 1 .. p - 1 : q \notin E

\* Seeded fault: the frame at which a segment ends is passed over.
AfterSegmentSkips(p) == p + 1

\* A segment that starts where this one ends is not passed over.
AfterSegment(p) == IF p < num_frames /\ p \in S THEN p ELSE p + 1

EmitSegment ==
  /\ dia = "emit" /\ cursor < num_frames /\ cursor \in S
  /\ segmentation' = Append(segmentation, <<cursor, EndOf(cursor)>>)
  /\ cursor' = AfterSegment(EndOf(cursor))
  /\ UNCHANGED <<dia, num_frames, voiced, mark_vars, widen_vars, spk_ids>>

PassFrame ==
  /\ dia = "emit" /\ cursor < num_frames /\ cursor \notin S
  /\ cursor' = cursor + 1
  /\ UNCHANGED <<dia, num_frames, voiced, mark_vars, widen_vars, segmentation, spk_ids>>

SegmentsEmitted ==
  /\ dia = "emit" /\ cursor >= num_frames
  /\ dia' = "cluster"
  /\ UNCHANGED <<num_frames, voiced, mark_vars, widen_vars, cursor, segmentation, spk_ids>>
-------------------------------------------------------------------------------
\* ComputeXvectorDiarization

\* XvectorNnet::Compute: the chunks of a segment of num_rows frames, as the row each
\* starts at and its number of rows, and the rows of padding.
ThisChunkSize(num_rows) ==
  IF num_rows < ChunkSize \/ ChunkSize = -1 THEN num_rows ELSE ChunkSize

\* Seeded fault: a segment that fills its chunks has one more.
NumChunksOver(num_rows) == 1 + num_rows \div ThisChunkSize(num_rows)

NumChunks(num_rows) ==
  (num_rows + ThisChunkSize(num_rows) - 1) \div ThisChunkSize(num_rows)
XvectorChunks(num_rows) ==
  [c \in 1 .. NumChunks(num_rows) |->
     LET start == (c - 1) * ThisChunkSize(num_rows)
         left == num_rows - start
         offset == IF ThisChunkSize(num_rows) < left THEN ThisChunkSize(num_rows) ELSE left
     IN [start |-> start, rows |-> offset,
         padding |-> IF offset < MinChunkSize THEN MinChunkSize - offset ELSE 0]]

\* One segment is the first speaker's.  More are clustered into num_speakers, or as
\* many as there are segments.
Cluster(num_speakers) ==
  /\ dia = "cluster" /\ segmentation # <<>>
  /\ LET k == Len(segmentation)
         m == IF k < num_speakers THEN k ELSE num_speakers
     IN spk_ids' \in IF k < 2 THEN {<<1>>}
                     ELSE {f \in [1 .. k -> 1 .. m] : \A s \in 1 .. m : \E i \in 1 .. k : f[i] = s}
  /\ dia' = "done"
  /\ UNCHANGED <<num_frames, voiced, mark_vars, widen_vars, cursor, segmentation>>

\* Without a segment, segmentation[0] is read out of range.
ClusterNothing ==
  /\ dia = "cluster" /\ segmentation = <<>>
  /\ dia' = "crashed"
  /\ UNCHANGED <<num_frames, voiced, mark_vars, widen_vars, cursor, segmentation, spk_ids>>

Diarize(num_speakers) ==
  \/ MarkVoiced \/ WidenOne \/ WidenRound \/ WidenStops
  \/ EmitSegment \/ PassFrame \/ SegmentsEmitted \/ Cluster(num_speakers) \/ ClusterNothing
-------------------------------------------------------------------------------
\* Properties

DiaType ==
  /\ dia \in {"mark", "widen", "emit", "cluster", "done", "crashed"}
  /\ num_frames \in Nat /\ voiced \subseteq 0 .. num_frames - 1
  /\ S \subseteq 0 .. num_frames - 1 /\ E \subseteq 0 .. num_frames
  /\ active_frames \in Seq(Nat) /\ nonsil \in Nat
  /\ num_segment_frames \in Nat /\ changed \in BOOLEAN /\ cursor \in Nat
  /\ segmentation \in Seq(Nat \X Nat) /\ spk_ids \in Seq(Nat)

\* However the starts are moved, the segments stay apart: each has an end of its own
\* behind its start, at or before the next start, so the assertions of the emitting
\* loop hold and no segment is lost or runs into the next (SegmentByVad).
MarksAlternate ==
  dia # "mark" /\ num_frames > 0 =>
    /\ \A s, t \in S : s < t => \E e \in E : s < e /\ e <= t
    /\ \A e, f \in E : e < f => \E s \in S : e <= s /\ s < f
    /\ \A s \in S : \E e \in E : s < e
    /\ \A e \in E : \E s \in S : s < e

\* The segments are not empty, in order, do not overlap and lie in the recording.
SegmentsInOrder ==
  \A i \in 1 .. Len(segmentation) :
    /\ segmentation[i][1] < segmentation[i][2] /\ segmentation[i][2] <= num_frames
    /\ i > 1 => segmentation[i - 1][2] <= segmentation[i][1]

InSegment(n) ==
  \E i \in 1 .. Len(segmentation) : segmentation[i][1] <= n /\ n < segmentation[i][2]

\* All speech is in a segment, and there is no more silence in the segments than was
\* asked for (target_segment_frames).
SpeechIsSegmented ==
  dia \in {"cluster", "done"} =>
    /\ \A n \in voiced : InSegment(n)
    /\ LET framed == {n \in 0 .. num_frames - 1 : InSegment(n)}
       IN framed # {} /\ Cardinality(framed) > Cardinality(voiced) =>
            Cardinality(framed) <= target_segment_frames

\* Each frame of a segment is in one of the chunks its x-vector is averaged over, and
\* the weights of the chunks are the frames they have (XvectorNnet::Compute).
ChunksCoverSegments ==
  dia = "cluster" =>
    \A i \in 1 .. Len(segmentation) :
      LET rows == segmentation[i][2] - segmentation[i][1]
          chunk == XvectorChunks(rows)
      IN \A r \in 0 .. rows - 1 :
           Cardinality({c \in DOMAIN chunk :
             /\ chunk[c].rows > 0 /\ chunk[c].rows + chunk[c].padding >= MinChunkSize
             /\ chunk[c].start <= r /\ r < chunk[c].start + chunk[c].rows}) = 1
           /\ \A c \in DOMAIN chunk : chunk[c].rows > 0
===============================================================================
