--------------------------- MODULE DiarizationProofs ---------------------------
(***************************************************************************)
(* Proofs about the segments of the diarization, as Transcript runs it:    *)
(* for every recording, proportion of silence and size of the chunks.      *)
(*                                                                         *)
(* SegmentByVad asserts nothing of the arrays S and E after it has moved   *)
(* the starts; that starts and ends still alternate then (MarksAlternate)  *)
(* is the invariant of its loops, and with it every segment it emits       *)
(* begins at or behind the end of the one before.                          *)
(***************************************************************************)
EXTENDS Transcript, WellFoundedInduction, FiniteSetTheorems, TLAPS

\* A set of numbers has a least one.
LEMMA LeastNat ==
  ASSUME NEW T \in SUBSET Nat, T # {}
  PROVE  \E x \in T : \A y \in T : x <= y
<1> DEFINE R == {ss \in Nat \X Nat : ss[1] < ss[2]}
<1>1. IsWellFoundedOn(R, Nat)
  BY NatLessThanWellFounded DEF OpToRel
<1>2. PICK x \in T : \A y \in T : ~(<<y, x>> \in R)
  BY <1>1, WFMin
<1>3. ASSUME NEW y \in T PROVE x <= y
  <2>1. x \in Nat /\ y \in Nat /\ <<y, x>> \notin R
    BY <1>2
  <2>2. y < x => <<y, x>> \in R
    BY <2>1
  <2>3. QED
    BY <2>1, <2>2
<1>4. QED
  BY <1>3

DiaTypes ==
  /\ num_frames \in Nat /\ voiced \subseteq 0 .. num_frames - 1
  /\ S \subseteq 0 .. num_frames - 1 /\ E \subseteq 0 .. num_frames
  /\ cursor \in Nat /\ segmentation \in Seq(Nat \X Nat)

\* The loop that emits is behind the last segment.
Behind ==
  /\ dia \in {"mark", "widen"} => segmentation = <<>>
  /\ dia = "emit" /\ segmentation # <<>> => segmentation[Len(segmentation)][2] <= cursor

DiaInv == DiaTypes /\ MarksAlternate /\ Behind /\ SegmentsInOrder
-------------------------------------------------------------------------------
\* Where the voice sets in and stops

\* Between a frame with speech and a later one without, there is one at which it stops.
LEMMA VoiceStops ==
  ASSUME NEW A \in SUBSET Nat, NEW a \in A, NEW b \in Nat, a < b, b \notin A
  PROVE  \E e \in a + 1 .. b : e - 1 \in A /\ e \notin A
<1> DEFINE T == {e \in Nat : a < e /\ e \notin A}
<1>1. b \in T /\ T \in SUBSET Nat
  OBVIOUS
<1>2. PICK e \in T : \A f \in T : e <= f
  BY <1>1, LeastNat
<1>3. e \in Nat /\ a < e /\ e \notin A /\ e <= b /\ a \in Nat
  BY <1>1, <1>2
<1>4. e - 1 \in A
  <2>1. CASE e - 1 = a
    BY <2>1
  <2>2. CASE e - 1 # a
    <3>1. e - 1 \in Nat /\ a < e - 1 /\ ~(e <= e - 1)
      BY <1>3, <2>2
    <3>2. e - 1 \notin T
      BY <1>2, <3>1
    <3>3. QED
      BY <3>1, <3>2
  <2>3. QED
    BY <2>1, <2>2
<1>5. QED
  BY <1>3, <1>4

\* Between a frame without speech, or the beginning, and a later one with it, there is
\* one at which it sets in.
LEMMA VoiceSetsIn ==
  ASSUME NEW A \in SUBSET Nat, NEW a \in Nat \cup {-1}, NEW b \in A, a < b, a \notin A
  PROVE  \E s \in a + 1 .. b : s \in A /\ s - 1 \notin A
<1> DEFINE T == {s \in Nat : a < s /\ s \in A}
<1>1. b \in T /\ T \in SUBSET Nat
  OBVIOUS
<1>2. PICK s \in T : \A f \in T : s <= f
  BY <1>1, LeastNat
<1>3. s \in Nat /\ a < s /\ s \in A /\ s <= b /\ a \in Int /\ b \in Nat
  BY <1>1, <1>2
<1>4. s - 1 \notin A
  <2>1. CASE s - 1 = a
    BY <2>1
  <2>2. CASE s - 1 # a
    <3>1. s - 1 \in Nat /\ a < s - 1 /\ ~(s <= s - 1)
      BY <1>3, <2>2
    <3>2. s - 1 \notin T
      BY <1>2, <3>1
    <3>3. QED
      BY <3>1, <3>2
  <2>3. QED
    BY <2>1, <2>2
<1>5. s \in a + 1 .. b
  BY <1>3
<1>6. QED
  BY <1>3, <1>4, <1>5

Alternate(starts, ends) ==
  /\ \A s, t \in starts : s < t => \E e \in ends : s < e /\ e <= t
  /\ \A e, f \in ends : e < f => \E s \in starts : e <= s /\ s < f
  /\ \A s \in starts : \E e \in ends : s < e
  /\ \A e \in ends : \E s \in starts : s < e

LEMMA MarksStart ==
  ASSUME num_frames \in Nat, voiced \subseteq 0 .. num_frames - 1
  PROVE  Alternate(Starts, Ends)
<1>0. voiced \in SUBSET Nat /\ num_frames \notin voiced /\ -1 \notin voiced
  OBVIOUS
<1>1. ASSUME NEW s \in voiced, NEW e \in Nat, s < e, e - 1 \in voiced, e \notin voiced
      PROVE  e \in Ends
  <2>1. e \in 1 .. num_frames
    BY <1>0, <1>1
  <2>2. QED
    BY <1>1, <2>1 DEF Ends
<1>2. ASSUME NEW s \in Starts, NEW t \in Starts, s < t
      PROVE  \E e \in Ends : s < e /\ e <= t
  <2>1. /\ s \in voiced /\ t \in voiced /\ t - 1 \notin voiced /\ s \in Nat /\ t \in Nat
    BY <1>0 DEF Starts
  <2>2. t - 1 \in Nat /\ s < t - 1
    BY <1>2, <2>1
  <2>3. PICK e \in s + 1 .. t - 1 : e - 1 \in voiced /\ e \notin voiced
    BY <1>0, <2>1, <2>2, VoiceStops
  <2>4. e \in Nat /\ s < e /\ e <= t
    BY <2>1, <2>2, <2>3
  <2>5. QED
    BY <1>1, <2>1, <2>3, <2>4
<1>3. ASSUME NEW e \in Ends, NEW f \in Ends, e < f
      PROVE  \E s \in Starts : e <= s /\ s < f
  <2>1. e \in Nat /\ f \in Nat /\ f - 1 \in voiced /\ e \notin voiced
    BY DEF Ends
  <2>2. e < f - 1
    BY <1>3, <2>1
  <2>3. PICK s \in e + 1 .. f - 1 : s \in voiced /\ s - 1 \notin voiced
    BY <1>0, <2>1, <2>2, VoiceSetsIn
  <2>4. e <= s /\ s < f
    BY <2>1, <2>3
  <2>5. QED
    BY <2>3, <2>4 DEF Starts
<1>4. ASSUME NEW s \in Starts PROVE \E e \in Ends : s < e
  <2>1. s \in voiced /\ s \in Nat /\ s < num_frames
    BY <1>0 DEF Starts
  <2>2. PICK e \in s + 1 .. num_frames : e - 1 \in voiced /\ e \notin voiced
    BY <1>0, <2>1, VoiceStops
  <2>3. e \in Nat /\ s < e
    BY <2>1, <2>2
  <2>4. QED
    BY <1>1, <2>1, <2>2, <2>3
<1>5. ASSUME NEW e \in Ends PROVE \E s \in Starts : s < e
  <2>1. e \in Nat /\ e - 1 \in voiced /\ -1 < e - 1
    BY <1>0 DEF Ends
  <2>2. PICK s \in -1 + 1 .. e - 1 : s \in voiced /\ s - 1 \notin voiced
    BY <1>0, <2>1, VoiceSetsIn
  <2>3. s < e
    BY <2>1, <2>2
  <2>4. QED
    BY <2>2, <2>3 DEF Starts
<1>6. QED
  BY <1>2, <1>3, <1>4, <1>5 DEF Alternate

\* A start that can be moved ahead by a frame stays between the ends around it.
LEMMA MarksWiden ==
  ASSUME NEW starts \in SUBSET Nat, NEW ends \in SUBSET Nat, Alternate(starts, ends),
         NEW n \in starts, n > 0, n \notin ends,
         NEW moved, moved = (starts \ {n}) \cup {n - 1}
  PROVE  Alternate(moved, ends)
<1> USE DEF Alternate
<1>0. n \in Nat /\ n - 1 \in Nat
  OBVIOUS
<1>1. ASSUME NEW s \in moved, NEW t \in moved, s < t
      PROVE  \E e \in ends : s < e /\ e <= t
  <2>1. CASE s # n - 1 /\ t # n - 1
    BY <1>1, <2>1
  <2>2. CASE s = n - 1
    <3>1. t \in starts /\ t # n /\ t \in Nat
      BY <1>0, <1>1, <2>2
    <3>2. n < t
      BY <1>0, <1>1, <2>2, <3>1
    <3>3. PICK e \in ends : n < e /\ e <= t
      BY <3>1, <3>2
    <3>4. n - 1 < e
      BY <1>0, <3>3
    <3>5. QED
      BY <2>2, <3>3, <3>4
  <2>3. CASE t = n - 1 /\ s # n - 1
    <3>1. s \in starts /\ s \in Nat /\ s < n
      BY <1>0, <1>1, <2>3
    <3>2. PICK e \in ends : s < e /\ e <= n
      BY <3>1
    <3>3. e # n /\ e \in Nat
      OBVIOUS
    <3>4. e <= n - 1
      BY <1>0, <3>2, <3>3
    <3>5. QED
      BY <2>3, <3>2, <3>4
  <2>4. QED
    BY <2>1, <2>2, <2>3
<1>2. ASSUME NEW e \in ends, NEW f \in ends, e < f
      PROVE  \E s \in moved : e <= s /\ s < f
  <2>1. PICK s \in starts : e <= s /\ s < f
    BY <1>2
  <2>2. CASE s = n
    <3>1. e \in Nat /\ f \in Nat /\ e # n
      OBVIOUS
    <3>2. e <= n - 1 /\ n - 1 < f
      BY <1>0, <2>1, <2>2, <3>1
    <3>3. QED
      BY <3>2
  <2>3. CASE s # n
    BY <2>1, <2>3
  <2>4. QED
    BY <2>2, <2>3
<1>3. ASSUME NEW s \in moved PROVE \E e \in ends : s < e
  <2>1. CASE s = n - 1
    <3>1. PICK e \in ends : n < e
      OBVIOUS
    <3>2. n - 1 < e
      BY <1>0, <3>1
    <3>3. QED
      BY <2>1, <3>2
  <2>2. CASE s # n - 1
    BY <2>2
  <2>3. QED
    BY <2>1, <2>2
<1>4. ASSUME NEW e \in ends PROVE \E s \in moved : s < e
  <2>1. PICK s \in starts : s < e
    OBVIOUS
  <2>2. CASE s = n
    <3>1. n - 1 < e /\ n - 1 \in moved
      BY <1>0, <2>1, <2>2
    <3>2. QED
      BY <3>1
  <2>3. CASE s # n
    BY <2>1, <2>3
  <2>4. QED
    BY <2>2, <2>3
<1>5. QED
  BY <1>1, <1>2, <1>3, <1>4
-------------------------------------------------------------------------------
\* The segments

\* The inner loop finds an end behind n, if not the end of the recording.
LEMMA EndOfEnds ==
  ASSUME num_frames \in Nat, E \subseteq 0 .. num_frames, NEW n \in Nat, n < num_frames
  PROVE  /\ EndOf(n) \in n + 1 .. num_frames /\ (EndOf(n) \in E \/ EndOf(n) = num_frames)
         /\ \A q \in n + 1 .. EndOf(n) - 1 : q \notin E
<1> DEFINE T == {p \in n + 1 .. num_frames : p \in E \/ p = num_frames}
<1>1. num_frames \in T /\ T \in SUBSET Nat
  OBVIOUS
<1>2. PICK p \in T : \A q \in T : p <= q
  BY <1>1, LeastNat
<1>3. ASSUME NEW q \in n + 1 .. p - 1 PROVE q \notin E
  <2>1. p \in n + 1 .. num_frames
    BY <1>2
  <2>2. q \in n + 1 .. num_frames /\ ~(p <= q)
    BY <2>1
  <2>3. QED
    BY <1>2, <2>2
<1>4. \E x \in n + 1 .. num_frames :
        /\ x \in E \/ x = num_frames
        /\ \A q \in n + 1 .. x - 1 : q \notin E
  BY <1>2, <1>3
<1>5. QED
  BY <1>4 DEF EndOf

\* A segment that begins at or behind the end of the last one is put behind it.
LEMMA SegmentAppended ==
  ASSUME DiaTypes, SegmentsInOrder, UNCHANGED num_frames,
         NEW n \in Nat, NEW p \in n + 1 .. num_frames,
         segmentation # <<>> => segmentation[Len(segmentation)][2] <= n,
         segmentation' = Append(segmentation, <<n, p>>)
  PROVE  /\ SegmentsInOrder' /\ segmentation' \in Seq(Nat \X Nat)
         /\ segmentation'[Len(segmentation')][2] = p
<1>1. /\ segmentation \in Seq(Nat \X Nat) /\ Len(segmentation) \in Nat /\ num_frames \in Nat
      /\ p \in Nat /\ n < p /\ p <= num_frames
  BY DEF DiaTypes
<1>2. /\ segmentation' \in Seq(Nat \X Nat) /\ Len(segmentation') = Len(segmentation) + 1
      /\ segmentation'[Len(segmentation) + 1] = <<n, p>>
      /\ \A i \in 1 .. Len(segmentation) : segmentation'[i] = segmentation[i]
  BY <1>1
<1>3. ASSUME NEW i \in 1 .. Len(segmentation')
      PROVE  /\ segmentation'[i][1] < segmentation'[i][2] /\ segmentation'[i][2] <= num_frames
             /\ i > 1 => segmentation'[i - 1][2] <= segmentation'[i][1]
  <2>1. CASE i = Len(segmentation) + 1
    <3>1. segmentation'[i] = <<n, p>>
      BY <1>2, <2>1
    <3>2. segmentation'[i][1] = n /\ segmentation'[i][2] = p
      BY <3>1
    <3>3. ASSUME i > 1 PROVE segmentation'[i - 1][2] <= n
      <4>1. i - 1 = Len(segmentation) /\ i - 1 \in 1 .. Len(segmentation)
        BY <1>1, <2>1, <3>3
      <4>2. segmentation'[i - 1] = segmentation[Len(segmentation)] /\ segmentation # <<>>
        BY <1>2, <4>1
      <4>3. QED
        BY <4>2
    <3>4. QED
      BY <1>1, <3>2, <3>3
  <2>2. CASE i # Len(segmentation) + 1
    <3>1. i \in 1 .. Len(segmentation)
      BY <1>1, <1>2, <2>2
    <3>2. i > 1 => i - 1 \in 1 .. Len(segmentation)
      BY <1>1, <3>1
    <3>3. QED
      BY <1>2, <3>1, <3>2 DEF SegmentsInOrder
  <2>3. QED
    BY <2>1, <2>2
<1>4. SegmentsInOrder'
  BY <1>3 DEF SegmentsInOrder
<1>5. QED
  BY <1>1, <1>2, <1>4

LEMMA DiarizeStep ==
  ASSUME DiaInv, NEW k, Diarize(k)
  PROVE  DiaInv'
<1> USE DEF DiaInv
<1>1. CASE MarkVoiced
  <2>1. Starts \subseteq 0 .. num_frames - 1 /\ Ends \subseteq 0 .. num_frames
    <3>1. num_frames \in Nat /\ voiced \subseteq 0 .. num_frames - 1
      BY DEF DiaTypes
    <3>2. Starts \subseteq voiced /\ Ends \subseteq 1 .. num_frames
      BY DEF Starts, Ends
    <3>3. 1 .. num_frames \subseteq 0 .. num_frames
      BY <3>1
    <3>4. QED
      BY <3>1, <3>2, <3>3
  <2>2. E' \subseteq 0 .. num_frames
    <3>1. E' \subseteq Ends \cup {0}
      BY <1>1 DEF MarkVoiced
    <3>2. num_frames \in Nat /\ 0 \in 0 .. num_frames
      BY DEF DiaTypes
    <3>3. QED
      BY <2>1, <3>1, <3>2
  <2>3. DiaTypes'
    BY <1>1, <2>1, <2>2 DEF MarkVoiced, DiaTypes
  <2>4. MarksAlternate'
    <3>1. ASSUME num_frames > 0 PROVE Alternate(S', E')
      BY <1>1, <3>1, MarksStart DEF MarkVoiced, DiaTypes
    <3>2. QED
      BY <1>1, <3>1 DEF MarkVoiced, MarksAlternate, Alternate
  <2>5. QED
    BY <1>1, <2>3, <2>4 DEF MarkVoiced, Behind, SegmentsInOrder
<1>2. CASE WidenOne
  <2> DEFINE n == active_frames[cursor]
  <2>1. /\ dia = "widen" /\ cursor' = cursor + 1
        /\ UNCHANGED <<dia, num_frames, voiced, E, segmentation>>
        /\ IF CanWiden(n) THEN S' = (S \ {n}) \cup {n - 1} ELSE S' = S
    BY <1>2 DEF WidenOne
  <2> HIDE DEF n
  <2>2. S' \subseteq 0 .. num_frames - 1
    <3>1. S \subseteq 0 .. num_frames - 1 /\ num_frames \in Nat
      BY DEF DiaTypes
    <3>2. CASE CanWiden(n)
      <4>1. n \in 0 .. num_frames - 1 /\ n > 0
        BY <3>1, <3>2 DEF CanWiden
      <4>2. n - 1 \in 0 .. num_frames - 1
        BY <3>1, <4>1
      <4>3. QED
        BY <2>1, <3>1, <3>2, <4>2
    <3>3. CASE ~CanWiden(n)
      BY <2>1, <3>1, <3>3
    <3>4. QED
      BY <3>2, <3>3
  <2>3. DiaTypes'
    BY <2>1, <2>2 DEF DiaTypes
  <2>4. MarksAlternate'
    <3>1. CASE CanWiden(n) /\ num_frames > 0
      <4>1. S \in SUBSET Nat /\ E \in SUBSET Nat
        BY DEF DiaTypes
      <4>2. Alternate(S, E)
        BY <2>1, <3>1 DEF MarksAlternate, Alternate
      <4>3. Alternate(S', E)
        BY <2>1, <3>1, <4>1, <4>2, MarksWiden DEF CanWiden
      <4>4. QED
        BY <2>1, <4>3 DEF MarksAlternate, Alternate
    <3>2. CASE ~CanWiden(n) \/ ~(num_frames > 0)
      BY <2>1, <3>2 DEF MarksAlternate
    <3>3. QED
      BY <3>1, <3>2
  <2>5. QED
    BY <2>1, <2>3, <2>4 DEF Behind, SegmentsInOrder
<1>3. CASE WidenRound
  BY <1>3 DEF WidenRound, mark_vars, DiaTypes, MarksAlternate, Behind, SegmentsInOrder
<1>4. CASE WidenStops
  BY <1>4 DEF WidenStops, mark_vars, DiaTypes, MarksAlternate, Behind, SegmentsInOrder
<1>5. CASE EmitSegment
  <2>1. /\ dia = "emit" /\ cursor \in Nat /\ num_frames \in Nat /\ cursor < num_frames
        /\ segmentation' = Append(segmentation, <<cursor, EndOf(cursor)>>)
        /\ cursor' = AfterSegment(EndOf(cursor))
        /\ UNCHANGED <<dia, num_frames, voiced, S, E>>
    BY <1>5 DEF EmitSegment, DiaTypes, mark_vars
  <2>2. EndOf(cursor) \in cursor + 1 .. num_frames
    BY <2>1, EndOfEnds DEF DiaTypes
  <2>3. /\ SegmentsInOrder' /\ segmentation' \in Seq(Nat \X Nat)
        /\ segmentation'[Len(segmentation')][2] = EndOf(cursor)
    BY <2>1, <2>2, SegmentAppended DEF Behind
  <2>4. cursor' \in Nat /\ EndOf(cursor) <= cursor'
    BY <2>1, <2>2 DEF AfterSegment
  <2>5. QED
    BY <2>1, <2>3, <2>4 DEF DiaTypes, MarksAlternate, Behind
<1>6. CASE PassFrame
  <2>1. /\ cursor' = cursor + 1 /\ dia = "emit"
        /\ UNCHANGED <<dia, num_frames, voiced, S, E, segmentation>>
    BY <1>6 DEF PassFrame, mark_vars
  <2>2. cursor' \in Nat
    BY <2>1 DEF DiaTypes
  <2>3. Behind'
    <3>1. ASSUME segmentation # <<>> PROVE segmentation[Len(segmentation)][2] \in Nat
      <4>1. segmentation[Len(segmentation)] \in Nat \X Nat
        BY <3>1 DEF DiaTypes
      <4>2. QED
        BY <4>1
    <3>2. QED
      BY <2>1, <3>1 DEF Behind, DiaTypes
  <2>4. QED
    BY <2>1, <2>2, <2>3 DEF DiaTypes, MarksAlternate, SegmentsInOrder
<1>7. CASE SegmentsEmitted
  BY <1>7 DEF SegmentsEmitted, mark_vars, DiaTypes, MarksAlternate, Behind, SegmentsInOrder
<1>8. CASE Cluster(k) \/ ClusterNothing
  BY <1>8 DEF Cluster, ClusterNothing, mark_vars, DiaTypes, MarksAlternate, Behind,
              SegmentsInOrder
<1>9. QED
  BY <1>1, <1>2, <1>3, <1>4, <1>5, <1>6, <1>7, <1>8 DEF Diarize

LEMMA DiaInvStep == DiaInv /\ [Next]_vars => DiaInv'
<1> SUFFICES ASSUME DiaInv, [Next]_vars PROVE DiaInv'
  OBVIOUS
<1>1. CASE RunDiarizer
  BY <1>1, DiarizeStep DEF RunDiarizer
<1>2. CASE Diarized
  BY <1>2
  DEF Diarized, DiaInv, DiaTypes, MarksAlternate, Behind, SegmentsInOrder
<1>3. CASE UNCHANGED dia_vars
  BY <1>3 DEF dia_vars, mark_vars, DiaInv, DiaTypes, MarksAlternate, Behind, SegmentsInOrder
<1>4. ASSUME [Next]_vars, ~RunDiarizer, ~Diarized PROVE UNCHANGED dia_vars
  BY <1>4
  DEF Next, Step, Finished, FindPaths, RunFormatter, FormatWords, FormatFails, NotPunctuated,
      PunctuateThrows, PunctuateBreaks, PunctuateWords, OtherTranscripts, Respond, vars
<1>5. QED
  BY <1>1, <1>2, <1>3, <1>4
-------------------------------------------------------------------------------
\* The frames in segments

LEMMA FramesAreFinite ==
  ASSUME NEW n \in Nat, NEW T \in SUBSET (0 .. n - 1)
  PROVE  IsFiniteSet(T) /\ Cardinality(T) \in Nat
<1>1. IsFiniteSet(0 .. n - 1)
  BY FS_Interval
<1>2. IsFiniteSet(T)
  BY <1>1, FS_Subset
<1>3. QED
  BY <1>2, FS_CardinalityType

\* The frames behind a start, up to the next end.
Framed(starts, ends) ==
  {n \in 0 .. num_frames - 1 : \E s \in starts : s <= n /\ \A e \in ends : s < e => n < e}

\* Before silence is added these are the frames with speech.
LEMMA FramedAtFirst ==
  ASSUME num_frames \in Nat, voiced \subseteq 0 .. num_frames - 1
  PROVE  Framed(Starts, Ends) = voiced
<1>1. ASSUME NEW n \in voiced PROVE n \in Framed(Starts, Ends)
  <2> DEFINE T == {s \in Nat : s <= n /\ \A m \in s .. n : m \in voiced}
  <2>1. n \in Nat /\ n \in 0 .. num_frames - 1
    OBVIOUS
  <2>2. n \in T /\ T \in SUBSET Nat
    BY <2>1
  <2>3. PICK s \in T : \A t \in T : s <= t
    BY <2>2, LeastNat
  <2>4. s \in Nat /\ s <= n /\ s \in voiced /\ \A m \in s .. n : m \in voiced
    BY <2>1, <2>3
  <2>5. s - 1 \notin voiced
    <3>1. ASSUME s - 1 \in voiced PROVE FALSE
      <4>1. s - 1 \in Nat /\ \A m \in s - 1 .. n : m = s - 1 \/ m \in s .. n
        BY <2>1, <2>4, <3>1
      <4>2. s - 1 \in T
        BY <2>1, <2>4, <3>1, <4>1
      <4>3. s <= s - 1
        BY <2>3, <4>2
      <4>4. QED
        BY <2>4, <4>3
    <3>2. QED
      BY <3>1
  <2>6. ASSUME NEW e \in Ends, s < e PROVE n < e
    <3>1. e \in Nat /\ e \notin voiced
      BY DEF Ends
    <3>2. QED
      BY <2>1, <2>4, <2>6, <3>1
  <2>7. s \in Starts
    BY <2>4, <2>5 DEF Starts
  <2>8. QED
    BY <2>1, <2>4, <2>6, <2>7 DEF Framed
<1>2. ASSUME NEW n \in Framed(Starts, Ends), n \notin voiced PROVE FALSE
  <2>1. n \in Nat /\ n < num_frames
    BY DEF Framed
  <2>2. PICK s \in Starts : s <= n /\ \A e \in Ends : s < e => n < e
    BY DEF Framed
  <2>3. s \in voiced /\ s \in Nat /\ s < n /\ voiced \in SUBSET Nat
    BY <1>2, <2>1, <2>2 DEF Starts
  <2>4. PICK e \in s + 1 .. n : e - 1 \in voiced /\ e \notin voiced
    BY <1>2, <2>1, <2>3, VoiceStops
  <2>5. e \in 1 .. num_frames /\ s < e /\ ~(n < e)
    BY <2>1, <2>3, <2>4
  <2>6. e \in Ends
    BY <2>4, <2>5 DEF Ends
  <2>7. QED
    BY <2>2, <2>5, <2>6
<1>3. QED
  BY <1>1, <1>2

\* Moving a start adds the frame before it, which was in no segment.
LEMMA FramedWidened ==
  ASSUME num_frames \in Nat, NEW starts \in SUBSET (0 .. num_frames - 1),
         NEW ends \in SUBSET Nat, Alternate(starts, ends),
         NEW n \in starts, n > 0, n \notin ends,
         NEW moved, moved = (starts \ {n}) \cup {n - 1}
  PROVE  /\ n - 1 \in 0 .. num_frames - 1 /\ n - 1 \notin Framed(starts, ends)
         /\ Framed(moved, ends) = Framed(starts, ends) \cup {n - 1}
<1>1. n \in Nat /\ n < num_frames /\ n - 1 \in 0 .. num_frames - 1 /\ starts \in SUBSET Nat
  OBVIOUS
<1>2. n - 1 \notin Framed(starts, ends)
  <2>1. ASSUME NEW s \in starts, s <= n - 1 PROVE \E e \in ends : s < e /\ ~(n - 1 < e)
    <3>1. s \in Nat /\ s < n
      BY <1>1, <2>1
    <3>2. PICK e \in ends : s < e /\ e <= n
      BY <3>1 DEF Alternate
    <3>3. e # n /\ e \in Nat
      OBVIOUS
    <3>4. ~(n - 1 < e)
      BY <1>1, <3>2, <3>3
    <3>5. QED
      BY <3>2, <3>4
  <2>2. QED
    BY <2>1 DEF Framed
<1>3. ASSUME NEW m \in Framed(starts, ends) PROVE m \in Framed(moved, ends)
  <2>1. m \in 0 .. num_frames - 1 /\ m \in Nat
    BY DEF Framed
  <2>2. PICK s \in starts : s <= m /\ \A e \in ends : s < e => m < e
    BY DEF Framed
  <2>3. CASE s = n
    <3>1. \A e \in ends : n - 1 < e => m < e
      <4>1. ASSUME NEW e \in ends, n - 1 < e PROVE n < e
        <5>1. e \in Nat /\ e # n
          OBVIOUS
        <5>2. QED
          BY <1>1, <4>1, <5>1
      <4>2. QED
        BY <2>2, <2>3, <4>1
    <3>2. n - 1 <= m /\ n - 1 \in moved
      BY <1>1, <2>1, <2>2, <2>3
    <3>3. QED
      BY <2>1, <3>1, <3>2 DEF Framed
  <2>4. CASE s # n
    BY <2>1, <2>2, <2>4 DEF Framed
  <2>5. QED
    BY <2>3, <2>4
<1>4. n - 1 \in Framed(moved, ends)
  BY <1>1 DEF Framed
<1>5. ASSUME NEW m \in Framed(moved, ends), m # n - 1 PROVE m \in Framed(starts, ends)
  <2>1. m \in 0 .. num_frames - 1 /\ m \in Nat
    BY DEF Framed
  <2>2. PICK s \in moved : s <= m /\ \A e \in ends : s < e => m < e
    BY DEF Framed
  <2>3. CASE s = n - 1
    <3>1. n <= m
      BY <1>1, <1>5, <2>1, <2>2, <2>3
    <3>2. ASSUME NEW e \in ends, n < e PROVE m < e
      <4>1. e \in Nat /\ n - 1 < e
        BY <1>1, <3>2
      <4>2. QED
        BY <2>2, <2>3, <4>1
    <3>3. QED
      BY <2>1, <3>1, <3>2 DEF Framed
  <2>4. CASE s # n - 1
    BY <2>1, <2>2, <2>4 DEF Framed
  <2>5. QED
    BY <2>3, <2>4
<1>6. QED
  BY <1>1, <1>2, <1>3, <1>4, <1>5

\* What is added to the speech is what num_segment_frames counts beyond nonsil, which is
\* at least the speech; and something is only added up to the target.
FramesCounted ==
  dia # "mark" =>
    /\ voiced \subseteq Framed(S, E)
    /\ nonsil \in Nat /\ num_segment_frames \in Nat /\ Cardinality(voiced) <= nonsil
    /\ Cardinality(Framed(S, E)) + nonsil = Cardinality(voiced) + num_segment_frames
    /\ num_segment_frames > nonsil => num_segment_frames <= target_segment_frames

\* A segment goes from a start to the next end, or that of the recording.
IsSegment(s, p) ==
  /\ s \in S /\ p \in s + 1 .. num_frames /\ (p \in E \/ p = num_frames)
  /\ \A q \in s + 1 .. p - 1 : q \notin E

\* The loop that emits has a segment for each start it has passed.
StartsEmitted ==
  dia \in {"emit", "cluster", "done"} =>
    /\ \A s \in S : s < cursor => \E i \in 1 .. Len(segmentation) : segmentation[i][1] = s
    /\ \A i \in 1 .. Len(segmentation) : IsSegment(segmentation[i][1], segmentation[i][2])
    /\ dia # "emit" => cursor >= num_frames

LEMMA FramesCountedStep ==
  ASSUME DiaInv, FramesCounted, NEW k, Diarize(k)
  PROVE  FramesCounted'
<1>0. /\ num_frames \in Nat /\ voiced \subseteq 0 .. num_frames - 1
      /\ S \subseteq 0 .. num_frames - 1 /\ E \subseteq 0 .. num_frames
  BY DEF DiaInv, DiaTypes
<1>1. CASE MarkVoiced
  <2>1. /\ S' = Starts /\ UNCHANGED <<num_frames, voiced>> /\ num_segment_frames' = nonsil'
        /\ num_frames # 0 => E' = Ends
    BY <1>0, <1>1 DEF MarkVoiced
  <2>2. Framed(S, E)' = voiced
    <3>1. CASE num_frames = 0
      BY <1>0, <2>1, <3>1 DEF Framed
    <3>2. CASE num_frames # 0
      <4>1. Framed(S, E)' = Framed(Starts, Ends)
        BY <2>1, <3>2 DEF Framed
      <4>2. QED
        BY <1>0, <4>1, FramedAtFirst
    <3>3. QED
      BY <3>1, <3>2
  <2>3. Cardinality(voiced) \in Nat /\ Cardinality(Leading) \in Nat
    <3>1. Leading \in SUBSET (0 .. num_frames - 1)
      BY DEF Leading
    <3>2. QED
      BY <1>0, <3>1, FramesAreFinite
  <2>4. nonsil' \in Nat /\ Cardinality(voiced) <= nonsil'
    <3>1. \E b \in BOOLEAN :
            nonsil' = Cardinality(voiced) + (IF b THEN Cardinality(Leading) ELSE 0)
      BY <1>1 DEF MarkVoiced
    <3>2. QED
      BY <2>3, <3>1
  <2>5. QED
    BY <2>1, <2>2, <2>3, <2>4 DEF FramesCounted
<1>2. CASE WidenOne
  <2> DEFINE n == active_frames[cursor]
  <2>1. /\ dia = "widen" /\ ~Enough /\ UNCHANGED <<dia, num_frames, voiced, E, nonsil>>
        /\ IF CanWiden(n) THEN /\ S' = (S \ {n}) \cup {n - 1}
                               /\ num_segment_frames' = num_segment_frames + 1
                          ELSE UNCHANGED <<S, num_segment_frames>>
    BY <1>2 DEF WidenOne, widen_vars
  <2> HIDE DEF n
  <2>2. CASE CanWiden(n)
    <3>1. n \in S /\ n > 0 /\ n \notin E /\ num_frames > 0 /\ E \in SUBSET Nat
      BY <1>0, <2>2 DEF CanWiden
    <3>2. Alternate(S, E)
      BY <2>1, <3>1 DEF DiaInv, MarksAlternate, Alternate
    <3>3. /\ n - 1 \in 0 .. num_frames - 1 /\ n - 1 \notin Framed(S, E)
          /\ Framed(S', E) = Framed(S, E) \cup {n - 1}
      BY <1>0, <2>1, <2>2, <3>1, <3>2, FramedWidened
    <3>4. Framed(S, E)' = Framed(S', E)
      BY <2>1 DEF Framed
    <3>5. IsFiniteSet(Framed(S, E)) /\ Cardinality(Framed(S, E)) \in Nat
      <4>1. Framed(S, E) \in SUBSET (0 .. num_frames - 1)
        BY DEF Framed
      <4>2. QED
        BY <1>0, <4>1, FramesAreFinite
    <3>6. Cardinality(Framed(S, E)') = Cardinality(Framed(S, E)) + 1
      <4> DEFINE F == Framed(S, E)
                 x == n - 1
      <4>1. Framed(S, E)' = F \cup {x} /\ IsFiniteSet(F) /\ x \notin F
        BY <3>3, <3>4, <3>5
      <4> HIDE DEF F, x
      <4>2. Cardinality(F \cup {x}) = Cardinality(F) + 1
        BY <4>1, FS_AddElement
      <4>3. QED
        BY <4>1, <4>2 DEF F
    <3>7. num_segment_frames' <= target_segment_frames
      <4>1. target_segment_frames \in Int
        BY <2>1, DiarizationAssumption DEF FramesCounted, target_segment_frames
      <4>2. QED
        BY <2>1, <2>2, <4>1 DEF Enough, FramesCounted
    <3>8. target_segment_frames' = target_segment_frames
      BY <2>1 DEF target_segment_frames
    <3>9. Cardinality(voiced) \in Nat
      BY <1>0, FramesAreFinite
    <3> HIDE DEF Framed, target_segment_frames
    <3>10. QED
      BY <2>1, <2>2, <3>3, <3>4, <3>5, <3>6, <3>7, <3>8, <3>9 DEF FramesCounted
  <2>3. CASE ~CanWiden(n)
    BY <2>1, <2>3 DEF FramesCounted, Framed, target_segment_frames
  <2>4. QED
    BY <2>2, <2>3
<1>3. CASE dia # "mark" /\ UNCHANGED <<num_frames, voiced, mark_vars, num_segment_frames>>
  BY <1>3 DEF mark_vars, FramesCounted, Framed, target_segment_frames
<1>4. QED
  BY <1>1, <1>2, <1>3
  DEF Diarize, WidenRound, WidenStops, EmitSegment, PassFrame, SegmentsEmitted, Cluster,
      ClusterNothing, widen_vars

LEMMA StartsEmittedStep ==
  ASSUME DiaInv, StartsEmitted, NEW k, Diarize(k)
  PROVE  StartsEmitted'
<1>0. /\ num_frames \in Nat /\ S \subseteq 0 .. num_frames - 1 /\ E \subseteq 0 .. num_frames
      /\ cursor \in Nat /\ segmentation \in Seq(Nat \X Nat) /\ Len(segmentation) \in Nat
  BY DEF DiaInv, DiaTypes
<1>1. CASE MarkVoiced \/ WidenOne \/ WidenRound
  BY <1>1 DEF MarkVoiced, WidenOne, WidenRound, StartsEmitted
<1>2. CASE WidenStops
  <2>1. segmentation' = <<>> /\ cursor' = 0 /\ UNCHANGED S /\ dia' = "emit"
    BY <1>2 DEF WidenStops, mark_vars, DiaInv, Behind
  <2>2. ~\E s \in S : s < 0
    BY <1>0
  <2>3. QED
    BY <2>1, <2>2 DEF StartsEmitted
<1>3. CASE EmitSegment
  <2> DEFINE p == EndOf(cursor)
  <2>1. /\ dia = "emit" /\ cursor < num_frames /\ cursor \in S
        /\ segmentation' = Append(segmentation, <<cursor, p>>)
        /\ cursor' = IF p < num_frames /\ p \in S THEN p ELSE p + 1
        /\ UNCHANGED <<dia, num_frames, S, E>>
    BY <1>3 DEF EmitSegment, AfterSegment, mark_vars
  <2>2. IsSegment(cursor, p)
    BY <1>0, <2>1, EndOfEnds DEF IsSegment
  <2> HIDE DEF p
  <2>3. /\ Len(segmentation') = Len(segmentation) + 1
        /\ segmentation'[Len(segmentation')] = <<cursor, p>>
        /\ \A i \in 1 .. Len(segmentation) : segmentation'[i] = segmentation[i]
        /\ p \in Nat
    BY <1>0, <2>1, <2>2 DEF IsSegment
  <2>4. ASSUME NEW i \in 1 .. Len(segmentation')
        PROVE  IsSegment(segmentation'[i][1], segmentation'[i][2])
    <3>1. CASE i = Len(segmentation')
      BY <2>2, <2>3, <3>1
    <3>2. CASE i # Len(segmentation')
      <4>1. i \in 1 .. Len(segmentation)
        BY <1>0, <2>3, <3>2
      <4>2. QED
        BY <2>1, <2>3, <4>1 DEF StartsEmitted
    <3>3. QED
      BY <3>1, <3>2
  <2>5. ASSUME NEW s \in S, s < cursor'
        PROVE  \E i \in 1 .. Len(segmentation') : segmentation'[i][1] = s
    <3>1. s \in Nat
      BY <1>0
    <3>2. CASE s < cursor
      <4>1. PICK i \in 1 .. Len(segmentation) : segmentation[i][1] = s
        BY <2>1, <3>2 DEF StartsEmitted
      <4>2. i \in 1 .. Len(segmentation') /\ segmentation'[i][1] = s
        BY <1>0, <2>3, <4>1
      <4>3. QED
        BY <4>2
    <3>3. CASE s = cursor
      BY <1>0, <2>3, <3>3
    <3>4. CASE s > cursor
      <4>1. PICK e \in E : cursor < e /\ e <= s
        BY <1>0, <2>1, <3>4 DEF DiaInv, MarksAlternate
      <4>2. e \in Nat /\ p <= e
        BY <1>0, <2>2, <2>3, <4>1 DEF IsSegment
      <4>3. s = p /\ p < num_frames
        BY <1>0, <2>1, <2>3, <2>5, <3>1, <4>1, <4>2
      <4>4. cursor' = p
        BY <2>1, <4>3
      <4>5. QED
        BY <2>3, <2>5, <3>1, <4>3, <4>4
    <3>5. QED
      BY <1>0, <3>1, <3>2, <3>3, <3>4
  <2>6. \A s, q : IsSegment(s, q)' <=> IsSegment(s, q)
    BY <2>1 DEF IsSegment
  <2>7. QED
    BY <2>1, <2>4, <2>5, <2>6 DEF StartsEmitted
<1>4. CASE PassFrame
  <2>1. /\ dia = "emit" /\ cursor \notin S /\ cursor' = cursor + 1
        /\ UNCHANGED <<dia, num_frames, S, E, segmentation>>
    BY <1>4 DEF PassFrame, mark_vars
  <2>2. \A s \in S : s < cursor' => s < cursor
    BY <1>0, <2>1
  <2>3. QED
    BY <2>1, <2>2 DEF StartsEmitted, IsSegment
<1>5. CASE SegmentsEmitted
  BY <1>5 DEF SegmentsEmitted, mark_vars, StartsEmitted, IsSegment
<1>6. CASE Cluster(k)
  BY <1>6 DEF Cluster, mark_vars, StartsEmitted, IsSegment
<1>7. CASE ClusterNothing
  BY <1>7 DEF ClusterNothing, StartsEmitted
<1>8. QED
  BY <1>1, <1>2, <1>3, <1>4, <1>5, <1>6, <1>7 DEF Diarize

SpeechInv == FramesCounted /\ StartsEmitted

LEMMA SpeechInvStep == DiaInv /\ SpeechInv /\ [Next]_vars => SpeechInv'
<1> SUFFICES ASSUME DiaInv, SpeechInv, [Next]_vars PROVE SpeechInv'
  OBVIOUS
<1>1. CASE RunDiarizer
  BY <1>1, FramesCountedStep, StartsEmittedStep DEF RunDiarizer, SpeechInv
<1>2. CASE Diarized
  BY <1>2 DEF Diarized, SpeechInv, FramesCounted, StartsEmitted
<1>3. CASE UNCHANGED dia_vars
  BY <1>3
  DEF dia_vars, mark_vars, widen_vars, SpeechInv, FramesCounted, Framed, target_segment_frames,
      StartsEmitted, IsSegment
<1>4. ASSUME [Next]_vars, ~RunDiarizer, ~Diarized PROVE UNCHANGED dia_vars
  BY <1>4
  DEF Next, Step, Finished, FindPaths, RunFormatter, FormatWords, FormatFails, NotPunctuated,
      PunctuateThrows, PunctuateBreaks, PunctuateWords, OtherTranscripts, Respond, vars
<1>5. QED
  BY <1>1, <1>2, <1>3, <1>4

\* When all segments are emitted, the frames in them are those between the marks.
LEMMA FramesAreInSegments ==
  ASSUME DiaInv, StartsEmitted, dia \in {"cluster", "done"}
  PROVE  {n \in 0 .. num_frames - 1 : InSegment(n)} = Framed(S, E)
<1>0. /\ num_frames \in Nat /\ S \subseteq 0 .. num_frames - 1 /\ E \subseteq 0 .. num_frames
      /\ num_frames <= cursor /\ cursor \in Nat
  BY DEF DiaInv, DiaTypes, StartsEmitted
<1>1. ASSUME NEW n \in 0 .. num_frames - 1, InSegment(n) PROVE n \in Framed(S, E)
  <2>1. PICK i \in 1 .. Len(segmentation) : segmentation[i][1] <= n /\ n < segmentation[i][2]
    BY <1>1 DEF InSegment
  <2>2. IsSegment(segmentation[i][1], segmentation[i][2])
    BY DEF StartsEmitted
  <2>3. ASSUME NEW s, NEW p, IsSegment(s, p), s <= n, n < p PROVE n \in Framed(S, E)
    <3>1. s \in S /\ s \in Nat /\ p \in Nat /\ \A q \in s + 1 .. p - 1 : q \notin E
      BY <1>0, <2>3 DEF IsSegment
    <3>2. ASSUME NEW e \in E, s < e PROVE n < e
      <4>1. e \in Nat /\ e \notin s + 1 .. p - 1
        BY <1>0, <3>1
      <4>2. QED
        BY <2>3, <3>1, <3>2, <4>1
    <3>3. QED
      BY <2>3, <3>1, <3>2 DEF Framed
  <2>4. QED
    BY <2>1, <2>2, <2>3
<1>2. ASSUME NEW n \in Framed(S, E) PROVE InSegment(n)
  <2>1. n \in Nat /\ n < num_frames
    BY <1>0 DEF Framed
  <2>2. PICK s \in S : s <= n /\ \A e \in E : s < e => n < e
    BY DEF Framed
  <2>3. s \in Nat /\ s < cursor
    BY <1>0
  <2>4. PICK i \in 1 .. Len(segmentation) : segmentation[i][1] = s
    BY <2>3 DEF StartsEmitted
  <2>5. IsSegment(s, segmentation[i][2])
    BY <2>4 DEF StartsEmitted
  <2>6. n < segmentation[i][2]
    BY <1>0, <2>1, <2>2, <2>3, <2>5 DEF IsSegment
  <2>7. QED
    BY <2>2, <2>4, <2>6 DEF InSegment
<1>3. Framed(S, E) \subseteq 0 .. num_frames - 1
  BY DEF Framed
<1>4. QED
  BY <1>1, <1>2, <1>3
-------------------------------------------------------------------------------
\* The chunks of a segment

LEMMA TimesMonotone ==
  ASSUME NEW a \in Nat, NEW b \in Nat, NEW t \in Nat, a <= b
  PROVE  a * t <= b * t
<1>1. PICK d \in Nat : b = a + d
  <2>1. b - a \in Nat /\ b = a + (b - a)
    OBVIOUS
  <2>2. QED
    BY <2>1
<1>2. b * t = a * t + d * t /\ d * t \in Nat /\ a * t \in Nat
  BY <1>1
<1>3. QED
  BY <1>2

\* The division of XvectorNnet::Compute rounds up.
LEMMA ChunkCount ==
  ASSUME NEW rows \in Nat \ {0}
  PROVE  /\ ThisChunkSize(rows) \in Nat \ {0} /\ NumChunks(rows) \in Nat \ {0}
         /\ (NumChunks(rows) - 1) * ThisChunkSize(rows) < rows
         /\ rows <= NumChunks(rows) * ThisChunkSize(rows)
<1> DEFINE t == ThisChunkSize(rows)
           k == NumChunks(rows)
<1>1. t \in Nat \ {0}
  BY DiarizationAssumption DEF ThisChunkSize
<1>2. k = (rows + t - 1) \div t
  BY DEF NumChunks
<1> HIDE DEF t, k
<1>3. k \in Nat /\ k * t <= rows + t - 1 /\ rows + t - 1 < k * t + t
  BY <1>1, <1>2
<1>4. k # 0
  BY <1>1, <1>3
<1>5. (k - 1) * t = k * t - t /\ k * t \in Nat
  BY <1>1, <1>3
<1>6. QED
  BY <1>1, <1>3, <1>4, <1>5 DEF t, k

\* Each row is in one chunk, none is empty, and all are padded to the least size.
LEMMA ChunksCover ==
  ASSUME NEW rows \in Nat \ {0}, NEW chunk, chunk = XvectorChunks(rows)
  PROVE  /\ \A c \in DOMAIN chunk : chunk[c].rows > 0
         /\ \A r \in 0 .. rows - 1 :
              Cardinality({c \in DOMAIN chunk :
                /\ chunk[c].rows > 0 /\ chunk[c].rows + chunk[c].padding >= MinChunkSize
                /\ chunk[c].start <= r /\ r < chunk[c].start + chunk[c].rows}) = 1
<1> DEFINE t == ThisChunkSize(rows)
           k == NumChunks(rows)
           Offset(c) == IF t < rows - (c - 1) * t THEN t ELSE rows - (c - 1) * t
<1>1. t \in Nat \ {0} /\ k \in Nat \ {0} /\ (k - 1) * t < rows /\ rows <= k * t
  BY ChunkCount
<1>2. /\ DOMAIN chunk = 1 .. k
      /\ \A c \in 1 .. k :
           /\ chunk[c].start = (c - 1) * t /\ chunk[c].rows = Offset(c)
           /\ chunk[c].padding = IF Offset(c) < MinChunkSize THEN MinChunkSize - Offset(c) ELSE 0
  BY DEF XvectorChunks
<1> HIDE DEF t, k
<1>3. ASSUME NEW c \in 1 .. k
      PROVE  /\ chunk[c].start = (c - 1) * t /\ (c - 1) * t \in Nat
             /\ chunk[c].rows \in Nat /\ 0 < chunk[c].rows /\ chunk[c].rows <= t
             /\ chunk[c].start + chunk[c].rows = rows \/ chunk[c].rows = t
             /\ chunk[c].rows + chunk[c].padding >= MinChunkSize
  <2> DEFINE start == (c - 1) * t
  <2>1. c - 1 \in Nat /\ k - 1 \in Nat /\ c - 1 <= k - 1
    BY <1>1
  <2>2. start <= (k - 1) * t /\ start \in Nat /\ (k - 1) * t \in Nat
    BY <1>1, <2>1, TimesMonotone
  <2>3. chunk[c].start = start /\ chunk[c].rows = IF t < rows - start THEN t ELSE rows - start
    BY <1>2
  <2> HIDE DEF start
  <2>4. /\ chunk[c].rows \in Nat /\ 0 < chunk[c].rows /\ chunk[c].rows <= t
        /\ start + chunk[c].rows = rows \/ chunk[c].rows = t
    BY <1>1, <2>2, <2>3
  <2>5. chunk[c].padding = IF chunk[c].rows < MinChunkSize THEN MinChunkSize - chunk[c].rows ELSE 0
    BY <1>2
  <2>6. chunk[c].rows + chunk[c].padding >= MinChunkSize
    BY <2>4, <2>5, DiarizationAssumption
  <2>7. QED
    BY <2>2, <2>3, <2>4, <2>6 DEF start
<1>4. ASSUME NEW r \in 0 .. rows - 1
      PROVE  \E d \in 1 .. k : \A c \in 1 .. k :
               c = d <=> chunk[c].start <= r /\ r < chunk[c].start + chunk[c].rows
  <2> DEFINE q == r \div t
  <2>1. r \in Nat /\ r < rows
    OBVIOUS
  <2>2. q \in Nat /\ q * t <= r /\ r < q * t + t
    BY <1>1, <2>1
  <2> HIDE DEF q
  <2>3. q + 1 \in 1 .. k
    <3>1. ASSUME k <= q PROVE FALSE
      <4>1. k * t <= q * t /\ k * t \in Nat /\ q * t \in Nat
        BY <1>1, <2>2, <3>1, TimesMonotone
      <4>2. QED
        BY <1>1, <2>1, <2>2, <4>1
    <3>2. QED
      BY <1>1, <2>2, <3>1
  <2>4. ASSUME NEW c \in 1 .. k, c = q + 1
        PROVE  chunk[c].start <= r /\ r < chunk[c].start + chunk[c].rows
    <3>1. c - 1 = q /\ q * t \in Nat
      BY <1>1, <2>2, <2>4
    <3>2. chunk[c].start = q * t
      BY <1>3, <3>1
    <3>3. QED
      BY <1>1, <1>3, <2>1, <2>2, <3>1, <3>2
  <2>5. ASSUME NEW c \in 1 .. k, chunk[c].start <= r, r < chunk[c].start + chunk[c].rows
        PROVE  c = q + 1
    <3>1. c \in Nat /\ c - 1 \in Nat /\ q + 1 \in Nat
      BY <1>1, <2>2
    <3>2. (c - 1) * t <= r /\ r < (c - 1) * t + t /\ (c - 1) * t \in Nat
      BY <1>1, <1>3, <2>1, <2>5
    <3>3. ASSUME q + 1 <= c - 1 PROVE FALSE
      <4>1. (q + 1) * t <= (c - 1) * t /\ (q + 1) * t = q * t + t /\ q * t \in Nat
        BY <1>1, <2>2, <3>1, <3>3, TimesMonotone
      <4>2. QED
        BY <1>1, <2>1, <2>2, <3>2, <4>1
    <3>4. ASSUME c <= q PROVE FALSE
      <4>1. c * t <= q * t /\ c * t = (c - 1) * t + t /\ q * t \in Nat
        BY <1>1, <2>2, <3>1, <3>4, TimesMonotone
      <4>2. QED
        BY <1>1, <2>1, <2>2, <3>2, <4>1
    <3>5. QED
      BY <2>2, <3>1, <3>3, <3>4
  <2>6. QED
    BY <2>3, <2>4, <2>5
<1>5. ASSUME NEW r \in 0 .. rows - 1
      PROVE  Cardinality({c \in DOMAIN chunk :
                /\ chunk[c].rows > 0 /\ chunk[c].rows + chunk[c].padding >= MinChunkSize
                /\ chunk[c].start <= r /\ r < chunk[c].start + chunk[c].rows}) = 1
  <2> DEFINE covering == {c \in DOMAIN chunk :
                /\ chunk[c].rows > 0 /\ chunk[c].rows + chunk[c].padding >= MinChunkSize
                /\ chunk[c].start <= r /\ r < chunk[c].start + chunk[c].rows}
  <2>1. PICK d \in 1 .. k : \A c \in 1 .. k :
               c = d <=> chunk[c].start <= r /\ r < chunk[c].start + chunk[c].rows
    BY <1>4
  <2>2. \A c \in 1 .. k : chunk[c].rows > 0 /\ chunk[c].rows + chunk[c].padding >= MinChunkSize
    BY <1>3
  <2>3. covering = {d}
    BY <1>2, <2>1, <2>2
  <2>4. QED
    BY <2>3, FS_Singleton
<1>6. QED
  BY <1>2, <1>3, <1>5
-------------------------------------------------------------------------------
\* The theorems

\* What the loops of SegmentByVad keep.
THEOREM DiarizationInvariance == Spec => []DiaInv
<1>1. Init => DiaInv
  <2>1. ASSUME Init PROVE num_frames \in Nat
    BY <2>1, DiarizationAssumption DEF Init, DiaInit
  <2>2. QED
    BY <2>1
    DEF Init, DiaInit, DiaInv, DiaTypes, MarksAlternate, Behind, SegmentsInOrder
<1>2. QED
  BY <1>1, DiaInvStep, PTL DEF Spec

\* Whatever is heard, and however much silence is added, starts and ends alternate: no
\* start is moved over the end of the segment before it.
THEOREM MarksStayApart == Spec => []MarksAlternate
<1>1. DiaInv => MarksAlternate
  BY DEF DiaInv
<1>2. QED
  BY <1>1, DiarizationInvariance, PTL

\* The segments are not empty, do not overlap and lie in the recording.
THEOREM SegmentsStayInOrder == Spec => []SegmentsInOrder
<1>1. DiaInv => SegmentsInOrder
  BY DEF DiaInv
<1>2. QED
  BY <1>1, DiarizationInvariance, PTL

\* The frames between the marks are counted, and each segment between them is emitted.
THEOREM SpeechInvariance == Spec => []SpeechInv
<1>1. Init => SpeechInv
  BY DEF Init, DiaInit, SpeechInv, FramesCounted, StartsEmitted
<1>2. QED
  BY <1>1, SpeechInvStep, DiarizationInvariance, PTL DEF Spec

\* All speech is in a segment, and no more silence than was asked for, whatever is heard
\* and whichever proportion of silence is asked for.
THEOREM SpeechStaysSegmented == Spec => []SpeechIsSegmented
<1>1. ASSUME DiaInv, SpeechInv PROVE SpeechIsSegmented
  <2> SUFFICES ASSUME dia \in {"cluster", "done"}
               PROVE  /\ \A n \in voiced : InSegment(n)
                      /\ Cardinality(Framed(S, E)) > Cardinality(voiced) =>
                           Cardinality(Framed(S, E)) <= target_segment_frames
    BY <1>1, FramesAreInSegments DEF SpeechIsSegmented, SpeechInv
  <2>1. /\ num_frames \in Nat /\ voiced \subseteq 0 .. num_frames - 1
        /\ Framed(S, E) \subseteq 0 .. num_frames - 1
    BY <1>1 DEF DiaInv, DiaTypes, Framed
  <2>2. \A n \in voiced : InSegment(n)
    <3>1. voiced \subseteq Framed(S, E)
      BY <1>1 DEF SpeechInv, FramesCounted
    <3>2. QED
      BY <1>1, <3>1, FramesAreInSegments DEF SpeechInv
  <2>3. Cardinality(voiced) \in Nat /\ Cardinality(Framed(S, E)) \in Nat
    BY <2>1, FramesAreFinite
  <2> HIDE DEF Framed
  <2>4. target_segment_frames \in Int
    BY <1>1, DiarizationAssumption DEF SpeechInv, FramesCounted, target_segment_frames
  <2> HIDE DEF target_segment_frames
  <2>5. QED
    BY <1>1, <2>2, <2>3, <2>4 DEF SpeechInv, FramesCounted
<1>2. QED
  BY <1>1, DiarizationInvariance, SpeechInvariance, PTL

\* Each frame of a segment is in one chunk, for any sizes of the chunks.
THEOREM ChunksCoverTheSegments == Spec => []ChunksCoverSegments
<1>1. ASSUME DiaInv PROVE ChunksCoverSegments
  <2> SUFFICES ASSUME NEW i \in 1 .. Len(segmentation)
               PROVE  LET rows == segmentation[i][2] - segmentation[i][1]
                          chunk == XvectorChunks(rows)
                      IN \A r \in 0 .. rows - 1 :
                           Cardinality({c \in DOMAIN chunk :
                             /\ chunk[c].rows > 0
                             /\ chunk[c].rows + chunk[c].padding >= MinChunkSize
                             /\ chunk[c].start <= r
                             /\ r < chunk[c].start + chunk[c].rows}) = 1
                           /\ \A c \in DOMAIN chunk : chunk[c].rows > 0
    BY DEF ChunksCoverSegments
  <2> DEFINE rows == segmentation[i][2] - segmentation[i][1]
             chunk == XvectorChunks(rows)
  <2>1. segmentation[i] \in Nat \X Nat /\ segmentation[i][1] < segmentation[i][2]
    BY <1>1 DEF DiaInv, DiaTypes, SegmentsInOrder
  <2>2. segmentation[i][1] \in Nat /\ segmentation[i][2] \in Nat
    BY <2>1
  <2>3. rows \in Nat \ {0}
    BY <2>1, <2>2
  <2> HIDE DEF rows
  <2>4. chunk = XvectorChunks(rows)
    OBVIOUS
  <2> HIDE DEF chunk
  <2>5. /\ \A c \in DOMAIN chunk : chunk[c].rows > 0
        /\ \A r \in 0 .. rows - 1 :
             Cardinality({c \in DOMAIN chunk :
               /\ chunk[c].rows > 0 /\ chunk[c].rows + chunk[c].padding >= MinChunkSize
               /\ chunk[c].start <= r /\ r < chunk[c].start + chunk[c].rows}) = 1
    BY <2>3, <2>4, ChunksCover
  <2>6. QED
    BY <2>5 DEF rows, chunk
<1>2. QED
  BY <1>1, DiarizationInvariance, PTL
===============================================================================
