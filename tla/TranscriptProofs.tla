---------------------------- MODULE TranscriptProofs ----------------------------
(***************************************************************************)
(* Proofs about Transcript as a whole: its types; that GetResults() does   *)
(* what the RPC modules take it to do, however detailed it is; that words  *)
(* keep the speakers of the audio they were heard in; and that the pieces  *)
(* and the marks of the punctuation stay with their words.  They rest on   *)
(* the invariants of the diarization and of Convert().                     *)
(***************************************************************************)
EXTENDS FormatterProofs, SequenceTheorems

\* What goes on from call to call: the stage, and what each call leaves behind.
LEMMA StepCases ==
  ASSUME [Next]_vars
  PROVE  \/ RunDiarizer \/ Diarized \/ FindPaths \/ RunFormatter \/ FormatWords \/ FormatFails
         \/ NotPunctuated \/ PunctuateThrows \/ PunctuateBreaks \/ PunctuateWords
         \/ OtherTranscripts \/ Respond \/ UNCHANGED vars
  BY DEF Next, Step, Finished
-------------------------------------------------------------------------------
\* The types of the diarization

\* A set of numbers can be put in ascending order.
LEMMA AscendingExists ==
  ASSUME NEW n \in Nat
  PROVE  \A F \in SUBSET (0 .. n - 1) :
           \E f \in [1 .. Cardinality(F) -> F] : \A i, j \in DOMAIN f : i < j => f[i] < f[j]
<1> DEFINE Ascends(F) == \E f \in [1 .. Cardinality(F) -> F] :
                           \A i, j \in DOMAIN f : i < j => f[i] < f[j]
           T == {m \in 0 .. n : \A F \in SUBSET (0 .. m - 1) : Ascends(F)}
<1>1. 0 \in T
  <2>1. ASSUME NEW F \in SUBSET (0 .. 0 - 1) PROVE Ascends(F)
    <3>1. F = {} /\ Cardinality({}) = 0
      BY FS_EmptySet
    <3>2. [x \in {} |-> 0] \in [1 .. Cardinality(F) -> F]
      BY <3>1
    <3>3. QED
      BY <3>2
  <2> HIDE DEF Ascends
  <2>2. QED
    BY <2>1
<1>2. ASSUME NEW m \in 1 .. n, m - 1 \in T PROVE m \in T
  <2>0. m \in Nat /\ m - 1 \in Nat /\ m \in 0 .. n
    OBVIOUS
  <2>1. ASSUME NEW F \in SUBSET (0 .. m - 1) PROVE Ascends(F)
    <3>1. CASE m - 1 \notin F
      <4>1. F \in SUBSET (0 .. (m - 1) - 1)
        BY <2>0, <3>1
      <4> HIDE DEF Ascends
      <4>2. QED
        BY <1>2, <4>1
    <3>2. CASE m - 1 \in F
      <4> DEFINE G == F \ {m - 1}
                 k == Cardinality(G)
      <4>1. G \in SUBSET (0 .. (m - 1) - 1)
        BY <2>0
      <4>2. PICK g \in [1 .. k -> G] : \A i, j \in DOMAIN g : i < j => g[i] < g[j]
        <5>1. Ascends(G)
          <6> HIDE DEF Ascends, G
          <6>1. QED
            BY <1>2, <4>1
        <5>2. QED
          BY <5>1
      <4>3. Cardinality(F) = k + 1 /\ k \in Nat
        <5>1. IsFiniteSet(F) /\ Cardinality(F) \in Nat
          BY <2>0, FramesAreFinite
        <5>2. IsFiniteSet(G) /\ k = Cardinality(F) - 1
          BY <3>2, <5>1, FS_RemoveElement
        <5>3. k \in Nat
          BY <5>2, FS_CardinalityType
        <5>4. QED
          BY <5>1, <5>2, <5>3
      <4> HIDE DEF k
      <4> DEFINE f == [i \in 1 .. k + 1 |-> IF i = k + 1 THEN m - 1 ELSE g[i]]
      <4>4. f \in [1 .. Cardinality(F) -> F]
        <5>1. ASSUME NEW i \in 1 .. k + 1 PROVE f[i] \in F
          <6>1. i = k + 1 \/ i \in 1 .. k
            BY <4>3
          <6>2. QED
            BY <3>2, <4>3, <6>1
        <5>2. QED
          BY <4>3, <5>1
      <4>5. ASSUME NEW i \in 1 .. k + 1, NEW j \in 1 .. k + 1, i < j PROVE f[i] < f[j]
        <5>1. i \in 1 .. k /\ f[i] = g[i] /\ g[i] \in G
          BY <4>3, <4>5
        <5>2. CASE j = k + 1
          <6>1. f[j] = m - 1 /\ g[i] \in 0 .. (m - 1) - 1
            BY <4>1, <4>3, <5>1, <5>2
          <6>2. QED
            BY <2>0, <5>1, <6>1
        <5>3. CASE j # k + 1
          <6>1. j \in 1 .. k /\ f[j] = g[j]
            BY <4>3, <5>3
          <6>2. QED
            BY <4>2, <4>5, <5>1, <6>1
        <5>4. QED
          BY <5>2, <5>3
      <4>6. DOMAIN f = 1 .. k + 1
        OBVIOUS
      <4> HIDE DEF f
      <4>7. QED
        BY <4>4, <4>5, <4>6
    <3>3. QED
      BY <3>1, <3>2
  <2> HIDE DEF Ascends
  <2>2. QED
    BY <2>0, <2>1
<1>3. n \in T
  <2> HIDE DEF T
  <2>1. \A i \in 0 .. n : i \in T
    BY <1>1, <1>2, UpTo
  <2>2. QED
    BY <2>1
<1>4. QED
  BY <1>3

LEMMA AscendingType ==
  ASSUME NEW n \in Nat, NEW F \in SUBSET (0 .. n - 1)
  PROVE  Ascending(F) \in Seq(Nat)
<1>1. Ascending(F) \in [1 .. Cardinality(F) -> F]
  BY AscendingExists DEF Ascending
<1>2. Cardinality(F) \in Nat /\ F \in SUBSET Nat
  <2>1. Cardinality(F) \in Nat
    BY FramesAreFinite
  <2>2. QED
    BY <2>1
<1>3. Ascending(F) \in [1 .. Cardinality(F) -> Nat]
  BY <1>1, <1>2
<1> HIDE DEF Ascending
<1>4. QED
  BY <1>2, <1>3

\* There is a speaker for each segment, once they are clustered.
DiaTyped ==
  /\ dia \in {"mark", "widen", "emit", "cluster", "done", "crashed"}
  /\ active_frames \in Seq(Nat) /\ nonsil \in Nat /\ num_segment_frames \in Nat
  /\ changed \in BOOLEAN /\ spk_ids \in Seq(Nat)
  /\ dia = "done" => Len(spk_ids) = Len(segmentation)
  /\ dia # "done" => spk_ids = <<>>

LEMMA DiaTypedStep ==
  ASSUME DiaInv, DiaTyped, NEW k \in Nat, Diarize(k)
  PROVE  DiaTyped'
<1> USE DEF DiaTyped
<1>0. num_frames \in Nat /\ voiced \subseteq 0 .. num_frames - 1 /\ segmentation \in Seq(Nat \X Nat)
  BY DEF DiaInv, DiaTypes
<1>1. CASE MarkVoiced
  <2>1. Ascending(Starts) \in Seq(Nat)
    <3>1. Starts \in SUBSET (0 .. num_frames - 1)
      BY <1>0 DEF Starts
    <3>2. QED
      BY <1>0, <3>1, AscendingType
  <2>2. nonsil' \in Nat
    <3>1. Leading \in SUBSET (0 .. num_frames - 1)
      BY DEF Leading
    <3>2. Cardinality(voiced) \in Nat /\ Cardinality(Leading) \in Nat
      BY <1>0, <3>1, FramesAreFinite
    <3>3. \E b \in BOOLEAN :
            nonsil' = Cardinality(voiced) + (IF b THEN Cardinality(Leading) ELSE 0)
      BY <1>1 DEF MarkVoiced
    <3>4. QED
      BY <3>2, <3>3
  <2>3. QED
    BY <1>1, <2>1, <2>2 DEF MarkVoiced
<1>2. CASE WidenOne
  <2> DEFINE n == active_frames[cursor]
  <2>1. /\ dia = "widen" /\ UNCHANGED <<dia, nonsil, spk_ids, segmentation>>
        /\ IF CanWiden(n)
             THEN /\ active_frames' = [active_frames EXCEPT ![cursor] = n - 1]
                  /\ num_segment_frames' = num_segment_frames + 1 /\ changed' = TRUE
             ELSE UNCHANGED <<active_frames, widen_vars>>
    BY <1>2 DEF WidenOne
  <2> HIDE DEF n
  <2>2. CASE CanWiden(n)
    <3>1. n - 1 \in Nat
      BY <2>2 DEF CanWiden, DiaInv, DiaTypes
    <3>2. active_frames' \in Seq(Nat)
      BY <2>1, <2>2, <3>1
    <3>3. QED
      BY <2>1, <2>2, <3>2
  <2>3. CASE ~CanWiden(n)
    BY <2>1, <2>3 DEF widen_vars
  <2>4. QED
    BY <2>2, <2>3
<1>3. CASE WidenRound \/ WidenStops \/ EmitSegment \/ PassFrame \/ SegmentsEmitted \/ ClusterNothing
  BY <1>3
  DEF WidenRound, WidenStops, EmitSegment, PassFrame, SegmentsEmitted, ClusterNothing,
      mark_vars, widen_vars
<1>4. CASE Cluster(k)
  <2> DEFINE n == Len(segmentation)
             m == IF n < k THEN n ELSE k
  <2>1. n \in Nat /\ m \in Nat /\ segmentation # <<>>
    BY <1>0, <1>4 DEF Cluster
  <2>2. (spk_ids' = <<1>> /\ n < 2) \/ spk_ids' \in [1 .. n -> 1 .. m]
    BY <1>4 DEF Cluster
  <2>3. spk_ids' \in Seq(Nat) /\ Len(spk_ids') = n
    <3>1. CASE spk_ids' = <<1>> /\ n < 2
      <4>1. n = 1
        BY <1>0, <2>1, <3>1
      <4>2. QED
        BY <3>1, <4>1
    <3>2. CASE spk_ids' \in [1 .. n -> 1 .. m]
      <4>1. spk_ids' \in [1 .. n -> Nat]
        BY <2>1, <3>2
      <4> HIDE DEF n
      <4>2. QED
        BY <2>1, <4>1
    <3>3. QED
      BY <2>2, <3>1, <3>2
  <2>4. QED
    BY <1>4, <2>3 DEF Cluster, mark_vars, widen_vars
<1>5. QED
  BY <1>1, <1>2, <1>3, <1>4 DEF Diarize
-------------------------------------------------------------------------------
\* The types of the formatter, whichever grammar it is given

FormatTyped ==
  /\ FormatType
  /\ place \in {"within", "late"} => n_taken < Len(words)
  /\ stage \in {"diarize", "paths"} => n_taken = 0

LEMMA FormatTypedStep ==
  ASSUME FormatTyped, stage = "format", UNCHANGED stage, Format
  PROVE  FormatTyped'
<1>0. /\ words \in Seq(Weights) /\ n_taken \in 0 .. Len(words) /\ n_early \in Nat
      /\ Len(words) \in Nat /\ first_missed \in Nat /\ ConvertTyped
  BY DEF FormatTyped, FormatType, ConvertTyped, WordAlis
<1>1. ASSUME NEW text \in Texts, TakeBytes(text) \/ PutText(text) PROVE FormatTyped'
  <2>1. /\ place' = "within" /\ n_taken < Len(words) /\ UNCHANGED <<words, n_taken>>
        /\ n_early' \in Nat /\ first_missed' \in Nat /\ ConvertText(One, text)
    BY <1>0, <1>1 DEF TakeBytes, PutText, Misses, FormatTyped
  <2>2. ConvertTyped'
    BY <1>0, <2>1, ConvertTextType, ZeroAndOne, FormatterAssumption
  <2>3. QED
    BY <1>0, <2>1, <2>2 DEF FormatTyped, FormatType, ConvertTyped, WordAlis
<1>2. ASSUME PutSpace PROVE FormatTyped'
  <2>1. /\ place' = "late" /\ n_taken < Len(words) /\ UNCHANGED <<words, n_taken>>
        /\ n_early' \in Nat /\ first_missed' \in Nat /\ ConvertSpace(One, n_taken + 1)
    BY <1>0, <1>2 DEF PutSpace, Misses, FormatTyped
  <2>2. ConvertTyped'
    BY <1>0, <2>1, ConvertSpaceType, ZeroAndOne
  <2>3. QED
    BY <1>0, <2>1, <2>2 DEF FormatTyped, FormatType, ConvertTyped, WordAlis
<1>3. ASSUME TakeSpace \/ DropSpace PROVE FormatTyped'
  <2>1. /\ place \in {"within", "late"} /\ n_taken' = n_taken + 1 /\ place' = "before"
        /\ UNCHANGED <<words, n_early>> /\ first_missed' \in Nat
        /\ \/ ConvertSpace(words[n_taken + 1], n_taken + 1)
           \/ ConvertText(words[n_taken + 1], <<>>)
    BY <1>0, <1>3 DEF TakeSpace, DropSpace, Misses
  <2>2. n_taken + 1 \in 1 .. Len(words)
    BY <1>0, <2>1 DEF FormatTyped
  <2>3. words[n_taken + 1] \in Weights /\ n_taken + 1 \in Nat /\ <<>> \in Seq(STRING)
    BY <1>0, <2>2
  <2>4. ConvertTyped'
    BY <1>0, <2>1, <2>3, ConvertTextType, ConvertSpaceType
  <2>5. QED
    BY <1>0, <2>1, <2>2, <2>4 DEF FormatTyped, FormatType, ConvertTyped, WordAlis
<1>4. QED
  BY <1>1, <1>2, <1>3 DEF Format
-------------------------------------------------------------------------------
\* The types of the call

Decisions == [spk_id: Nat, start_frame: Nat, end_frame: Nat]

CallTyped ==
  /\ call \in Calls
  /\ stage \in {"diarize", "paths", "format", "punctuate", "others", "respond", "done",
                "crashed"}
  /\ status \in {"none", "OK", "INTERNAL"}
  /\ n_paths \in Nat /\ best_aligned \in Seq(WordAlis)
  /\ diarization_decisions \in Seq(Decisions)
  /\ \A i \in DOMAIN response : response[i].speaker_tag \in Nat

TInv == DiaInv /\ DiaTyped /\ FormatTyped /\ CallTyped

\* What the paths of a call are aligned to.
LEMMA HeardType ==
  ASSUME call \in Calls, NEW path \in call.best_paths
  PROVE  WordAlignments(path) \in Seq(WordAlis)
  BY CallPaths, PathWordsFollow

\* TagSpeaker() finds the first segment, if there is one.
LEMMA SpeakerIsDecided ==
  ASSUME diarization_decisions \in Seq(Decisions), NEW ms \in Int, SegmentsAt(ms) # {}
  PROVE  \E i \in SegmentsAt(ms) : SpeakerAt(ms) = diarization_decisions[i].spk_id
<1>1. SegmentsAt(ms) \in SUBSET Nat
  BY DEF SegmentsAt
<1>2. \E i \in SegmentsAt(ms) : \A j \in SegmentsAt(ms) : i <= j
  BY <1>1, LeastNat
<1> DEFINE first == CHOOSE i \in SegmentsAt(ms) : \A j \in SegmentsAt(ms) : i <= j
<1>3. first \in SegmentsAt(ms)
  BY <1>2
<1>4. SpeakerAt(ms) = diarization_decisions[first].spk_id
  BY DEF SpeakerAt
<1>5. QED
  BY <1>3, <1>4

LEMMA SpeakerType ==
  ASSUME diarization_decisions \in Seq(Decisions), NEW ms \in Int
  PROVE  SpeakerAt(ms) \in Nat
<1>1. CASE SegmentsAt(ms) = {}
  BY <1>1 DEF SpeakerAt
<1>2. CASE SegmentsAt(ms) # {}
  <2>1. PICK i \in SegmentsAt(ms) : SpeakerAt(ms) = diarization_decisions[i].spk_id
    BY <1>2, SpeakerIsDecided
  <2>2. diarization_decisions[i] \in Decisions
    BY <2>1 DEF SegmentsAt
  <2>3. QED
    BY <2>1, <2>2 DEF Decisions
<1>3. QED
  BY <1>1, <1>2

\* The way of a time through a Duration and back.
LEMMA DurationReturns ==
  ASSUME NEW ms \in Int
  PROVE  ToMillis(ToDuration(ms)) = ms
<1> DEFINE d == ToDuration(ms)
<1>1. d.seconds = ms \div 1000 /\ d.nanos = (ms % 1000) * 1000000
  BY DEF ToDuration
<1>2. ms = (ms \div 1000) * 1000 + (ms % 1000)
  OBVIOUS
<1>3. ((ms % 1000) * 1000000) \div 1000000 = ms % 1000
  <2>1. ms % 1000 \in Int
    OBVIOUS
  <2>2. \A r \in Int : (r * 1000000) \div 1000000 = r
    OBVIOUS
  <2>3. QED
    BY <2>1, <2>2
<1> HIDE DEF d
<1>4. ToMillis(d) = ms
  BY <1>1, <1>2, <1>3 DEF ToMillis
<1>5. QED
  BY <1>4 DEF d

LEMMA WeightType ==
  ASSUME NEW ali \in WordAlis
  PROVE  ali.weight \in Weights /\ ali.weight.start \in Int /\ ali.weight.end \in Int
<1>1. ali.weight \in Weights
  BY DEF WordAlis
<1>2. ali.weight.start \in Values /\ ali.weight.end \in Values
  BY <1>1 DEF Weights
<1>3. QED
  BY <1>1, <1>2, InfAssumption DEF Values

LEMMA WeightsOfWords ==
  ASSUME NEW alis \in Seq(WordAlis)
  PROVE  [i \in DOMAIN alis |-> alis[i].weight] \in Seq(Weights)
<1>1. \A i \in DOMAIN alis : alis[i].weight \in Weights
  <2>1. \A i \in DOMAIN alis : alis[i] \in WordAlis
    OBVIOUS
  <2>2. QED
    BY <2>1, WeightType
<1>2. DOMAIN alis = 1 .. Len(alis) /\ Len(alis) \in Nat
  OBVIOUS
<1>3. QED
  BY <1>1, <1>2

LEMMA EmptySequences ==
  ASSUME NEW T
  PROVE  <<>> \in Seq(T) /\ Len(<<>>) = 0 /\ DOMAIN <<>> = {}
OBVIOUS

LEMMA TypeStep == TInv /\ [Next]_vars => TInv'
<1> SUFFICES ASSUME TInv, [Next]_vars PROVE TInv'
  OBVIOUS
<1> USE DEF TInv
<1>0. DiaInv'
  BY DiaInvStep
<1>1. CASE RunDiarizer
  <2>1. NumSpeakers \in Nat
    BY TranscriptAssumption DEF CallTyped, NumSpeakers
  <2>2. DiaTyped'
    BY <1>1, <2>1, DiaTypedStep DEF RunDiarizer
  <2>3. FormatTyped' /\ CallTyped'
    BY <1>1
    DEF RunDiarizer, FormatTyped, FormatType, CallTyped, format_vars, path_vars, convert_vars,
        call_vars, out_vars
  <2>4. QED
    BY <1>0, <2>2, <2>3
<1>2. CASE Diarized
  <2>1. DiaTyped'
    BY <1>2, EmptySequences DEF Diarized, DiaTyped
  <2>2. FormatTyped'
    BY <1>2 DEF Diarized, FormatTyped, FormatType, format_vars, path_vars, convert_vars
  <2>3. diarization_decisions' \in Seq(Decisions)
    <3> DEFINE decision(i) == [spk_id |-> spk_ids[i], start_frame |-> segmentation[i][1],
                               end_frame |-> segmentation[i][2]]
    <3>1. spk_ids \in Seq(Nat) /\ segmentation \in Seq(Nat \X Nat)
      BY DEF DiaTyped, DiaInv, DiaTypes
    <3>2. ASSUME NEW i \in DOMAIN spk_ids PROVE decision(i) \in Decisions
      <4>1. Len(spk_ids) = Len(segmentation)
        BY <3>2 DEF DiaTyped
      <4>2. segmentation[i] \in Nat \X Nat /\ spk_ids[i] \in Nat
        BY <3>1, <4>1
      <4>3. QED
        BY <4>2 DEF Decisions
    <3>3. diarization_decisions' = [i \in DOMAIN spk_ids |-> decision(i)]
      BY <1>2 DEF Diarized
    <3> HIDE DEF decision
    <3>4. diarization_decisions' = [i \in 1 .. Len(spk_ids) |-> decision(i)]
      BY <3>1, <3>3
    <3>5. \A i \in 1 .. Len(spk_ids) : decision(i) \in Decisions
      BY <3>1, <3>2
    <3>6. QED
      BY <3>1, <3>4, <3>5
  <2>4. CallTyped'
    BY <1>2, <2>3 DEF Diarized, CallTyped, out_vars
  <2>5. QED
    BY <1>0, <2>1, <2>2, <2>4
<1>3. CASE FindPaths
  <2>1. DiaTyped'
    BY <1>3 DEF FindPaths, DiaTyped, dia_vars, mark_vars, widen_vars
  <2>2. n_paths' \in Nat
    BY <1>3, TranscriptAssumption DEF FindPaths, CallTyped, GetShortestPaths, MaxAlternatives
  <2>3. best_aligned' \in Seq(WordAlis)
    BY <1>3, HeardType DEF FindPaths, CallTyped
  <2>4. CallTyped'
    BY <1>3, <2>2, <2>3 DEF FindPaths, CallTyped, GetResultsReturns
  <2>5. FormatTyped'
    <3>1. CASE UNCHANGED format_vars
      BY <1>3, <3>1
      DEF FindPaths, GetResultsReturns, FormatTyped, FormatType, format_vars, path_vars,
          convert_vars
    <3>2. CASE ~UNCHANGED format_vars
      <4>1. /\ StartFormat([i \in DOMAIN best_aligned' |-> best_aligned'[i].weight])
            /\ stage' = "format" /\ stage = "paths"
        BY <1>3, <3>2 DEF FindPaths
      <4>2. [i \in DOMAIN best_aligned' |-> best_aligned'[i].weight] \in Seq(Weights)
        <5>1. best_aligned' \in Seq(WordAlis)
          BY <2>3
        <5>2. QED
          BY <5>1, WeightsOfWords
      <4>3. words' \in Seq(Weights) /\ Len(words') \in Nat
        BY <4>1, <4>2 DEF StartFormat
      <4>4. QED
        BY <4>1, <4>3 DEF StartFormat, FormatTyped, FormatType, convert_vars
    <3>3. QED
      BY <3>1, <3>2
  <2>6. QED
    BY <1>0, <2>1, <2>4, <2>5
<1>4. CASE RunFormatter
  <2>1. DiaTyped' /\ CallTyped'
    BY <1>4 DEF RunFormatter, DiaTyped, CallTyped, dia_vars, mark_vars, widen_vars, call_vars,
                out_vars
  <2>2. FormatTyped'
    BY <1>4, FormatTypedStep DEF RunFormatter
  <2>3. QED
    BY <1>0, <2>1, <2>2
<1>5. CASE FormatFails
  <2>1. DiaTyped' /\ CallTyped'
    BY <1>5 DEF FormatFails, DiaTyped, CallTyped, dia_vars, mark_vars, widen_vars, call_vars
  <2>2. FormatTyped'
    BY <1>5 DEF FormatFails, FormatTyped, FormatType, convert_vars
  <2>3. QED
    BY <1>0, <2>1, <2>2
<1>6. CASE Respond
  <2>1. DiaTyped' /\ FormatTyped'
    BY <1>6 DEF Respond, DiaTyped, dia_vars, mark_vars, widen_vars, FormatTyped, FormatType,
                format_vars, path_vars, convert_vars
  <2>2. ASSUME NEW i \in DOMAIN best_aligned, NEW spelled, NEW untimed \in UntimedMillis
        PROVE  WordInfo(best_aligned[i], spelled, untimed).speaker_tag \in Nat
    <3>1. best_aligned[i] \in WordAlis /\ diarization_decisions \in Seq(Decisions)
      BY DEF CallTyped
    <3> DEFINE ms == MillisOf(best_aligned[i].weight.start, untimed)
    <3>2. ms \in Int
      BY <3>1, WeightType DEF MillisOf, UntimedMillis
    <3> HIDE DEF ms
    <3>3. SpeakerAt(ToMillis(ToDuration(ms))) \in Nat
      BY <3>1, <3>2, DurationReturns, SpeakerType
    <3>4. QED
      BY <3>3 DEF WordInfo, ms
  <2>3. \A i \in DOMAIN response' : response'[i].speaker_tag \in Nat
    <3>1. \/ response' = response \/ response' = <<>>
          \/ \E untimed \in UntimedMillis :
               response' = [i \in DOMAIN best_aligned |->
                              WordInfo(best_aligned[i], transcripts[1][i], untimed)]
      BY <1>6 DEF Respond
    <3>2. DOMAIN <<>> = {}
      OBVIOUS
    <3>3. QED
      BY <2>2, <3>1, <3>2 DEF CallTyped
  <2>4. CallTyped'
    BY <1>6, <2>3 DEF Respond, CallTyped, call_vars
  <2>5. QED
    BY <1>0, <2>1, <2>4
<1>7. CASE FormatWords
  <2>1. DiaTyped' /\ FormatTyped'
    BY <1>7 DEF FormatWords, DiaTyped, dia_vars, mark_vars, widen_vars, FormatTyped, FormatType,
                format_vars, path_vars, convert_vars
  <2>2. CallTyped'
    BY <1>7 DEF FormatWords, CallTyped, call_vars, FormatTyped, FormatType, WordAlis
  <2>3. QED
    BY <1>0, <2>1, <2>2
<1>8. CASE /\ UNCHANGED <<dia_vars, format_vars, call_vars, best_aligned, response, status>>
           /\ stage' \in {"others", "respond", "crashed", stage}
  BY <1>0, <1>8
  DEF DiaTyped, dia_vars, mark_vars, widen_vars, FormatTyped, FormatType, format_vars,
      path_vars, convert_vars, call_vars, CallTyped
<1>9. \/ RunDiarizer \/ Diarized \/ FindPaths \/ RunFormatter \/ FormatWords \/ FormatFails
      \/ Respond
      \/ /\ UNCHANGED <<dia_vars, format_vars, call_vars, best_aligned, response, status>>
         /\ stage' \in {"others", "respond", "crashed", stage}
  BY StepCases
  DEF NotPunctuated, PunctuateThrows, PunctuateBreaks, PunctuateWords, OtherTranscripts,
      GetResultsReturns, vars, out_vars
<1>10. QED
  BY <1>1, <1>2, <1>3, <1>4, <1>5, <1>6, <1>7, <1>8, <1>9
-------------------------------------------------------------------------------
\* What GetResults() does

\* A transcript has been made: the context is the words it joins, if they are punctuated
\* and there are any, and the one the call was made with otherwise.
Told == stage = "others" \/ result.kind = "result"

ContextFits ==
  IF Punctuating /\ best_aligned # <<>>
    THEN left_context # <<>> /\ left_context = transcripts[1]
    ELSE left_context = call.left_context /\ (Punctuating => left_context # <<>>)

\* Only the rewriting leaves no words where some were heard, and what is returned says so.
RInv ==
  /\ stage \in {"diarize", "paths", "format", "punctuate"} => left_context = call.left_context
  /\ stage = "format" => call.formatter
  /\ stage = "punctuate" \/ Told => (best_aligned = <<>> => call.formatter)
  /\ stage = "others" => transcripts = <<transcripts[1]>>
  /\ Told => ContextFits
  /\ result.kind = "result" => stage \in {"respond", "done"}
  /\ stage \in {"respond", "done"} =>
       /\ result.kind \in {"none", "throw", "result"}
       /\ result.words = (best_aligned # <<>>)
       /\ result.opens = (call.punctuate /\ call.punctuator /\ call.left_context = <<>>)

LEMMA EmptyFunction ==
  ASSUME NEW f, f = [i \in DOMAIN f |-> f[i]], DOMAIN f = {}
  PROVE  f = <<>>
OBVIOUS

\* There is a punctuated word for each word.
LEMMA SpelledEmpty ==
  ASSUME best_aligned \in Seq(WordAlis)
  PROVE  /\ Texts1 = <<>> <=> best_aligned = <<>>
         /\ \A marks : /\ Punctuate(Texts1, marks) = <<>> <=> best_aligned = <<>>
                       /\ CapitalizeFirst(Punctuate(Texts1, marks)) = <<>> => best_aligned = <<>>
<1>1. DOMAIN best_aligned = {} <=> best_aligned = <<>>
  OBVIOUS
<1>2. DOMAIN Texts1 = DOMAIN best_aligned /\ Texts1 = [i \in DOMAIN Texts1 |-> Texts1[i]]
  BY DEF Texts1
<1>3. Texts1 = <<>> <=> best_aligned = <<>>
  BY <1>1, <1>2, EmptyFunction, EmptySequences
<1>4. ASSUME NEW marks
      PROVE  /\ Punctuate(Texts1, marks) = <<>> <=> best_aligned = <<>>
             /\ CapitalizeFirst(Punctuate(Texts1, marks)) = <<>> => best_aligned = <<>>
  <2> DEFINE p == Punctuate(Texts1, marks)
  <2>1. DOMAIN p = DOMAIN best_aligned /\ p = [i \in DOMAIN p |-> p[i]]
    BY <1>2 DEF Punctuate
  <2> HIDE DEF p
  <2>2. DOMAIN CapitalizeFirst(p) = DOMAIN p
    BY DEF CapitalizeFirst
  <2>3. p = <<>> <=> best_aligned = <<>>
    BY <1>1, <2>1, EmptyFunction, EmptySequences
  <2>4. CapitalizeFirst(p) = <<>> => best_aligned = <<>>
    BY <1>1, <2>1, <2>2, EmptySequences
  <2>5. QED
    BY <2>3, <2>4 DEF p
<1>5. QED
  BY <1>3, <1>4

LEMMA PunctuateWordsFits ==
  ASSUME RInv, best_aligned \in Seq(WordAlis), PunctuateWords
  PROVE  ContextFits' /\ transcripts' = <<transcripts'[1]>>
<1>1. PICK ids \in [DOMAIN Pieces -> Ids] :
        LET punctuated == Punctuate(Texts1, WordMarks(Pieces, ids))
            spelled == IF left_context = <<>> \/ EndsSentence(left_context)
                         THEN CapitalizeFirst(punctuated) ELSE punctuated
        IN FirstTranscript(spelled) /\ left_context' = NextContext(spelled)
  BY DEF PunctuateWords
<1> DEFINE punctuated == Punctuate(Texts1, WordMarks(Pieces, ids))
           spelled == IF left_context = <<>> \/ EndsSentence(left_context)
                        THEN CapitalizeFirst(punctuated) ELSE punctuated
<1>2. /\ transcripts' = <<spelled>> /\ left_context' = NextContext(spelled)
      /\ stage = "punctuate" /\ Punctuating /\ UNCHANGED <<call, best_aligned>>
      /\ Texts1 = <<>> => left_context # <<>> /\ ~EndsSentence(left_context)
  BY <1>1 DEF PunctuateWords, FirstTranscript, call_vars
<1>3. /\ Texts1 = <<>> <=> best_aligned = <<>>
      /\ punctuated = <<>> <=> best_aligned = <<>>
      /\ CapitalizeFirst(punctuated) = <<>> => best_aligned = <<>>
  BY SpelledEmpty
<1> HIDE DEF punctuated
<1>4. spelled = <<>> <=> best_aligned = <<>>
  BY <1>2, <1>3
<1> HIDE DEF spelled
<1>5. transcripts'[1] = spelled
  BY <1>2
<1>6. left_context = call.left_context /\ Punctuating'
  BY <1>2 DEF RInv, Punctuating
<1>7. QED
  BY <1>2, <1>3, <1>4, <1>5, <1>6 DEF ContextFits, NextContext

LEMMA ResultsStep == TInv /\ RInv /\ [Next]_vars => RInv'
<1> SUFFICES ASSUME TInv, RInv, [Next]_vars PROVE RInv'
  OBVIOUS
<1> USE DEF RInv, Told
<1>0. best_aligned \in Seq(WordAlis) /\ n_paths \in Nat
  BY DEF TInv, CallTyped
<1>1. CASE FindPaths
  BY <1>1 DEF FindPaths, GetResultsReturns
<1>2. CASE FormatWords \/ FormatFails
  BY <1>2 DEF FormatWords, FormatFails, call_vars
<1>3. CASE NotPunctuated
  <2>1. transcripts' = <<[i \in DOMAIN Texts1 |-> Plain(Texts1[i])]>>
    BY <1>3 DEF NotPunctuated, FirstTranscript
  <2>2. QED
    BY <1>3, <2>1 DEF NotPunctuated, call_vars, ContextFits, Punctuating
<1>4. CASE PunctuateWords
  <2>1. ContextFits' /\ transcripts' = <<transcripts'[1]>>
    BY <1>0, <1>4, PunctuateWordsFits
  <2>2. QED
    BY <1>4, <2>1 DEF PunctuateWords, call_vars
<1>5. CASE PunctuateThrows
  BY <1>5 DEF PunctuateThrows, GetResultsReturns, call_vars
<1>6. CASE OtherTranscripts
  <2>1. PICK spelled : transcripts = <<spelled>>
    BY <1>6 DEF OtherTranscripts
  <2>2. PICK n \in 0 .. n_paths - 1 : transcripts' = transcripts \o [i \in 1 .. n |-> <<>>]
    BY <1>6 DEF OtherTranscripts
  <2>3. transcripts'[1] = transcripts[1]
    <3> DEFINE others == [i \in 1 .. n |-> <<>>]
               T == {spelled, <<>>}
    <3>1. others \in Seq(T) /\ transcripts \in Seq(T) /\ Len(transcripts) = 1
      BY <1>0, <2>1
    <3> HIDE DEF others, T
    <3>2. (transcripts \o others)[1] = transcripts[1]
      <4>1. Len(others) \in Nat /\ 1 \in 1 .. Len(transcripts) + Len(others)
        BY <3>1
      <4>2. QED
        BY <3>1, <4>1, ConcatProperties
    <3>3. QED
      BY <2>2, <3>1, <3>2 DEF others
  <2>4. ContextFits'
    BY <1>6, <2>3 DEF OtherTranscripts, ContextFits, Punctuating, call_vars
  <2>5. QED
    BY <1>6, <2>4 DEF OtherTranscripts, GetResultsReturns, call_vars
<1>7. CASE Respond
  BY <1>7 DEF Respond, call_vars, ContextFits, Punctuating
<1>8. CASE /\ UNCHANGED <<call, best_aligned, transcripts, left_context, result>>
           /\ \/ stage' = stage
              \/ stage = "punctuate" /\ stage' = "crashed"
              \/ stage = "diarize" /\ stage' = "paths"
  <2>1. ContextFits' <=> ContextFits
    BY <1>8 DEF ContextFits, Punctuating
  <2>2. QED
    BY <1>8, <2>1
<1>9. QED
  BY <1>1, <1>2, <1>3, <1>4, <1>5, <1>6, <1>7, <1>8, StepCases
  DEF RunDiarizer, Diarized, RunFormatter, PunctuateBreaks, vars, call_vars, out_vars
-------------------------------------------------------------------------------
\* The speakers of the words

\* Segments that are in order are in order pairwise.
LEMMA SegmentsApart ==
  ASSUME segmentation \in Seq(Nat \X Nat), SegmentsInOrder
  PROVE  \A i, j \in 1 .. Len(segmentation) : i < j => segmentation[i][2] <= segmentation[j][1]
<1> DEFINE k == Len(segmentation)
           T == {m \in 0 .. k : \A i \in 1 .. m - 1 : m > 0 => segmentation[i][2] <= segmentation[m][1]}
<1>1. k \in Nat /\ \A i \in 1 .. k : segmentation[i][1] \in Nat /\ segmentation[i][2] \in Nat
  <2>1. \A i \in 1 .. k : segmentation[i] \in Nat \X Nat
    OBVIOUS
  <2>2. QED
    BY <2>1
<1>2. \A i \in 1 .. k : /\ segmentation[i][1] < segmentation[i][2]
                        /\ i > 1 => segmentation[i - 1][2] <= segmentation[i][1]
  BY DEF SegmentsInOrder
<1> HIDE DEF k
<1>3. 0 \in T
  BY <1>1
<1>4. ASSUME NEW m \in 1 .. k, m - 1 \in T PROVE m \in T
  <2>1. ASSUME NEW i \in 1 .. m - 1 PROVE segmentation[i][2] <= segmentation[m][1]
    <3>1. m > 1 /\ m - 1 \in 1 .. k /\ i \in 1 .. k
      BY <1>1, <2>1
    <3>2. segmentation[m - 1][2] <= segmentation[m][1]
      BY <1>2, <3>1
    <3>3. CASE i = m - 1
      BY <3>2, <3>3
    <3>4. CASE i # m - 1
      <4>1. i \in 1 .. (m - 1) - 1 /\ m - 1 > 0
        BY <1>1, <2>1, <3>1, <3>4
      <4>2. segmentation[i][2] <= segmentation[m - 1][1]
        BY <1>4, <4>1
      <4>3. segmentation[m - 1][1] < segmentation[m - 1][2]
        BY <1>2, <3>1
      <4> DEFINE w == segmentation[i][2]
                 x == segmentation[m - 1][1]
                 y == segmentation[m - 1][2]
                 z == segmentation[m][1]
      <4>4. /\ w \in Nat /\ x \in Nat /\ y \in Nat /\ z \in Nat
            /\ w <= x /\ x < y /\ y <= z
        BY <1>1, <3>1, <3>2, <4>2, <4>3
      <4> HIDE DEF w, x, y, z
      <4>5. w <= z
        BY <4>4
      <4>6. QED
        BY <4>5 DEF w, z
    <3>5. QED
      BY <3>3, <3>4
  <2>2. m \in 0 .. k
    BY <1>1
  <2>3. QED
    BY <2>1, <2>2
<1>5. \A m \in 0 .. k : m \in T
  <2> HIDE DEF T
  <2>1. QED
    BY <1>1, <1>3, <1>4, UpTo
<1>6. ASSUME NEW i \in 1 .. k, NEW j \in 1 .. k, i < j
      PROVE  segmentation[i][2] <= segmentation[j][1]
  <2>1. j \in T /\ i \in 1 .. j - 1 /\ j > 0
    BY <1>1, <1>5, <1>6
  <2>2. QED
    BY <2>1
<1>7. QED
  BY <1>6 DEF k

\* No two segments have a frame in common.
DecisionsApart ==
  \A i, j \in DOMAIN diarization_decisions :
    i < j => diarization_decisions[i].end_frame <= diarization_decisions[j].start_frame

\* The words that go into the response are those that the rewriting put out, and it put
\* out each with its time.
WordsRewritten ==
  /\ stage \in {"punctuate", "others", "respond", "done"} /\ call.formatter =>
       best_aligned = <<>> \/ (best_aligned = word_alis /\ place = "before")

\* A recognized word starts at the time of its first frame.
StartsAt(weight, i) ==
  first_frames[i] \in 0 .. MaxAligned /\ weight.start = FramesToMillis(first_frames[i])

WordsStart ==
  /\ stage \in {"diarize", "paths"} => words = <<>>
  /\ stage = "format" => call.formatter
  /\ \A i \in DOMAIN words : StartsAt(words[i], i)
  /\ ~call.formatter => \A i \in DOMAIN best_aligned : StartsAt(best_aligned[i].weight, i)

\* A word that has a time is tagged with the speaker at its start.
IsTimed(weight) == weight.start \notin {-Inf, Inf}

WordsTagged ==
  /\ stage # "done" => response = <<>>
  /\ call.diarizer =>
       \A i \in DOMAIN response :
         /\ i \in DOMAIN best_aligned
         /\ IsTimed(best_aligned[i].weight) =>
              response[i].speaker_tag = SpeakerAt(best_aligned[i].weight.start)

GInv == DecisionsApart /\ WordsRewritten /\ WordsStart /\ WordsTagged

\* The words are aligned once, and from there on they are rewritten or given up.
LEMMA WordsStartStep ==
  ASSUME TInv, GInv, [Next]_vars
  PROVE  WordsStart'
<1> USE DEF GInv, WordsStart
<1>1. CASE FindPaths
  <2>1. CASE best_aligned' = <<>> /\ UNCHANGED <<format_vars, first_frames, call>>
             /\ stage' = "respond"
    BY <1>1, <2>1, EmptySequences DEF FindPaths, format_vars, path_vars
  <2>2. CASE ~(best_aligned' = <<>> /\ UNCHANGED <<format_vars, first_frames, call>>
               /\ stage' = "respond")
    <3>1. PICK path \in call.best_paths :
            /\ best_aligned' = WordAlignments(path) /\ first_frames' = FirstFrames(path)
            /\ stage' = IF call.formatter THEN "format" ELSE "punctuate"
            /\ IF call.formatter
                 THEN StartFormat([i \in DOMAIN best_aligned' |-> best_aligned'[i].weight])
                 ELSE UNCHANGED format_vars
            /\ UNCHANGED call /\ stage = "paths"
      BY <1>1, <2>2 DEF FindPaths, GetResultsReturns
    <3>2. BeginAt(best_aligned', first_frames')
      BY <3>1, CallPaths, PathWordsFollow DEF TInv, CallTyped
    <3>3. \A i \in DOMAIN best_aligned' : StartsAt(best_aligned[i].weight, i)'
      BY <3>2 DEF BeginAt, StartsAt
    <3>4. \A i \in DOMAIN words' : StartsAt(words[i], i)'
      <4>1. CASE call.formatter
        <5>1. words' = [i \in DOMAIN best_aligned' |-> best_aligned'[i].weight]
          BY <3>1, <4>1 DEF StartFormat
        <5>2. QED
          BY <3>3, <5>1 DEF StartsAt
      <4>2. CASE ~call.formatter
        BY <3>1, <4>2, EmptySequences DEF format_vars, path_vars
      <4>3. QED
        BY <4>1, <4>2
    <3>5. QED
      BY <3>1, <3>3, <3>4
  <2>3. QED
    BY <2>1, <2>2
<1>2. CASE RunFormatter
  <2>1. words' = words
    BY <1>2 DEF RunFormatter, Format, TakeBytes, PutText, PutSpace, TakeSpace, DropSpace
  <2>2. QED
    BY <1>2, <2>1 DEF RunFormatter, call_vars, out_vars, StartsAt
<1>3. CASE FormatWords
  BY <1>3 DEF FormatWords, format_vars, path_vars, call_vars, StartsAt
<1>4. CASE FormatFails
  BY <1>4, EmptySequences DEF FormatFails, call_vars, StartsAt
<1>5. CASE /\ UNCHANGED <<call, first_frames, best_aligned, words>>
           /\ \/ stage' = stage \/ stage' \notin {"diarize", "paths", "format"}
              \/ stage = "diarize" /\ stage' = "paths"
  BY <1>5 DEF StartsAt
<1>6. QED
  BY <1>1, <1>2, <1>3, <1>4, <1>5, StepCases
  DEF RunDiarizer, Diarized, NotPunctuated, PunctuateThrows, PunctuateBreaks, PunctuateWords,
      OtherTranscripts, Respond, GetResultsReturns, vars, call_vars, out_vars, format_vars,
      path_vars

LEMMA TagsStep == TInv /\ GInv /\ [Next]_vars => GInv'
<1> SUFFICES ASSUME TInv, GInv, [Next]_vars PROVE GInv'
  OBVIOUS
<1> USE DEF GInv
<1>0. WordsStart'
  BY WordsStartStep
<1>1. CASE Diarized
  <2>1. /\ spk_ids \in Seq(Nat) /\ segmentation \in Seq(Nat \X Nat) /\ SegmentsInOrder
        /\ spk_ids = <<>> \/ Len(spk_ids) = Len(segmentation)
    BY DEF TInv, DiaTyped, DiaInv, DiaTypes
  <2>2. /\ DOMAIN diarization_decisions' = DOMAIN spk_ids
        /\ \A i \in DOMAIN spk_ids :
             /\ diarization_decisions'[i].start_frame = segmentation[i][1]
             /\ diarization_decisions'[i].end_frame = segmentation[i][2]
    BY <1>1 DEF Diarized
  <2>3. DOMAIN spk_ids \subseteq 1 .. Len(segmentation)
    BY <2>1
  <2>4. DecisionsApart'
    BY <2>1, <2>2, <2>3, SegmentsApart DEF DecisionsApart
  <2>5. WordsRewritten' /\ WordsTagged'
    BY <1>1, EmptySequences DEF Diarized, WordsRewritten, WordsTagged, out_vars
  <2>6. QED
    BY <1>0, <2>4, <2>5
<1>2. CASE Respond
  <2>1. ASSUME NEW i \in DOMAIN best_aligned, NEW spelled, NEW untimed, call.diarizer,
               IsTimed(best_aligned[i].weight)
        PROVE  WordInfo(best_aligned[i], spelled, untimed).speaker_tag
                 = SpeakerAt(best_aligned[i].weight.start)
    <3>1. best_aligned[i].weight.start \in Int
      <4>1. best_aligned[i] \in WordAlis
        BY DEF TInv, CallTyped
      <4>2. QED
        BY <4>1, WeightType
    <3>2. MillisOf(best_aligned[i].weight.start, untimed) = best_aligned[i].weight.start
      BY <2>1 DEF MillisOf, IsTimed
    <3>3. QED
      BY <2>1, <3>1, <3>2, DurationReturns DEF WordInfo
  <2>2. \/ response' = <<>>
        \/ \E untimed :
             response' = [i \in DOMAIN best_aligned |->
                            WordInfo(best_aligned[i], transcripts[1][i], untimed)]
    BY <1>2 DEF Respond, WordsTagged
  <2>3. call.diarizer =>
          \A i \in DOMAIN response' :
            /\ i \in DOMAIN best_aligned
            /\ IsTimed(best_aligned[i].weight) =>
                 response'[i].speaker_tag = SpeakerAt(best_aligned[i].weight.start)
    BY <2>1, <2>2, EmptySequences
  <2>4. UNCHANGED <<call_vars, best_aligned, word_alis, place>> /\ stage' = "done"
        /\ stage = "respond"
    BY <1>2 DEF Respond, format_vars, path_vars, convert_vars
  <2>5. DecisionsApart' /\ WordsRewritten'
    BY <2>4 DEF call_vars, DecisionsApart, WordsRewritten
  <2>6. ASSUME call.diarizer, NEW i \in DOMAIN response'
        PROVE  /\ i \in DOMAIN best_aligned'
               /\ IsTimed(best_aligned[i].weight)' =>
                    response'[i].speaker_tag = SpeakerAt(best_aligned[i].weight.start)'
    <3>1. SpeakerAt(best_aligned[i].weight.start)' = SpeakerAt(best_aligned[i].weight.start)
      BY <2>4 DEF call_vars, SpeakerAt, SegmentsAt
    <3>2. QED
      BY <2>3, <2>4, <2>6, <3>1 DEF IsTimed
  <2>7. QED
    BY <1>0, <2>4, <2>5, <2>6 DEF call_vars, WordsTagged
<1>3. CASE FindPaths \/ FormatWords \/ FormatFails
  <2>1. /\ UNCHANGED <<call, diarization_decisions, response>>
        /\ stage' \in {"format", "punctuate", "respond"} /\ stage \in {"paths", "format"}
    BY <1>3 DEF FindPaths, FormatWords, FormatFails, GetResultsReturns, call_vars
  <2>2. WordsRewritten'
    BY <1>3
    DEF FindPaths, FormatWords, FormatFails, Formatted, WordsRewritten, GetResultsReturns,
        format_vars, path_vars, convert_vars, call_vars
  <2>3. response' = <<>>
    BY <2>1 DEF WordsTagged
  <2>4. QED
    BY <1>0, <2>1, <2>2, <2>3, EmptySequences DEF DecisionsApart, WordsTagged
<1>4. CASE /\ UNCHANGED <<call, diarization_decisions, response, best_aligned>>
           /\ UNCHANGED <<word_alis, place>> \/ (stage' = "format" /\ stage = "format")
           /\ \/ stage' = stage
              \/ /\ stage \in {"punctuate", "others"}
                 /\ stage' \in {"others", "respond", "crashed"}
  <2>1. DecisionsApart' /\ WordsRewritten'
    BY <1>4 DEF DecisionsApart, WordsRewritten
  <2>2. \A ms : SpeakerAt(ms)' = SpeakerAt(ms)
    BY <1>4 DEF SpeakerAt, SegmentsAt
  <2>3. stage' # "done" => stage # "done"
    BY <1>4
  <2>4. WordsTagged'
    BY <1>4, <2>2, <2>3 DEF WordsTagged, IsTimed
  <2>5. QED
    BY <1>0, <2>1, <2>4
<1>5. QED
  BY <1>1, <1>2, <1>3, <1>4, StepCases
  DEF RunDiarizer, RunFormatter, NotPunctuated, PunctuateThrows, PunctuateBreaks,
      PunctuateWords, OtherTranscripts, GetResultsReturns, vars, call_vars, out_vars,
      format_vars, path_vars, convert_vars
-------------------------------------------------------------------------------
\* The pieces of a word

\* (The provers do not know that "#" is a string.)
Letters == STRING \cup {"#"}
Words == Seq(Letters)

LEMMA GreatestUpTo ==
  ASSUME NEW n \in Nat, NEW T \in SUBSET (0 .. n), T # {}
  PROVE  \E x \in T : \A y \in T : y <= x
<1> DEFINE R == {n - x : x \in T}
<1>1. R \in SUBSET Nat /\ R # {}
  <2>1. PICK x \in T : n - x \in R
    OBVIOUS
  <2>2. QED
    BY <2>1
<1>2. PICK r \in R : \A q \in R : r <= q
  BY <1>1, LeastNat
<1>3. PICK x \in T : r = n - x
  BY <1>2
<1>4. ASSUME NEW y \in T PROVE y <= x
  <2>1. r <= n - y /\ x \in Nat /\ y \in Nat
    BY <1>2
  <2>2. QED
    BY <1>3, <2>1
<1>5. QED
  BY <1>4

LEMMA LongestEndIs ==
  ASSUME NEW token \in Words, NEW start \in 0 .. Len(token), PieceEnds(token, start) # {}
  PROVE  LongestEnd(token, start) \in start + 1 .. Len(token)
<1>1. PieceEnds(token, start) \in SUBSET (0 .. Len(token)) /\ Len(token) \in Nat
  BY DEF PieceEnds, Words
<1>2. \E end \in PieceEnds(token, start) : \A e \in PieceEnds(token, start) : e <= end
  BY <1>1, GreatestUpTo
<1>3. LongestEnd(token, start) \in PieceEnds(token, start)
  BY <1>2 DEF LongestEnd
<1>4. QED
  BY <1>3 DEF PieceEnds

LEMMA MarkIs == Mark \in Words /\ Len(Mark) = 2 /\ Mark[1] = "#" /\ Mark[2] = "#"
<1>1. "#" \in Letters
  BY DEF Letters
<1>2. <<"#", "#">> \in Seq(Letters)
  BY <1>1
<1>3. QED
  BY <1>2 DEF Mark, Words

\* IsSubword by the letters.
LEMMA SubwordLetters ==
  ASSUME NEW piece \in Words
  PROVE  IsSubword(piece) <=> Len(piece) > 2 /\ piece[1] = "#" /\ piece[2] = "#"
<1>1. CASE Len(piece) > 2
  <2>1. Len(piece) \in Nat /\ 1 \in 1 .. Len(piece) + 1 /\ 2 \in 1 - 1 .. Len(piece)
    BY <1>1 DEF Words
  <2>2. /\ SubSeq(piece, 1, 2) \in Seq(Letters) /\ Len(SubSeq(piece, 1, 2)) = 2
        /\ SubSeq(piece, 1, 2)[1] = piece[1] /\ SubSeq(piece, 1, 2)[2] = piece[2]
    BY <1>1 DEF Words
  <2>3. SubSeq(piece, 1, 2) = Mark <=> piece[1] = "#" /\ piece[2] = "#"
    <3> DEFINE two == SubSeq(piece, 1, 2)
    <3>1. two \in Seq(Letters) /\ Mark \in Seq(Letters) /\ Len(two) = 2 /\ Len(Mark) = 2
      BY <2>2, MarkIs DEF Words
    <3> HIDE DEF two
    <3>2. two = Mark <=> two[1] = Mark[1] /\ two[2] = Mark[2]
      BY <3>1
    <3>3. QED
      BY <2>2, <3>2, MarkIs DEF two
  <2>4. QED
    BY <1>1, <2>3 DEF IsSubword
<1>2. CASE ~(Len(piece) > 2)
  BY <1>2 DEF IsSubword
<1>3. QED
  BY <1>1, <1>2

\* A piece inside a word is marked, and the word goes on behind the mark.
LEMMA SubstrInside ==
  ASSUME NEW token \in Words, NEW start \in 1 .. Len(token), NEW end \in start + 1 .. Len(token)
  PROVE  /\ Substr(token, start, end) \in Words /\ IsSubword(Substr(token, start, end))
         /\ SubSeq(Substr(token, start, end), 3, Len(Substr(token, start, end)))
              = SubSeq(token, start + 1, end)
<1> DEFINE rest == SubSeq(token, start + 1, end)
           piece == Substr(token, start, end)
<1>0. Len(token) \in Nat /\ start \in Nat /\ end \in Nat
  BY DEF Words
<1>1. rest \in Words /\ Len(rest) = end - start /\ Len(rest) \in Nat
  BY <1>0 DEF Words
<1>2. piece = Mark \o rest
  <2>1. start > 0
    BY <1>0
  <2>2. QED
    BY <2>1 DEF Substr
<1>3. Mark \in Words /\ Len(Mark) = 2 /\ Mark[1] = "#" /\ Mark[2] = "#"
  BY MarkIs
<1> HIDE DEF rest, piece
<1>4. /\ piece \in Words /\ Len(piece) = 2 + (end - start)
      /\ piece[1] = "#" /\ piece[2] = "#"
      /\ \A i \in 1 .. end - start : piece[2 + i] = rest[i]
  <2>1. /\ Mark \o rest \in Words /\ Len(Mark \o rest) = 2 + (end - start)
        /\ \A i \in 1 .. 2 + (end - start) :
             (Mark \o rest)[i] = IF i <= 2 THEN Mark[i] ELSE rest[i - 2]
    <3>1. Mark \in Seq(Letters) /\ rest \in Seq(Letters)
      BY <1>1, <1>3 DEF Words
    <3>2. /\ Mark \o rest \in Seq(Letters) /\ Len(Mark \o rest) = Len(Mark) + Len(rest)
          /\ \A i \in 1 .. Len(Mark) + Len(rest) :
               (Mark \o rest)[i] = IF i <= Len(Mark) THEN Mark[i] ELSE rest[i - Len(Mark)]
      BY <3>1, ConcatProperties
    <3>3. QED
      BY <1>1, <1>3, <3>2 DEF Words
  <2>2. /\ 1 \in 1 .. 2 + (end - start) /\ 2 \in 1 .. 2 + (end - start)
        /\ \A i \in 1 .. end - start :
             2 + i \in 1 .. 2 + (end - start) /\ ~(2 + i <= 2) /\ (2 + i) - 2 = i
    BY <1>0
  <2>3. QED
    BY <1>2, <1>3, <2>1, <2>2
<1>5. IsSubword(piece)
  BY <1>0, <1>4, SubwordLetters
<1>6. SubSeq(piece, 3, Len(piece)) = rest
  <2> DEFINE tail == SubSeq(piece, 3, Len(piece))
  <2>1. tail \in Words /\ Len(tail) = end - start
    BY <1>0, <1>4 DEF Words
  <2>2. \A i \in 1 .. end - start : tail[i] = piece[2 + i]
    BY <1>0, <1>4 DEF Words
  <2> HIDE DEF tail
  <2>3. tail = rest
    BY <1>0, <1>1, <1>4, <2>1, <2>2 DEF Words
  <2>4. QED
    BY <2>3 DEF tail
<1>7. QED
  BY <1>4, <1>5, <1>6 DEF piece, rest

\* The first piece is marked only if the word is spelled so.
LEMMA SubstrFirst ==
  ASSUME NEW token \in Words, NEW end \in 1 .. Len(token)
  PROVE  /\ Substr(token, 0, end) \in Words /\ Substr(token, 0, end) = SubSeq(token, 1, end)
         /\ Substr(token, 0, end) # <<>>
         /\ IsSubword(Substr(token, 0, end)) => IsSubword(token)
<1> DEFINE piece == Substr(token, 0, end)
<1>0. Len(token) \in Nat /\ end \in Nat
  BY DEF Words
<1>1. SubSeq(token, 1, end) \in Words
  BY <1>0 DEF Words
<1>2. piece = SubSeq(token, 1, end)
  BY <1>1 DEF Substr, Words
<1>3. piece \in Words /\ Len(piece) = end /\ \A i \in 1 .. end : piece[i] = token[i]
  BY <1>0, <1>2 DEF Words
<1> HIDE DEF piece
<1>4. piece # <<>>
  BY <1>3, EmptySequences
<1>5. IsSubword(piece) => IsSubword(token)
  <2>1. ASSUME IsSubword(piece) PROVE IsSubword(token)
    <3>1. end > 2 /\ piece[1] = "#" /\ piece[2] = "#"
      BY <1>3, <2>1, SubwordLetters
    <3>2. token[1] = "#" /\ token[2] = "#" /\ Len(token) > 2
      BY <1>0, <1>3, <3>1
    <3>3. QED
      BY <3>2, SubwordLetters
  <2>2. QED
    BY <2>1
<1>6. QED
  BY <1>2, <1>3, <1>4, <1>5 DEF piece

\* A function that ends with "last", and at each place before goes on from a later one.
RecursBack(f, n, A, last, next, step) ==
  f \in [0 .. n -> A] /\ f[n] = last /\ \A i \in 0 .. n - 1 : f[i] = step[i][f[next[i]]]

LEMMA RecursionBackExists ==
  ASSUME NEW n \in Nat, NEW A, NEW last \in A, NEW next \in [0 .. n - 1 -> 1 .. n],
         \A i \in 0 .. n - 1 : next[i] > i, NEW step \in [0 .. n - 1 -> [A -> A]]
  PROVE  \E f : RecursBack(f, n, A, last, next, step)
<1> DEFINE Closes(f, m) == f[n] = last /\ \A i \in n - m .. n - 1 : f[i] = step[i][f[next[i]]]
           T == {m \in 0 .. n : \E f \in [n - m .. n -> A] : Closes(f, m)}
<1>1. 0 \in T
  <2> DEFINE f == [i \in n .. n |-> last]
  <2>1. f \in [n - 0 .. n -> A] /\ f[n] = last
    OBVIOUS
  <2> HIDE DEF f
  <2>2. Closes(f, 0)
    BY <2>1
  <2> HIDE DEF Closes
  <2>3. QED
    BY <2>1, <2>2
<1>2. ASSUME NEW m \in 1 .. n, m - 1 \in T PROVE m \in T
  <2>1. PICK f \in [n - (m - 1) .. n -> A] : Closes(f, m - 1)
    BY <1>2
  <2> DEFINE s == n - m
             g == [i \in s .. n |-> IF i = s THEN step[s][f[next[s]]] ELSE f[i]]
  <2>2. /\ s \in 0 .. n - 1 /\ next[s] \in n - (m - 1) .. n /\ n \in s .. n /\ n # s
        /\ s \in s .. n
    OBVIOUS
  <2>3. f[next[s]] \in A /\ step[s][f[next[s]]] \in A
    BY <2>2
  <2>4. ASSUME NEW i \in s .. n, i # s PROVE i \in n - (m - 1) .. n
    BY <2>4
  <2>5. g \in [s .. n -> A]
    BY <2>3, <2>4
  <2>6. /\ g[s] = step[s][f[next[s]]]
        /\ \A i \in s .. n : i # s => g[i] = f[i]
    BY <2>2
  <2> HIDE DEF g
  <2>7. g[n] = last
    BY <2>1, <2>2, <2>6
  <2>8. ASSUME NEW i \in s .. n - 1 PROVE g[i] = step[i][g[next[i]]]
    <3>1. i \in 0 .. n - 1 /\ next[i] \in s .. n /\ next[i] # s
      <4>1. i \in 0 .. n - 1 /\ next[i] \in 1 .. n /\ next[i] > i
        BY <2>2
      <4>2. QED
        BY <4>1, <2>2
    <3>2. g[next[i]] = f[next[i]]
      BY <2>6, <3>1
    <3>3. CASE i = s
      BY <2>6, <3>2, <3>3
    <3>4. CASE i # s
      <4>1. i \in n - (m - 1) .. n - 1 /\ i \in s .. n
        BY <3>4
      <4>2. g[i] = f[i] /\ f[i] = step[i][f[next[i]]]
        BY <2>1, <2>6, <3>4, <4>1
      <4>3. QED
        BY <3>2, <4>2
    <3>5. QED
      BY <3>3, <3>4
  <2>9. Closes(g, m)
    BY <2>7, <2>8
  <2> HIDE DEF Closes
  <2>10. QED
    BY <2>5, <2>9
<1>3. n \in T
  <2> HIDE DEF T
  <2>1. \A i \in 0 .. n : i \in T
    BY <1>1, <1>2, UpTo
  <2>2. QED
    BY <2>1
<1>4. PICK f \in [n - n .. n -> A] : Closes(f, n)
  BY <1>3
<1>5. n - n = 0
  OBVIOUS
<1>6. QED
  BY <1>4, <1>5 DEF RecursBack

\* The pieces from each place on.
Unfit == <<<<>>>>
PieceAt(token, start) == Substr(token, start, LongestEnd(token, start))

LEMMA PiecesFromIs ==
  ASSUME NEW token \in Words
  PROVE  /\ PiecesFrom(token) \in [0 .. Len(token) -> Seq(Words)]
         /\ PiecesFrom(token)[Len(token)] = <<>>
         /\ \A start \in 0 .. Len(token) - 1 :
              PiecesFrom(token)[start] =
                IF PieceEnds(token, start) = {} THEN Unfit
                ELSE <<PieceAt(token, start)>> \o PiecesFrom(token)[LongestEnd(token, start)]
<1> DEFINE n == Len(token)
           Fits(start) == PieceEnds(token, start) # {}
           next == [i \in 0 .. n - 1 |-> IF Fits(i) THEN LongestEnd(token, i) ELSE n]
           step == [i \in 0 .. n - 1 |-> [x \in Seq(Words) |->
                      IF Fits(i) THEN <<PieceAt(token, i)>> \o x ELSE Unfit]]
<1>1. n \in Nat
  BY DEF Words
<1>2. \A i \in 0 .. n - 1 : Fits(i) =>
        /\ LongestEnd(token, i) \in i + 1 .. n
        /\ <<PieceAt(token, i)>> \in Seq(Words)
  <2>1. ASSUME NEW i \in 0 .. n - 1, Fits(i)
        PROVE  LongestEnd(token, i) \in i + 1 .. n /\ PieceAt(token, i) \in Words
    <3>1. i \in 0 .. n
      BY <1>1
    <3>2. LongestEnd(token, i) \in i + 1 .. n
      BY <2>1, <3>1, LongestEndIs
    <3>3. CASE i = 0
      BY <3>2, <3>3, SubstrFirst DEF PieceAt
    <3>4. CASE i # 0
      <4>1. i \in 1 .. n
        BY <3>1, <3>4
      <4>2. QED
        BY <3>2, <4>1, SubstrInside DEF PieceAt
    <3>5. QED
      BY <3>2, <3>3, <3>4
  <2>2. QED
    BY <2>1
<1>3. Unfit \in Seq(Words) /\ <<>> \in Seq(Words)
  BY EmptySequences DEF Unfit, Words
<1> HIDE DEF n, Fits
<1>4. next \in [0 .. n - 1 -> 1 .. n] /\ \A i \in 0 .. n - 1 : next[i] > i
  <2>1. ASSUME NEW i \in 0 .. n - 1 PROVE next[i] \in 1 .. n /\ next[i] > i
    <3>1. CASE Fits(i)
      BY <1>1, <1>2, <3>1
    <3>2. CASE ~Fits(i)
      BY <1>1, <3>2
    <3>3. QED
      BY <3>1, <3>2
  <2>2. QED
    BY <2>1
<1>5. step \in [0 .. n - 1 -> [Seq(Words) -> Seq(Words)]]
  <2>1. ASSUME NEW i \in 0 .. n - 1, NEW x \in Seq(Words)
        PROVE  (IF Fits(i) THEN <<PieceAt(token, i)>> \o x ELSE Unfit) \in Seq(Words)
    BY <1>2, <1>3, ConcatProperties
  <2>2. QED
    BY <2>1
<1>6. PICK f : RecursBack(f, n, Seq(Words), <<>>, next, step)
  <2> HIDE DEF next, step
  <2>1. QED
    BY <1>1, <1>3, <1>4, <1>5, RecursionBackExists
<1> DEFINE Body(g, i) == IF i = n THEN <<>> ELSE IF ~Fits(i) THEN Unfit
                         ELSE <<PieceAt(token, i)>> \o g[LongestEnd(token, i)]
<1>7. f = [i \in 0 .. n |-> Body(f, i)]
  <2>1. ASSUME NEW i \in 0 .. n PROVE f[i] = Body(f, i)
    <3>1. CASE i = n
      BY <1>6, <3>1 DEF RecursBack
    <3>2. CASE i # n
      <4>1. i \in 0 .. n - 1 /\ next[i] \in 0 .. n
        BY <1>1, <1>4, <3>2
      <4>2. f[i] = step[i][f[next[i]]] /\ f[next[i]] \in Seq(Words)
        <5> HIDE DEF next, step
        <5>1. QED
          BY <1>6, <4>1 DEF RecursBack
      <4>3. f[i] = IF Fits(i) THEN <<PieceAt(token, i)>> \o f[next[i]] ELSE Unfit
        <5> HIDE DEF next
        <5>1. QED
          BY <4>1, <4>2
      <4>4. Fits(i) => next[i] = LongestEnd(token, i)
        BY <4>1
      <4> HIDE DEF next, step
      <4>5. QED
        BY <3>2, <4>3, <4>4
    <3>3. QED
      BY <3>1, <3>2
  <2>2. f \in [0 .. n -> Seq(Words)]
    BY <1>6 DEF RecursBack
  <2> HIDE DEF Body
  <2>3. QED
    BY <2>1, <2>2
<1> DEFINE p == PiecesFrom(token)
<1>8. p = [i \in 0 .. n |-> Body(p, i)]
  <2>1. \E g : g = [i \in 0 .. n |-> Body(g, i)]
    <3> HIDE DEF Body
    <3>1. QED
      BY <1>7
  <2>2. p = CHOOSE g : g = [i \in 0 .. n |-> Body(g, i)]
    BY DEF PiecesFrom, PieceAt, Unfit, n, Fits
  <2> HIDE DEF Body, p
  <2>3. QED
    BY <2>1, <2>2
<1> HIDE DEF p
<1>9. ASSUME NEW i \in 0 .. n PROVE p[i] = Body(p, i)
  <2> HIDE DEF Body
  <2>1. QED
    BY <1>8
<1>10. \A i \in 0 .. n - 1 : i \in 0 .. n /\ i # n
  BY <1>1
<1>11. p \in [0 .. n -> Seq(Words)]
  <2> DEFINE T == {m \in 0 .. n : \A i \in n - m .. n : p[i] \in Seq(Words)}
  <2>1. 0 \in T
    <3>1. n \in 0 .. n /\ 0 \in 0 .. n /\ \A i \in n - 0 .. n : i = n
      BY <1>1
    <3>2. p[n] = <<>>
      BY <1>9, <3>1
    <3>3. \A i \in n - 0 .. n : p[i] \in Seq(Words)
      BY <1>3, <3>1, <3>2
    <3> HIDE DEF Body
    <3>4. QED
      BY <3>1, <3>3
  <2>2. ASSUME NEW m \in 1 .. n, m - 1 \in T PROVE m \in T
    <3>1. ASSUME NEW i \in n - m .. n PROVE p[i] \in Seq(Words)
      <4>1. CASE i = n - m /\ Fits(i)
        <5>1. i \in 0 .. n - 1 /\ i \in 0 .. n /\ i # n
          BY <1>1, <4>1
        <5>2. LongestEnd(token, i) \in n - (m - 1) .. n
          BY <1>1, <1>2, <4>1, <5>1
        <5>3. p[LongestEnd(token, i)] \in Seq(Words)
          BY <2>2, <5>2
        <5>4. p[i] = <<PieceAt(token, i)>> \o p[LongestEnd(token, i)]
          BY <1>9, <4>1, <5>1
        <5>5. <<PieceAt(token, i)>> \in Seq(Words)
          BY <1>2, <4>1, <5>1
        <5>6. QED
          BY <5>3, <5>4, <5>5, ConcatProperties
      <4>2. CASE i = n - m /\ ~Fits(i)
        <5>1. i \in 0 .. n /\ i # n
          BY <1>1, <4>2
        <5>2. QED
          BY <1>3, <1>9, <4>2, <5>1
      <4>3. CASE i # n - m
        <5>1. i \in n - (m - 1) .. n
          BY <1>1, <4>3
        <5>2. QED
          BY <2>2, <5>1
      <4>4. QED
        BY <4>1, <4>2, <4>3
    <3>2. m \in 0 .. n
      BY <1>1
    <3>3. QED
      BY <3>1, <3>2
  <2>3. n \in T
    <3> HIDE DEF T
    <3>1. \A i \in 0 .. n : i \in T
      BY <1>1, <2>1, <2>2, UpTo
    <3>2. QED
      BY <1>1, <3>1
  <2>4. \A i \in 0 .. n : p[i] \in Seq(Words)
    BY <1>1, <2>3
  <2> HIDE DEF Body
  <2>5. QED
    BY <1>8, <2>4
<1>12. p[n] = <<>>
  <2>1. n \in 0 .. n
    BY <1>1
  <2>2. QED
    BY <1>9, <2>1
<1>13. \A i \in 0 .. n - 1 : p[i] = IF ~Fits(i) THEN Unfit
                                 ELSE <<PieceAt(token, i)>> \o p[LongestEnd(token, i)]
  BY <1>9, <1>10
<1> HIDE DEF Body
<1>14. QED
  BY <1>11, <1>12, <1>13 DEF p, n, Fits

\* The pieces cut a word, from a place on, at these ends.
Cuts(token, start, pieces, ends) ==
  /\ ends \in [0 .. Len(pieces) -> start .. Len(token)]
  /\ ends[0] = start /\ ends[Len(pieces)] = Len(token)
  /\ \A j \in 1 .. Len(pieces) :
       ends[j - 1] < ends[j] /\ pieces[j] = Substr(token, ends[j - 1], ends[j])

LEMMA OneBefore ==
  ASSUME NEW T, NEW x \in T, NEW rest \in Seq(T)
  PROVE  /\ <<x>> \o rest \in Seq(T) /\ Len(<<x>> \o rest) = Len(rest) + 1
         /\ (<<x>> \o rest)[1] = x
         /\ \A j \in 2 .. Len(rest) + 1 : (<<x>> \o rest)[j] = rest[j - 1]
<1> DEFINE first == <<x>>
<1>1. first \in Seq(T) /\ Len(first) = 1 /\ first[1] = x /\ Len(rest) \in Nat
  OBVIOUS
<1> HIDE DEF first
<1>2. /\ first \o rest \in Seq(T) /\ Len(first \o rest) = Len(first) + Len(rest)
      /\ \A i \in 1 .. Len(first) + Len(rest) :
           (first \o rest)[i] = IF i <= Len(first) THEN first[i] ELSE rest[i - Len(first)]
  BY <1>1, ConcatProperties
<1>3. /\ 1 \in 1 .. 1 + Len(rest) /\ 1 <= 1
      /\ \A j \in 2 .. Len(rest) + 1 : j \in 1 .. 1 + Len(rest) /\ ~(j <= 1)
  BY <1>1
<1>4. QED
  BY <1>1, <1>2, <1>3 DEF first

LEMMA PieceBefore ==
  ASSUME NEW token \in Words, NEW start \in 0 .. Len(token), NEW end \in start + 1 .. Len(token),
         NEW pieces \in Seq(Words), NEW ends, Cuts(token, end, pieces, ends),
         Substr(token, start, end) \in Words
  PROVE  \E f : Cuts(token, start, <<Substr(token, start, end)>> \o pieces, f)
<1> DEFINE x == Substr(token, start, end)
           k == Len(pieces)
           all == <<x>> \o pieces
           f == [j \in 0 .. k + 1 |-> IF j = 0 THEN start ELSE ends[j - 1]]
<1>1. k \in Nat /\ Len(token) \in Nat /\ start \in Nat /\ end \in Nat /\ start < end
  BY DEF Words
<1>2. /\ ends \in [0 .. k -> end .. Len(token)] /\ ends[0] = end /\ ends[k] = Len(token)
      /\ \A j \in 1 .. k : ends[j - 1] < ends[j] /\ pieces[j] = Substr(token, ends[j - 1], ends[j])
  BY DEF Cuts
<1>3. /\ Len(all) = k + 1 /\ all[1] = x /\ \A j \in 2 .. k + 1 : all[j] = pieces[j - 1]
  <2>1. x \in Words
    OBVIOUS
  <2> HIDE DEF x
  <2>2. QED
    BY <1>1, <2>1, OneBefore
<1> HIDE DEF k, all, x
<1>4. f \in [0 .. k + 1 -> start .. Len(token)]
  <2>1. ASSUME NEW j \in 0 .. k + 1 PROVE f[j] \in start .. Len(token)
    <3>1. CASE j = 0
      BY <1>1, <3>1
    <3>2. CASE j # 0
      <4>1. j - 1 \in 0 .. k
        BY <1>1, <3>2
      <4>2. ends[j - 1] \in end .. Len(token)
        BY <1>2, <4>1
      <4>3. QED
        BY <1>1, <3>2, <4>2
    <3>3. QED
      BY <3>1, <3>2
  <2>2. QED
    BY <2>1
<1>5. /\ f[0] = start /\ f[k + 1] = ends[k]
      /\ \A j \in 1 .. k + 1 : f[j] = ends[j - 1]
  <2>1. 0 \in 0 .. k + 1 /\ k + 1 \in 0 .. k + 1 /\ k + 1 # 0 /\ (k + 1) - 1 = k
    BY <1>1
  <2>2. \A j \in 1 .. k + 1 : j \in 0 .. k + 1 /\ j # 0
    BY <1>1
  <2>3. QED
    BY <2>1, <2>2
<1> HIDE DEF f
<1>6. ASSUME NEW j \in 1 .. k + 1
      PROVE  f[j - 1] < f[j] /\ all[j] = Substr(token, f[j - 1], f[j])
  <2>1. CASE j = 1
    <3>1. f[1] = end /\ f[0] = start
      BY <1>1, <1>2, <1>5
    <3>2. QED
      BY <1>1, <1>3, <2>1, <3>1 DEF x
  <2>2. CASE j # 1
    <3>1. j - 1 \in 1 .. k + 1 /\ j - 1 \in 1 .. k /\ j \in 2 .. k + 1
      BY <1>1, <2>2
    <3>2. f[j - 1] = ends[(j - 1) - 1] /\ f[j] = ends[j - 1] /\ all[j] = pieces[j - 1]
      BY <1>3, <1>5, <3>1
    <3>3. QED
      BY <1>2, <3>1, <3>2
  <2>3. QED
    BY <2>1, <2>2
<1>7. Cuts(token, start, all, f)
  BY <1>2, <1>3, <1>4, <1>5, <1>6 DEF Cuts
<1>8. QED
  BY <1>7 DEF all, x

LEMMA PiecesCut ==
  ASSUME NEW token \in Words, <<>> \notin Range(PiecesFrom(token)[0])
  PROVE  \E ends : Cuts(token, 0, PiecesFrom(token)[0], ends)
<1> DEFINE n == Len(token)
           p == PiecesFrom(token)
           Good(s) == <<>> \notin Range(p[s]) => \E ends : Cuts(token, s, p[s], ends)
           T == {m \in 0 .. n : \A s \in n - m .. n : Good(s)}
<1>1. /\ n \in Nat /\ p \in [0 .. n -> Seq(Words)] /\ p[n] = <<>>
      /\ \A s \in 0 .. n - 1 :
           p[s] = IF PieceEnds(token, s) = {} THEN Unfit
                  ELSE <<PieceAt(token, s)>> \o p[LongestEnd(token, s)]
  BY PiecesFromIs DEF Words
<1> HIDE DEF p
<1>2. 0 \in T
  <2> DEFINE f == [j \in 0 .. 0 |-> n]
  <2>1. f \in [0 .. 0 -> n .. n] /\ f[0] = n
    BY <1>1
  <2> HIDE DEF f
  <2>2. Len(p[n]) = 0 /\ 1 .. 0 = {}
    BY <1>1, EmptySequences
  <2>3. Cuts(token, n, p[n], f)
    BY <2>1, <2>2 DEF Cuts
  <2>4. Good(n)
    BY <2>3
  <2>5. 0 \in 0 .. n /\ \A s \in n - 0 .. n : s = n
    BY <1>1
  <2> HIDE DEF Good
  <2>6. QED
    BY <2>4, <2>5
<1>3. ASSUME NEW m \in 1 .. n, m - 1 \in T PROVE m \in T
  <2> DEFINE s == n - m
  <2>1. /\ s \in 0 .. n - 1 /\ s \in 0 .. n /\ m \in 0 .. n
        /\ \A i \in s .. n : i = s \/ i \in n - (m - 1) .. n
    BY <1>1
  <2> HIDE DEF s
  <2>2. Good(s)
    <3> SUFFICES ASSUME <<>> \notin Range(p[s]) PROVE \E ends : Cuts(token, s, p[s], ends)
      OBVIOUS
    <3> DEFINE end == LongestEnd(token, s)
    <3>1. PieceEnds(token, s) # {}
      <4>1. 1 \in DOMAIN Unfit /\ Unfit[1] = <<>>
        BY DEF Unfit
      <4>2. <<>> \in Range(Unfit)
        BY <4>1 DEF Range
      <4>3. QED
        BY <1>1, <2>1, <4>2
    <3>2. end \in s + 1 .. n
      BY <2>1, <3>1, LongestEndIs
    <3>3. p[s] = <<Substr(token, s, end)>> \o p[end]
      BY <1>1, <2>1, <3>1 DEF PieceAt
    <3> HIDE DEF end
    <3>4. Substr(token, s, end) \in Words
      <4>1. CASE s = 0
        BY <3>2, <4>1, SubstrFirst
      <4>2. CASE s # 0
        <5>1. s \in 1 .. n
          BY <2>1, <4>2
        <5>2. QED
          BY <3>2, <5>1, SubstrInside
      <4>3. QED
        BY <4>1, <4>2
    <3>5. end \in n - (m - 1) .. n /\ end \in 0 .. n /\ p[end] \in Seq(Words)
      <4>1. end \in n - (m - 1) .. n /\ end \in 0 .. n
        BY <1>1, <2>1, <3>2 DEF s
      <4>2. QED
        BY <1>1, <4>1
    <3>6. <<>> \notin Range(p[end])
      <4> DEFINE x == Substr(token, s, end)
      <4>1. x \in Words
        BY <3>4
      <4> HIDE DEF x
      <4>2. /\ <<x>> \o p[end] \in Seq(Words) /\ Len(<<x>> \o p[end]) = Len(p[end]) + 1
            /\ \A j \in 2 .. Len(p[end]) + 1 : (<<x>> \o p[end])[j] = p[end][j - 1]
        BY <3>5, <4>1, OneBefore
      <4>3. ASSUME NEW i \in DOMAIN p[end], p[end][i] = <<>> PROVE FALSE
        <5>1. /\ i + 1 \in 2 .. Len(p[end]) + 1 /\ (i + 1) - 1 = i
              /\ i + 1 \in DOMAIN (<<x>> \o p[end])
          BY <3>5, <4>2
        <5>2. (<<x>> \o p[end])[i + 1] = <<>>
          BY <4>2, <4>3, <5>1
        <5>3. QED
          BY <3>3, <5>1, <5>2 DEF Range, x
      <4>4. QED
        BY <4>3 DEF Range
    <3>7. PICK ends : Cuts(token, end, p[end], ends)
      <4>1. Good(end)
        <5> HIDE DEF Good
        <5>1. QED
          BY <1>3, <3>5
      <4>2. QED
        BY <3>6, <4>1
    <3>8. QED
      BY <2>1, <3>2, <3>3, <3>4, <3>5, <3>7, PieceBefore
  <2> HIDE DEF Good
  <2>3. \A i \in n - m .. n : Good(i)
    BY <1>3, <2>1, <2>2 DEF s
  <2>4. QED
    BY <2>1, <2>3
<1>4. Good(0)
  <2>1. n \in T
    <3> HIDE DEF T
    <3>1. \A i \in 0 .. n : i \in T
      BY <1>1, <1>2, <1>3, UpTo
    <3>2. QED
      BY <1>1, <3>1
  <2>2. 0 \in n - n .. n
    BY <1>1
  <2> HIDE DEF Good
  <2>3. QED
    BY <2>1, <2>2
<1>5. QED
  BY <1>4 DEF p

LEMMA UnknownType == UnkToken \in Words
<1>1. UnkToken \in Seq(STRING) /\ STRING \subseteq Letters
  BY PunctuationAssumption DEF Letters
<1>2. QED
  BY <1>1, SeqMonotonic DEF Words

LEMMA WordPiecesAre ==
  ASSUME NEW token \in Words
  PROVE  /\ WordPieces(token) \in Seq(Words)
         /\ \/ WordPieces(token) = <<UnkToken>>
            \/ \E ends : Cuts(token, 0, WordPieces(token), ends)
<1>1. <<UnkToken>> \in Seq(Words)
  BY UnknownType
<1>2. PiecesFrom(token)[0] \in Seq(Words)
  <2>1. 0 \in 0 .. Len(token)
    BY DEF Words
  <2>2. QED
    BY <2>1, PiecesFromIs
<1>3. QED
  BY <1>1, <1>2, PiecesCut DEF WordPieces

\* All but the first piece of a word are marked, and the first is if the word is spelled so;
\* only the empty word has none.
LEMMA PiecesMarked ==
  ASSUME NEW token \in Words, NEW pieces, pieces = WordPieces(token)
  PROVE  /\ pieces \in Seq(Words)
         /\ \A j \in 2 .. Len(pieces) : IsSubword(pieces[j])
         /\ Len(pieces) = 0 => token = <<>>
         /\ Len(pieces) > 0 /\ IsSubword(pieces[1]) => IsSubword(token) \/ IsSubword(UnkToken)
<1>0. pieces \in Seq(Words) /\ Len(pieces) \in Nat /\ Len(token) \in Nat
  BY WordPiecesAre DEF Words
<1>1. CASE pieces = <<UnkToken>>
  <2>1. Len(pieces) = 1 /\ pieces[1] = UnkToken
    BY <1>1
  <2>2. QED
    BY <1>0, <2>1
<1>2. CASE \E ends : Cuts(token, 0, pieces, ends)
  <2>1. PICK ends : Cuts(token, 0, pieces, ends)
    BY <1>2
  <2>2. /\ ends \in [0 .. Len(pieces) -> 0 .. Len(token)] /\ ends[0] = 0
        /\ ends[Len(pieces)] = Len(token)
        /\ \A j \in 1 .. Len(pieces) :
             ends[j - 1] < ends[j] /\ pieces[j] = Substr(token, ends[j - 1], ends[j])
    BY <2>1 DEF Cuts
  <2>3. ASSUME NEW j \in 2 .. Len(pieces) PROVE IsSubword(pieces[j])
    <3>1. /\ j \in 1 .. Len(pieces) /\ j - 1 \in 1 .. Len(pieces)
          /\ j \in 0 .. Len(pieces) /\ j - 1 \in 0 .. Len(pieces) /\ (j - 1) - 1 \in 0 .. Len(pieces)
      BY <1>0
    <3>2. /\ ends[(j - 1) - 1] \in 0 .. Len(token) /\ ends[j - 1] \in 0 .. Len(token)
          /\ ends[j] \in 0 .. Len(token)
          /\ ends[(j - 1) - 1] < ends[j - 1] /\ ends[j - 1] < ends[j]
      BY <2>2, <3>1
    <3>3. ends[j - 1] \in 1 .. Len(token) /\ ends[j] \in ends[j - 1] + 1 .. Len(token)
      BY <1>0, <3>2
    <3>4. QED
      BY <2>2, <3>1, <3>3, SubstrInside
  <2>4. ASSUME Len(pieces) = 0 PROVE token = <<>>
    <3>1. Len(token) = 0
      BY <2>2, <2>4
    <3>2. QED
      BY <3>1 DEF Words
  <2>5. ASSUME Len(pieces) > 0, IsSubword(pieces[1]) PROVE IsSubword(token)
    <3>1. 1 \in 1 .. Len(pieces) /\ 1 \in 0 .. Len(pieces) /\ 1 - 1 = 0
      BY <1>0, <2>5
    <3>2. ends[1] \in 1 .. Len(token) /\ pieces[1] = Substr(token, 0, ends[1])
      BY <1>0, <2>2, <3>1
    <3>3. QED
      BY <2>5, <3>2, SubstrFirst
  <2>6. QED
    BY <1>0, <2>3, <2>4, <2>5
<1>3. QED
  BY <1>1, <1>2, WordPiecesAre
-------------------------------------------------------------------------------
\* The pieces of all words

LEMMA TypeUpTo ==
  ASSUME NEW n \in Nat, NEW A, NEW f, f[0] \in A,
         \A i \in 1 .. n : f[i - 1] \in A => f[i] \in A
  PROVE  \A i \in 0 .. n : f[i] \in A
<1> DEFINE T == {i \in 0 .. n : f[i] \in A}
<1>1. 0 \in T /\ \A i \in 1 .. n : i - 1 \in T => i \in T
  OBVIOUS
<1> HIDE DEF T
<1>2. \A i \in 0 .. n : i \in T
  BY <1>1, UpTo
<1>3. QED
  BY <1>2 DEF T

LEMMA Joined ==
  ASSUME NEW T, NEW a \in Seq(T), NEW b \in Seq(T), NEW ab, ab = a \o b
  PROVE  /\ Len(a) \in Nat /\ Len(b) \in Nat
         /\ Len(ab) = Len(a) + Len(b) /\ Len(a) <= Len(ab)
         /\ \A x \in 1 .. Len(a) : ab[x] = a[x]
         /\ \A j \in 1 .. Len(b) : Len(a) + j \in 1 .. Len(ab) /\ ab[Len(a) + j] = b[j]
<1>1. Len(a) \in Nat /\ Len(b) \in Nat
  OBVIOUS
<1>2. /\ Len(ab) = Len(a) + Len(b)
      /\ \A i \in 1 .. Len(a) + Len(b) : ab[i] = IF i <= Len(a) THEN a[i] ELSE b[i - Len(a)]
  BY ConcatProperties
<1>3. \A x \in 1 .. Len(a) : x \in 1 .. Len(a) + Len(b) /\ x <= Len(a)
  BY <1>1
<1>4. \A j \in 1 .. Len(b) :
        /\ Len(a) + j \in 1 .. Len(a) + Len(b) /\ ~(Len(a) + j <= Len(a))
        /\ (Len(a) + j) - Len(a) = j
  BY <1>1
<1>5. Len(a) <= Len(ab)
  BY <1>1, <1>2
<1>6. QED
  BY <1>1, <1>2, <1>3, <1>4, <1>5

LEMMA TokenizeIs ==
  ASSUME NEW spoken \in Seq(Words)
  PROVE  /\ TokenizeUpTo(spoken)[0] = <<>>
         /\ \A i \in 0 .. Len(spoken) : TokenizeUpTo(spoken)[i] \in Seq(Words)
         /\ \A i \in 1 .. Len(spoken) :
              TokenizeUpTo(spoken)[i] = TokenizeUpTo(spoken)[i - 1] \o WordPieces(spoken[i])
<1> DEFINE n == Len(spoken)
           c == TokenizeUpTo(spoken)
           Q(i) == WordPieces(spoken[i])
           step == [i \in 1 .. n |-> [x \in Seq(Words) |-> x \o Q(i)]]
<1>1. n \in Nat /\ \A i \in 1 .. n : spoken[i] \in Words
  OBVIOUS
<1>2. \A i \in 1 .. n : Q(i) \in Seq(Words)
  BY <1>1, WordPiecesAre
<1>3. <<>> \in Seq(Words)
  OBVIOUS
<1>4. c = [i \in 0 .. n |-> IF i = 0 THEN <<>> ELSE c[i - 1] \o Q(i)]
  <2> DEFINE Body(g, i) == IF i = 0 THEN <<>> ELSE g[i - 1] \o Q(i)
  <2>1. c = CHOOSE g : g = [i \in 0 .. n |-> Body(g, i)]
    BY DEF TokenizeUpTo
  <2> HIDE DEF n, c, Q
  <2>2. step \in [1 .. n -> [Seq(Words) -> Seq(Words)]]
    BY <1>2, ConcatProperties
  <2>3. PICK f : Recurs(f, n, Seq(Words), <<>>, step)
    <3> HIDE DEF step
    <3>1. QED
      BY <1>1, <1>3, <2>2, RecursionExists
  <2>4. ASSUME NEW i \in 0 .. n PROVE f[i] = Body(f, i)
    <3>1. CASE i = 0
      BY <2>3, <3>1 DEF Recurs
    <3>2. CASE i # 0
      <4>1. i \in 1 .. n /\ i - 1 \in 0 .. n
        BY <1>1, <3>2
      <4>2. f[i - 1] \in Seq(Words) /\ f[i] = step[i][f[i - 1]]
        <5> HIDE DEF step
        <5>1. QED
          BY <2>3, <4>1 DEF Recurs
      <4>3. QED
        BY <3>2, <4>1, <4>2
    <3>3. QED
      BY <3>1, <3>2
  <2>5. f \in [0 .. n -> Seq(Words)]
    BY <2>3 DEF Recurs
  <2> HIDE DEF Body, step
  <2>6. f = [i \in 0 .. n |-> Body(f, i)]
    BY <2>4, <2>5
  <2>7. c = [i \in 0 .. n |-> Body(c, i)]
    BY <2>1, <2>6
  <2>8. QED
    BY <2>7 DEF Body
<1> HIDE DEF n, c, Q
<1>5. c[0] = <<>> /\ \A i \in 1 .. n : c[i] = c[i - 1] \o Q(i)
  <2>1. 0 \in 0 .. n /\ \A i \in 1 .. n : i \in 0 .. n /\ i # 0
    BY <1>1
  <2>2. QED
    BY <1>4, <2>1
<1>6. \A i \in 1 .. n : c[i - 1] \in Seq(Words) => c[i] \in Seq(Words)
  BY <1>2, <1>5, ConcatProperties
<1>7. \A i \in 0 .. n : c[i] \in Seq(Words)
  BY <1>1, <1>3, <1>5, <1>6, TypeUpTo
<1>8. QED
  BY <1>5, <1>7 DEF n, c, Q

\* The pieces of the first words stay where they are.
Begins(first, all) == Len(first) <= Len(all) /\ \A x \in 1 .. Len(first) : first[x] = all[x]

LEMMA PiecesStay ==
  ASSUME NEW spoken \in Seq(Words), NEW c, c = TokenizeUpTo(spoken)
  PROVE  \A m \in 0 .. Len(spoken) : \A i \in 0 .. m : Begins(c[i], c[m])
<1> DEFINE n == Len(spoken)
           Kept(i, m) == Len(c[i]) <= Len(c[m]) /\ \A x \in 1 .. Len(c[i]) : c[i][x] = c[m][x]
           T == {m \in 0 .. n : \A i \in 0 .. m : Kept(i, m)}
<1>1. n \in Nat /\ \A i \in 1 .. n : spoken[i] \in Words
  OBVIOUS
<1>2. /\ \A i \in 0 .. n : c[i] \in Seq(Words) /\ Len(c[i]) \in Nat
      /\ \A i \in 1 .. n : c[i] = c[i - 1] \o WordPieces(spoken[i])
  <2>1. /\ \A i \in 0 .. n : c[i] \in Seq(Words)
        /\ \A i \in 1 .. n : c[i] = c[i - 1] \o WordPieces(spoken[i])
    BY TokenizeIs
  <2>2. \A q \in Seq(Words) : Len(q) \in Nat
    OBVIOUS
  <2>3. QED
    BY <2>1, <2>2
<1> HIDE DEF n
<1>3. 0 \in T
  <2>1. 0 \in 0 .. n /\ \A i \in 0 .. 0 : i = 0
    BY <1>1
  <2>2. Kept(0, 0)
    BY <1>2, <2>1
  <2> HIDE DEF Kept
  <2>3. QED
    BY <2>1, <2>2
<1>4. ASSUME NEW m \in 1 .. n, m - 1 \in T PROVE m \in T
  <2>1. m \in 0 .. n /\ m - 1 \in 0 .. n /\ m \in Nat
    BY <1>1
  <2>2. WordPieces(spoken[m]) \in Seq(Words) /\ Len(WordPieces(spoken[m])) \in Nat
    BY <1>1, WordPiecesAre
  <2>3. Kept(m - 1, m)
    <3>1. /\ c[m - 1] \in Seq(Words) /\ WordPieces(spoken[m]) \in Seq(Words)
          /\ c[m] = c[m - 1] \o WordPieces(spoken[m])
      BY <1>2, <2>1, <2>2
    <3> DEFINE a == c[m - 1]
               b == WordPieces(spoken[m])
               ab == c[m]
    <3>2. a \in Seq(Words) /\ b \in Seq(Words) /\ ab = a \o b
      BY <3>1
    <3> HIDE DEF a, b, ab
    <3>3. Len(a) <= Len(ab) /\ \A x \in 1 .. Len(a) : ab[x] = a[x]
      BY <3>2, Joined
    <3>4. QED
      BY <3>3 DEF a, b, ab
  <2>4. ASSUME NEW i \in 0 .. m PROVE Kept(i, m)
    <3>1. i \in 0 .. m - 1 \/ i = m
      BY <2>1
    <3>2. CASE i = m
      BY <1>2, <2>1, <3>2
    <3>3. CASE i \in 0 .. m - 1
      <4>1. Kept(i, m - 1)
        <5> HIDE DEF Kept
        <5>1. QED
          BY <1>4, <3>3
      <4>2. i \in 0 .. n
        BY <1>1, <3>3
      <4>3. Len(c[i]) <= Len(c[m])
        BY <1>2, <2>1, <2>3, <4>1, <4>2
      <4>4. \A x \in 1 .. Len(c[i]) : x \in 1 .. Len(c[m - 1])
        BY <1>2, <2>1, <4>1, <4>2
      <4>5. QED
        BY <2>3, <4>1, <4>3, <4>4
    <3>4. QED
      BY <3>1, <3>2, <3>3
  <2> HIDE DEF Kept
  <2>5. QED
    BY <2>1, <2>4
<1>5. \A m \in 0 .. n : m \in T
  <2> HIDE DEF T
  <2>1. QED
    BY <1>1, <1>3, <1>4, UpTo
<1>6. \A m \in 0 .. n : \A i \in 0 .. m : Kept(i, m)
  <2> HIDE DEF Kept
  <2>1. QED
    BY <1>5
<1>7. QED
  BY <1>6 DEF n, Begins

\* Where the pieces of a word are among all.
Lies(part, all, o) ==
  \A j \in 1 .. Len(part) : o + j \in 1 .. Len(all) /\ all[o + j] = part[j]

LEMMA PiecesPlaced ==
  ASSUME NEW spoken \in Seq(Words), NEW i \in 1 .. Len(spoken),
         NEW c, c = TokenizeUpTo(spoken), NEW all, all = Tokenize(spoken)
  PROVE  /\ all \in Seq(Words)
         /\ Len(c[i - 1]) \in Nat /\ Len(c[i]) = Len(c[i - 1]) + Len(WordPieces(spoken[i]))
         /\ Len(c[i]) <= Len(all)
         /\ Lies(WordPieces(spoken[i]), all, Len(c[i - 1]))
<1> DEFINE o == Len(c[i - 1])
           pieces == WordPieces(spoken[i])
<1>1. /\ Len(spoken) \in Nat /\ spoken[i] \in Words
      /\ i \in 0 .. Len(spoken) /\ i - 1 \in 0 .. Len(spoken)
      /\ Len(spoken) \in 0 .. Len(spoken)
  OBVIOUS
<1>2. pieces \in Seq(Words) /\ Len(pieces) \in Nat
  <2>1. pieces \in Seq(Words)
    BY <1>1, WordPiecesAre
  <2>2. QED
    BY <2>1
<1>3. c[i - 1] \in Seq(Words) /\ c[i] \in Seq(Words) /\ c[i] = c[i - 1] \o pieces /\ all \in Seq(Words)
  BY <1>1, TokenizeIs DEF Tokenize
<1> HIDE DEF pieces
<1>4. Len(c[i]) <= Len(all) /\ \A x \in 1 .. Len(c[i]) : c[i][x] = all[x]
  <2>1. Begins(c[i], c[Len(spoken)])
    BY <1>1, PiecesStay
  <2>2. all = c[Len(spoken)]
    BY DEF Tokenize
  <2>3. QED
    BY <2>1, <2>2 DEF Begins
<1>5. /\ Len(c[i]) = o + Len(pieces) /\ o \in Nat
      /\ \A j \in 1 .. Len(pieces) : o + j \in 1 .. Len(c[i]) /\ c[i][o + j] = pieces[j]
  <2> DEFINE a == c[i - 1]
             ab == c[i]
  <2>1. a \in Seq(Words) /\ pieces \in Seq(Words) /\ ab = a \o pieces
    BY <1>2, <1>3
  <2> HIDE DEF a, ab
  <2>2. /\ Len(ab) = Len(a) + Len(pieces) /\ Len(a) \in Nat
        /\ \A j \in 1 .. Len(pieces) : Len(a) + j \in 1 .. Len(ab) /\ ab[Len(a) + j] = pieces[j]
    BY <2>1, Joined
  <2>3. QED
    BY <2>2 DEF a, ab
<1>6. Len(all) \in Nat
  BY <1>3
<1> HIDE DEF o
<1>7. ASSUME NEW j \in 1 .. Len(pieces) PROVE o + j \in 1 .. Len(all) /\ all[o + j] = pieces[j]
  <2>1. o + j \in 1 .. Len(c[i]) /\ c[i][o + j] = pieces[j] /\ Len(c[i]) \in Nat
    BY <1>2, <1>5
  <2>2. o + j \in 1 .. Len(all)
    BY <1>4, <1>6, <2>1
  <2>3. QED
    BY <1>4, <2>1, <2>2
<1>8. QED
  BY <1>3, <1>4, <1>5, <1>7 DEF o, pieces, Lies
-------------------------------------------------------------------------------
\* The marks of the words

IdsOf(pieces, ids) == {ids[x] : x \in 1 .. Len(pieces)}

LEMMA MarksAre ==
  ASSUME NEW pieces \in Seq(Words), NEW ids, NEW m, m = MarksUpTo(pieces, ids)
  PROVE  /\ m[0] = <<>>
         /\ \A i \in 0 .. Len(pieces) : m[i] \in Seq(IdsOf(pieces, ids))
         /\ \A i \in 1 .. Len(pieces) :
              m[i] = IF IsSubword(pieces[i]) THEN m[i - 1] ELSE Append(m[i - 1], ids[i])
<1> DEFINE n == Len(pieces)
           V == IdsOf(pieces, ids)
           Next1(i, x) == IF IsSubword(pieces[i]) THEN x ELSE Append(x, ids[i])
           step == [i \in 1 .. n |-> [x \in Seq(V) |-> Next1(i, x)]]
           Body(g, i) == IF i = 0 THEN <<>> ELSE Next1(i, g[i - 1])
<1>1. n \in Nat /\ \A i \in 1 .. n : ids[i] \in V
  BY DEF IdsOf
<1>2. m = CHOOSE g : g = [i \in 0 .. n |-> Body(g, i)]
  BY DEF MarksUpTo
<1>3. <<>> \in Seq(V)
  OBVIOUS
<1> HIDE DEF n, V
<1>4. \A i \in 1 .. n : \A x \in Seq(V) : Next1(i, x) \in Seq(V)
  BY <1>1
<1> HIDE DEF Next1
<1>5. PICK f : Recurs(f, n, Seq(V), <<>>, step)
  <2>1. step \in [1 .. n -> [Seq(V) -> Seq(V)]]
    BY <1>4
  <2> HIDE DEF step
  <2>2. QED
    BY <1>1, <1>3, <2>1, RecursionExists
<1>6. f = [i \in 0 .. n |-> Body(f, i)]
  <2>1. ASSUME NEW i \in 0 .. n PROVE f[i] = Body(f, i)
    <3>1. CASE i = 0
      BY <1>5, <3>1 DEF Recurs
    <3>2. CASE i # 0
      <4>1. i \in 1 .. n /\ i - 1 \in 0 .. n
        BY <1>1, <3>2
      <4>2. f[i - 1] \in Seq(V) /\ f[i] = step[i][f[i - 1]]
        <5> HIDE DEF step
        <5>1. QED
          BY <1>5, <4>1 DEF Recurs
      <4>3. QED
        BY <3>2, <4>1, <4>2
    <3>3. QED
      BY <3>1, <3>2
  <2>2. f \in [0 .. n -> Seq(V)]
    BY <1>5 DEF Recurs
  <2> HIDE DEF Body
  <2>3. QED
    BY <2>1, <2>2
<1>7. m = [i \in 0 .. n |-> Body(m, i)]
  <2> HIDE DEF Body
  <2>1. QED
    BY <1>2, <1>6
<1>8. m[0] = <<>> /\ \A i \in 1 .. n : m[i] = Next1(i, m[i - 1])
  <2>1. 0 \in 0 .. n /\ \A i \in 1 .. n : i \in 0 .. n /\ i # 0
    BY <1>1
  <2>2. QED
    BY <1>7, <2>1
<1>9. \A i \in 0 .. n : m[i] \in Seq(V)
  BY <1>1, <1>3, <1>4, <1>8, TypeUpTo
<1>10. QED
  BY <1>8, <1>9 DEF n, V, Next1

\* A word has the mark of its first piece, unless that is marked or there is none.
LEMMA MarkOfWord ==
  ASSUME NEW spoken \in Seq(Words), NEW i \in 1 .. Len(spoken),
         NEW c, c = TokenizeUpTo(spoken), NEW pieces, pieces = WordPieces(spoken[i]),
         NEW all, all = Tokenize(spoken), NEW m, m = MarksUpTo(all, all)
  PROVE  m[Len(c[i])] =
           IF Len(pieces) = 0 \/ IsSubword(pieces[1]) THEN m[Len(c[i - 1])]
           ELSE Append(m[Len(c[i - 1])], pieces[1])
<1> DEFINE o == Len(c[i - 1])
           k == Len(pieces)
<1>1. /\ all \in Seq(Words) /\ o \in Nat /\ Len(c[i]) = o + k
      /\ \A j \in 1 .. k : o + j \in 1 .. Len(all) /\ all[o + j] = pieces[j]
  <2>1. /\ all \in Seq(Words) /\ Len(c[i - 1]) \in Nat
        /\ Len(c[i]) = Len(c[i - 1]) + Len(WordPieces(spoken[i]))
        /\ Lies(WordPieces(spoken[i]), all, Len(c[i - 1]))
    BY PiecesPlaced
  <2>2. Lies(pieces, all, o)
    BY <2>1
  <2>3. QED
    BY <2>1, <2>2 DEF Lies
<1>2. pieces \in Seq(Words) /\ k \in Nat /\ \A j \in 2 .. k : IsSubword(pieces[j])
  <2>1. spoken[i] \in Words
    OBVIOUS
  <2>2. pieces \in Seq(Words) /\ \A j \in 2 .. k : IsSubword(pieces[j])
    BY <2>1, PiecesMarked
  <2>3. QED
    BY <2>2
<1>3. \A x \in 1 .. Len(all) :
        m[x] = IF IsSubword(all[x]) THEN m[x - 1] ELSE Append(m[x - 1], all[x])
  <2>1. all \in Seq(Words)
    BY <1>1
  <2>2. QED
    BY <2>1, MarksAre
<1> HIDE DEF o, k
<1>4. CASE k = 0
  BY <1>1, <1>4 DEF o, k
<1>5. CASE k # 0
  <2> DEFINE T == {j \in 0 .. k - 1 : m[o + (j + 1)] = m[o + 1]}
  <2>1. 0 \in T
    BY <1>2, <1>5
  <2>2. ASSUME NEW j \in 1 .. k - 1, j - 1 \in T PROVE j \in T
    <3>1. j + 1 \in 2 .. k /\ j + 1 \in 1 .. k /\ j \in 0 .. k - 1
      BY <1>2
    <3>2. o + (j + 1) \in 1 .. Len(all) /\ IsSubword(all[o + (j + 1)])
      BY <1>1, <1>2, <3>1
    <3>3. (o + (j + 1)) - 1 = o + ((j - 1) + 1)
      BY <1>1
    <3>4. m[o + (j + 1)] = m[o + ((j - 1) + 1)]
      BY <1>3, <3>2, <3>3
    <3>5. QED
      BY <2>2, <3>1, <3>4
  <2>3. k - 1 \in T
    <3> HIDE DEF T
    <3>1. k - 1 \in Nat /\ k - 1 \in 0 .. k - 1
      BY <1>2, <1>5
    <3>2. \A j \in 0 .. k - 1 : j \in T
      BY <2>1, <2>2, <3>1, UpTo
    <3>3. QED
      BY <3>1, <3>2
  <2>4. o + ((k - 1) + 1) = o + k
    BY <1>1, <1>2
  <2>5. m[o + k] = m[o + 1]
    BY <2>3, <2>4
  <2>6. m[o + 1] = IF IsSubword(pieces[1]) THEN m[o] ELSE Append(m[o], pieces[1])
    <3>1. 1 \in 1 .. k /\ (o + 1) - 1 = o
      BY <1>1, <1>2, <1>5
    <3>2. QED
      BY <1>1, <1>3, <3>1
  <2>7. QED
    BY <1>1, <1>5, <2>5, <2>6 DEF o, k
<1>6. QED
  BY <1>4, <1>5

LEMMA MarksFit ==
  ASSUME NEW spoken \in Seq(Words)
  PROVE  MarksMatch(spoken, WordMarks(Tokenize(spoken), Tokenize(spoken)))
<1> DEFINE n == Len(spoken)
           c == TokenizeUpTo(spoken)
           all == Tokenize(spoken)
           m == MarksUpTo(all, all)
           marks(i) == m[Len(c[i])]
           Odd(i) == spoken[i] = <<>> \/ IsSubword(spoken[i]) \/ IsSubword(UnkToken)
           Own(i) == \A x \in 1 .. i :
                       WordPieces(spoken[x]) # <<>> /\ marks(i)[x] = WordPieces(spoken[x])[1]
           T == {i \in 0 .. n : \/ Len(marks(i)) = i /\ Own(i)
                                \/ Len(marks(i)) < i /\ \E x \in 1 .. i : Odd(x)}
           V == IdsOf(all, all)
<1>1. n \in Nat /\ DOMAIN spoken = 1 .. n /\ \A i \in 1 .. n : spoken[i] \in Words
  OBVIOUS
<1>2. c[0] = <<>> /\ all = c[n] /\ \A i \in 0 .. n : c[i] \in Seq(Words)
  BY TokenizeIs DEF Tokenize
<1>3. all \in Seq(Words)
  <2>1. n \in 0 .. n
    BY <1>1
  <2>2. QED
    BY <1>2, <2>1
<1>4. m[0] = <<>> /\ \A x \in 0 .. Len(all) : m[x] \in Seq(V)
  <2>1. m = MarksUpTo(all, all)
    OBVIOUS
  <2> HIDE DEF all, m
  <2>2. QED
    BY <1>3, <2>1, MarksAre
<1>5. \A i \in 0 .. n : marks(i) \in Seq(V)
  <2>1. ASSUME NEW i \in 0 .. n PROVE Len(c[i]) \in 0 .. Len(all)
    <3>1. Len(c[i]) <= Len(c[n])
      <4>1. n \in 0 .. n
        BY <1>1
      <4>2. QED
        BY <4>1, PiecesStay DEF Begins
    <3>2. Len(c[i]) \in Nat /\ Len(all) \in Nat
      <4>1. c[i] \in Seq(Words)
        BY <1>2
      <4>2. QED
        BY <1>3, <4>1
    <3>3. Len(c[n]) = Len(all)
      BY <1>2
    <3> HIDE DEF c, all, n
    <3>4. QED
      BY <3>1, <3>2, <3>3
  <2>2. QED
    BY <1>4, <2>1
<1>6. \A i \in 1 .. n :
        LET pieces == WordPieces(spoken[i])
        IN marks(i) = IF Len(pieces) = 0 \/ IsSubword(pieces[1]) THEN marks(i - 1)
                      ELSE Append(marks(i - 1), pieces[1])
  BY MarkOfWord
<1>7. \A i \in 1 .. n :
        LET pieces == WordPieces(spoken[i])
        IN Len(pieces) = 0 \/ IsSubword(pieces[1]) => Odd(i)
  <2>1. ASSUME NEW i \in 1 .. n, NEW pieces, pieces = WordPieces(spoken[i]),
               Len(pieces) = 0 \/ IsSubword(pieces[1])
        PROVE  Odd(i)
    <3>1. spoken[i] \in Words
      BY <1>1
    <3>2. /\ pieces \in Seq(Words)
          /\ Len(pieces) = 0 => spoken[i] = <<>>
          /\ Len(pieces) > 0 /\ IsSubword(pieces[1]) =>
               IsSubword(spoken[i]) \/ IsSubword(UnkToken)
      BY <2>1, <3>1, PiecesMarked
    <3>3. Len(pieces) = 0 \/ Len(pieces) > 0
      BY <3>2
    <3>4. QED
      BY <2>1, <3>2, <3>3
  <2>2. QED
    BY <2>1
<1> HIDE DEF n, c, all, m, marks, Odd, V
<1>8. 0 \in T
  <2>1. marks(0) = <<>> /\ 1 .. 0 = {}
    BY <1>2, <1>4, EmptySequences DEF marks
  <2>2. QED
    BY <1>1, <2>1, EmptySequences
<1>9. ASSUME NEW i \in 1 .. n, i - 1 \in T PROVE i \in T
  <2> DEFINE pieces == WordPieces(spoken[i])
             before == marks(i - 1)
             after == marks(i)
  <2>1. i \in 0 .. n /\ i - 1 \in 0 .. n /\ i \in 1 .. i /\ i \in Nat
    BY <1>1
  <2>2. before \in Seq(V) /\ after \in Seq(V) /\ Len(before) \in Nat /\ Len(after) \in Nat
    <3>1. before \in Seq(V) /\ after \in Seq(V)
      BY <1>5, <2>1
    <3> HIDE DEF before, after
    <3>2. QED
      BY <3>1
  <2>3. \/ Len(before) = i - 1 /\ Own(i - 1)
        \/ Len(before) < i - 1 /\ \E x \in 1 .. i - 1 : Odd(x)
    BY <1>9
  <2>4. CASE Len(pieces) = 0 \/ IsSubword(pieces[1])
    <3>1. after = before /\ Odd(i)
      BY <1>6, <1>7, <2>4
    <3>2. Len(after) < i
      BY <2>1, <2>2, <2>3, <3>1
    <3>3. QED
      BY <2>1, <3>1, <3>2
  <2>5. CASE ~(Len(pieces) = 0 \/ IsSubword(pieces[1]))
    <3>1. after = Append(before, pieces[1])
      BY <1>6, <2>5
    <3> HIDE DEF pieces
    <3>2. /\ Len(after) = Len(before) + 1 /\ after[Len(before) + 1] = pieces[1]
          /\ \A x \in 1 .. Len(before) : after[x] = before[x]
      <4> HIDE DEF before, after
      <4>1. QED
        BY <2>2, <3>1
    <3>3. CASE Len(before) = i - 1 /\ Own(i - 1)
      <4>1. Len(after) = i /\ after[i] = pieces[1]
        BY <2>1, <3>2, <3>3
      <4>2. ASSUME NEW x \in 1 .. i, x # i
            PROVE  WordPieces(spoken[x]) # <<>> /\ after[x] = WordPieces(spoken[x])[1]
        <5>1. x \in 1 .. i - 1
          BY <2>1, <4>2
        <5>2. QED
          BY <3>2, <3>3, <5>1
      <4>3. pieces # <<>>
        BY <2>5, EmptySequences DEF pieces
      <4>4. Own(i)
        BY <4>1, <4>2, <4>3 DEF pieces
      <4> HIDE DEF Own
      <4>5. QED
        BY <2>1, <4>1, <4>4
    <3>4. CASE Len(before) < i - 1 /\ \E x \in 1 .. i - 1 : Odd(x)
      <4>1. Len(after) < i
        BY <2>1, <2>2, <3>2, <3>4
      <4>2. \E x \in 1 .. i : Odd(x)
        BY <2>1, <3>4
      <4>3. QED
        BY <2>1, <4>1, <4>2
    <3>5. QED
      BY <2>3, <3>3, <3>4
  <2>6. QED
    BY <2>4, <2>5
<1>10. n \in T
  <2> HIDE DEF T
  <2>1. \A i \in 0 .. n : i \in T
    BY <1>1, <1>8, <1>9, UpTo
  <2>2. n \in 0 .. n
    BY <1>1
  <2>3. QED
    BY <2>1, <2>2
<1>11. WordMarks(all, all) = marks(n)
  BY <1>2 DEF WordMarks, marks, m
<1>12. MarksMatch(spoken, marks(n))
  BY <1>1, <1>10 DEF MarksMatch, Odd, n
<1>13. QED
  BY <1>11, <1>12 DEF all
-------------------------------------------------------------------------------
\* The words again

\* What merging makes of one more piece.
Grown(merged, piece) ==
  IF IsSubword(piece)
    THEN [merged EXCEPT ![Len(merged)] = @ \o SubSeq(piece, 3, Len(piece))]
    ELSE Append(merged, piece)

LEMMA GrownType ==
  ASSUME NEW merged \in Seq(Words), NEW piece \in Words
  PROVE  Grown(merged, piece) \in Seq(Words)
<1>1. CASE ~IsSubword(piece)
  BY <1>1 DEF Grown
<1>2. CASE IsSubword(piece)
  <2> DEFINE tail == SubSeq(piece, 3, Len(piece))
             k == Len(merged)
  <2>1. tail \in Words
    BY DEF Words
  <2> HIDE DEF tail
  <2>2. k \in Nat
    OBVIOUS
  <2>3. Grown(merged, piece) = [merged EXCEPT ![k] = @ \o tail]
    BY <1>2 DEF Grown, tail
  <2>4. CASE k = 0
    <3>1. merged \in [1 .. 0 -> Words] /\ 1 .. 0 = {}
      BY <2>4
    <3>2. [merged EXCEPT ![k] = @ \o tail] \in [1 .. 0 -> Words]
      BY <3>1
    <3>3. QED
      BY <2>3, <3>2
  <2>5. CASE k # 0
    <3>1. k \in 1 .. Len(merged) /\ merged[k] \in Words
      BY <2>2, <2>5
    <3>2. merged[k] \o tail \in Words
      BY <2>1, <3>1 DEF Words
    <3>3. [merged EXCEPT ![k] = merged[k] \o tail] \in Seq(Words)
      BY <3>1, <3>2, ExceptSeq
    <3>4. QED
      BY <2>3, <3>3
  <2>6. QED
    BY <2>4, <2>5
<1>3. QED
  BY <1>1, <1>2

\* A piece inside a word goes on with the last word.
Unmarked(piece) == SubSeq(piece, 3, Len(piece))

LEMMA LastGrows ==
  ASSUME NEW merged \in Seq(Words), NEW word \in Words, NEW piece \in Words, IsSubword(piece)
  PROVE  Grown(Append(merged, word), piece) = Append(merged, word \o Unmarked(piece))
<1> DEFINE tail == Unmarked(piece)
           x == Append(merged, word)
           longer == word \o tail
           y == Append(merged, longer)
           n == Len(merged) + 1
<1>1. longer \in Words
  <2>1. tail \in Words
    BY DEF Unmarked, Words
  <2> HIDE DEF tail
  <2>2. QED
    BY <2>1 DEF Words
<1> HIDE DEF longer
<1>2. /\ n \in Nat /\ n > 0
      /\ x \in Seq(Words) /\ Len(x) = n /\ x[n] = word
      /\ \A i \in 1 .. n - 1 : x[i] = merged[i]
  BY AppendProperties
<1>3. /\ y \in Seq(Words) /\ Len(y) = n /\ y[n] = longer
      /\ \A i \in 1 .. n - 1 : y[i] = merged[i]
  BY <1>1, AppendProperties
<1>4. Grown(x, piece) = [x EXCEPT ![Len(x)] = @ \o tail]
  BY DEF Grown, Unmarked
<1> HIDE DEF tail, x, y, n
<1>5. Grown(x, piece) = [x EXCEPT ![n] = longer]
  BY <1>2, <1>4 DEF longer
<1>6. n \in 1 .. Len(x)
  BY <1>2
<1> DEFINE z == [x EXCEPT ![n] = longer]
<1>7. z \in Seq(Words) /\ Len(z) = n /\ \A i \in 1 .. n : z[i] = IF i = n THEN longer ELSE x[i]
  <2>1. z \in Seq(Words) /\ Len(z) = Len(x)
        /\ \A i \in 1 .. Len(x) : z[i] = IF i = n THEN longer ELSE x[i]
    BY <1>1, <1>2, <1>6, ExceptSeq
  <2> HIDE DEF z
  <2>2. QED
    BY <1>2, <2>1
<1> HIDE DEF z
<1>8. \A i \in 1 .. n : z[i] = y[i]
  <2>1. \A i \in 1 .. n : i = n \/ i \in 1 .. n - 1
    BY <1>2
  <2>2. QED
    BY <1>2, <1>3, <1>7, <2>1
<1>9. z = y
  BY <1>3, <1>7, <1>8, SeqEqual
<1>10. QED
  BY <1>5, <1>9 DEF x, y, longer, tail, z

LEMMA MergeIs ==
  ASSUME NEW pieces \in Seq(Words), NEW m, m = MergeUpTo(pieces)
  PROVE  /\ m[0] = <<>> /\ \A i \in 0 .. Len(pieces) : m[i] \in Seq(Words)
         /\ \A i \in 1 .. Len(pieces) : m[i] = Grown(m[i - 1], pieces[i])
<1> DEFINE n == Len(pieces)
           Next1(i, x) == Grown(x, pieces[i])
           step == [i \in 1 .. n |-> [x \in Seq(Words) |-> Next1(i, x)]]
           Body(g, i) == IF i = 0 THEN <<>> ELSE Next1(i, g[i - 1])
<1>1. n \in Nat /\ \A i \in 1 .. n : pieces[i] \in Words
  OBVIOUS
<1>2. m = CHOOSE g : g = [i \in 0 .. n |-> Body(g, i)]
  BY DEF MergeUpTo, Grown
<1>3. <<>> \in Seq(Words)
  OBVIOUS
<1> HIDE DEF n
<1>4. \A i \in 1 .. n : \A x \in Seq(Words) : Next1(i, x) \in Seq(Words)
  BY <1>1, GrownType
<1> HIDE DEF Next1
<1>5. PICK f : Recurs(f, n, Seq(Words), <<>>, step)
  <2>1. step \in [1 .. n -> [Seq(Words) -> Seq(Words)]]
    BY <1>4
  <2> HIDE DEF step
  <2>2. QED
    BY <1>1, <1>3, <2>1, RecursionExists
<1>6. f = [i \in 0 .. n |-> Body(f, i)]
  <2>1. ASSUME NEW i \in 0 .. n PROVE f[i] = Body(f, i)
    <3>1. CASE i = 0
      BY <1>5, <3>1 DEF Recurs
    <3>2. CASE i # 0
      <4>1. i \in 1 .. n /\ i - 1 \in 0 .. n
        BY <1>1, <3>2
      <4>2. f[i - 1] \in Seq(Words) /\ f[i] = step[i][f[i - 1]]
        <5> HIDE DEF step
        <5>1. QED
          BY <1>5, <4>1 DEF Recurs
      <4>3. QED
        BY <3>2, <4>1, <4>2
    <3>3. QED
      BY <3>1, <3>2
  <2>2. f \in [0 .. n -> Seq(Words)]
    BY <1>5 DEF Recurs
  <2> HIDE DEF Body
  <2>3. QED
    BY <2>1, <2>2
<1>7. m = [i \in 0 .. n |-> Body(m, i)]
  <2> HIDE DEF Body
  <2>1. QED
    BY <1>2, <1>6
<1>8. m[0] = <<>> /\ \A i \in 1 .. n : m[i] = Next1(i, m[i - 1])
  <2>1. 0 \in 0 .. n /\ \A i \in 1 .. n : i \in 0 .. n /\ i # 0
    BY <1>1
  <2>2. QED
    BY <1>7, <2>1
<1>9. \A i \in 0 .. n : m[i] \in Seq(Words)
  BY <1>1, <1>3, <1>4, <1>8, TypeUpTo
<1>10. QED
  BY <1>8, <1>9 DEF n, Next1

Merges(g, pieces) == \A x \in 1 .. Len(pieces) : g[x] = Grown(g[x - 1], pieces[x])

\* Merging the pieces of a word, wherever they lie, puts it behind what was merged before.
LEMMA WordMerged ==
  ASSUME NEW token \in Words, token # <<>>, ~IsSubword(token),
         NEW ends, Cuts(token, 0, WordPieces(token), ends),
         NEW all \in Seq(Words), NEW o \in Nat, Lies(WordPieces(token), all, o),
         NEW g, g[o] \in Seq(Words), Merges(g, all)
  PROVE  g[o + Len(WordPieces(token))] = Append(g[o], token)
<1> DEFINE pieces == WordPieces(token)
           k == Len(pieces)
           T == {j \in 0 .. k - 1 : g[o + (j + 1)] = Append(g[o], SubSeq(token, 1, ends[j + 1]))}
<1>1. k \in Nat /\ k # 0 /\ Len(token) \in Nat
  <2>1. pieces \in Seq(Words) /\ Len(pieces) # 0
    BY PiecesMarked
  <2>2. QED
    BY <2>1 DEF Words
<1>2. /\ ends \in [0 .. k -> 0 .. Len(token)] /\ ends[0] = 0 /\ ends[k] = Len(token)
      /\ \A j \in 1 .. k :
           ends[j - 1] < ends[j] /\ pieces[j] = Substr(token, ends[j - 1], ends[j])
  BY DEF Cuts
<1> HIDE DEF pieces
<1>3. \A j \in 1 .. k : o + j \in 1 .. Len(all) /\ all[o + j] = pieces[j]
  BY DEF Lies, pieces
<1>4. \A j \in 1 .. k : g[o + j] = Grown(g[o + (j - 1)], pieces[j])
  <2>1. \A j \in 1 .. k : (o + j) - 1 = o + (j - 1)
    OBVIOUS
  <2>2. QED
    BY <1>3, <2>1 DEF Merges
<1> HIDE DEF k
<1>5. 0 \in T
  <2>1. 1 \in 1 .. k /\ 1 - 1 = 0 /\ o + (1 - 1) = o /\ 0 \in 0 .. k - 1 /\ 0 + 1 = 1
        /\ 1 \in 0 .. k
    BY <1>1
  <2>2. ends[1] \in 1 .. Len(token) /\ pieces[1] = Substr(token, 0, ends[1])
    BY <1>1, <1>2, <2>1
  <2>3. pieces[1] = SubSeq(token, 1, ends[1]) /\ ~IsSubword(pieces[1])
    BY <2>2, SubstrFirst
  <2>4. g[o + 1] = Append(g[o], SubSeq(token, 1, ends[1]))
    BY <1>4, <2>1, <2>3 DEF Grown
  <2>5. QED
    BY <2>1, <2>4
<1>6. ASSUME NEW j \in 1 .. k - 1, j - 1 \in T PROVE j \in T
  <2> DEFINE before == SubSeq(token, 1, ends[j])
             piece == Substr(token, ends[j], ends[j + 1])
             tail == SubSeq(token, ends[j] + 1, ends[j + 1])
             grown == SubSeq(token, 1, ends[j + 1])
  <2>1. /\ j \in 1 .. k /\ j + 1 \in 1 .. k /\ (j + 1) - 1 = j /\ (j - 1) + 1 = j
        /\ j \in 0 .. k - 1 /\ j \in 0 .. k /\ j + 1 \in 0 .. k /\ j - 1 \in 0 .. k
    BY <1>1
  <2>2. /\ ends[j] \in 1 .. Len(token) /\ ends[j + 1] \in ends[j] + 1 .. Len(token)
        /\ pieces[j + 1] = piece
    <3>1. /\ ends[j - 1] \in 0 .. Len(token) /\ ends[j] \in 0 .. Len(token)
          /\ ends[j + 1] \in 0 .. Len(token)
          /\ ends[j - 1] < ends[j] /\ ends[j] < ends[j + 1]
          /\ pieces[j + 1] = piece
      BY <1>2, <2>1
    <3> HIDE DEF piece
    <3>2. QED
      BY <1>1, <3>1
  <2>3. /\ piece \in Words /\ IsSubword(piece)
        /\ Unmarked(piece) = tail
    BY <2>2, SubstrInside DEF Unmarked
  <2>4. before \in Words /\ tail \in Words
    BY <1>1, <2>2 DEF Words
  <2>5. before \o tail = grown
    <3>1. /\ token \in Seq(Letters) /\ 1 \in 1 .. Len(token) + 1
          /\ ends[j] \in 1 - 1 .. Len(token) /\ ends[j + 1] \in ends[j] .. Len(token)
      BY <1>1, <2>2 DEF Words
    <3>2. QED
      BY <3>1, ConcatAdjacentSubSeq
  <2>6. g[o + j] = Append(g[o], before)
    BY <1>6, <2>1
  <2>7. g[o + (j + 1)] = Grown(g[o + j], piece)
    BY <1>4, <2>1, <2>2
  <2> DEFINE base == g[o]
  <2>8. Grown(Append(base, before), piece) = Append(base, before \o tail)
    <3>1. base \in Seq(Words)
      OBVIOUS
    <3> HIDE DEF base, before, piece, tail
    <3>2. QED
      BY <2>3, <2>4, <3>1, LastGrows
  <2> HIDE DEF before, piece, tail
  <2>9. QED
    BY <2>1, <2>5, <2>6, <2>7, <2>8
<1>7. k - 1 \in T
  <2> HIDE DEF T
  <2>1. k - 1 \in Nat /\ k - 1 \in 0 .. k - 1
    BY <1>1
  <2>2. \A j \in 0 .. k - 1 : j \in T
    BY <1>5, <1>6, <2>1, UpTo
  <2>3. QED
    BY <2>1, <2>2
<1>8. (k - 1) + 1 = k /\ SubSeq(token, 1, Len(token)) = token
  BY <1>1, SubSeqFull DEF Words
<1>9. g[o + k] = Append(g[o], token)
  BY <1>2, <1>7, <1>8
<1>10. QED
  BY <1>9 DEF k, pieces

LEMMA WordsMerge ==
  ASSUME NEW spoken \in Seq(Words)
  PROVE  PiecesMerge(spoken)
<1> DEFINE n == Len(spoken)
           c == TokenizeUpTo(spoken)
           all == Tokenize(spoken)
           m == MergeUpTo(all)
           first(i) == SubSeq(spoken, 1, i)
           T == {i \in 0 .. n : m[Len(c[i])] = first(i)}
<1> SUFFICES ASSUME \A i \in DOMAIN spoken : spoken[i] # <<>> /\ ~IsSubword(spoken[i]),
                    UnkToken \notin Range(all)
             PROVE  ~MergeThrows(all) /\ Merge(all) = spoken
  BY DEF PiecesMerge
<1>1. n \in Nat /\ DOMAIN spoken = 1 .. n /\ \A i \in 1 .. n : spoken[i] \in Words
  OBVIOUS
<1>2. c[0] = <<>> /\ all = c[n] /\ all \in Seq(Words)
  <2>1. c[0] = <<>> /\ all = c[n] /\ \A i \in 0 .. n : c[i] \in Seq(Words)
    BY TokenizeIs DEF Tokenize
  <2>2. n \in 0 .. n
    BY <1>1
  <2> HIDE DEF n, c, all
  <2>3. QED
    BY <2>1, <2>2
<1>3. /\ m[0] = <<>> /\ \A x \in 0 .. Len(all) : m[x] \in Seq(Words)
      /\ \A x \in 1 .. Len(all) : m[x] = Grown(m[x - 1], all[x])
  <2> HIDE DEF all
  <2>1. QED
    BY <1>2, MergeIs
<1>4. ASSUME NEW i \in 1 .. n
      PROVE  LET pieces == WordPieces(spoken[i])
             IN /\ Len(c[i - 1]) \in Nat /\ Len(c[i]) = Len(c[i - 1]) + Len(pieces)
                /\ Lies(pieces, all, Len(c[i - 1]))
  BY PiecesPlaced
<1>5. ASSUME NEW i \in 1 .. n, NEW pieces, pieces = WordPieces(spoken[i])
      PROVE  /\ pieces \in Seq(Words) /\ Len(pieces) # 0 /\ ~IsSubword(pieces[1])
             /\ \E ends : Cuts(spoken[i], 0, pieces, ends)
  <2>1. /\ pieces \in Seq(Words)
        /\ Len(pieces) = 0 => spoken[i] = <<>>
        /\ Len(pieces) > 0 /\ IsSubword(pieces[1]) => IsSubword(spoken[i]) \/ IsSubword(UnkToken)
    BY <1>1, <1>5, PiecesMarked
  <2>2. /\ spoken[i] # <<>> /\ ~IsSubword(spoken[i])
        /\ pieces = <<UnkToken>> \/ \E ends : Cuts(spoken[i], 0, pieces, ends)
    BY <1>1, <1>5, WordPiecesAre
  <2>3. pieces # <<UnkToken>>
    <3> SUFFICES ASSUME pieces = <<UnkToken>> PROVE FALSE
      OBVIOUS
    <3> DEFINE o == Len(c[i - 1])
    <3>1. Lies(pieces, all, o)
      BY <1>4, <1>5
    <3> HIDE DEF o, c, all
    <3>2. 1 \in 1 .. Len(pieces) /\ pieces[1] = UnkToken
      OBVIOUS
    <3>3. o + 1 \in 1 .. Len(all) /\ all[o + 1] = UnkToken
      BY <3>1, <3>2 DEF Lies
    <3>4. o + 1 \in DOMAIN all
      BY <1>2, <3>3
    <3>5. QED
      BY <3>3, <3>4 DEF Range
  <2>4. PICK ends : Cuts(spoken[i], 0, pieces, ends)
    BY <2>2, <2>3
  <2>5. ~IsSubword(pieces[1])
    <3>1. Len(pieces) \in Nat /\ Len(pieces) # 0 /\ Len(spoken[i]) \in Nat
      BY <1>1, <2>1, <2>2 DEF Words
    <3>2. /\ 1 \in 1 .. Len(pieces) /\ 1 - 1 = 0 /\ 1 \in 0 .. Len(pieces)
      BY <3>1
    <3>3. ends[1] \in 1 .. Len(spoken[i]) /\ pieces[1] = Substr(spoken[i], 0, ends[1])
      <4>1. /\ ends[1] \in 0 .. Len(spoken[i]) /\ ends[0] = 0 /\ ends[0] < ends[1]
            /\ pieces[1] = Substr(spoken[i], ends[0], ends[1])
        BY <2>4, <3>2 DEF Cuts
      <4>2. QED
        BY <3>1, <4>1
    <3>4. QED
      BY <1>1, <2>2, <3>3, SubstrFirst
  <2>6. QED
    BY <2>1, <2>2, <2>4, <2>5
<1> HIDE DEF n, c, all, m, first
<1>6. 0 \in T
  <2>1. first(0) = <<>> /\ Len(c[0]) = 0
    BY <1>2, SubSeqEmpty, EmptySequences DEF first
  <2>2. QED
    BY <1>1, <1>3, <2>1
<1>7. ASSUME NEW i \in 1 .. n, i - 1 \in T PROVE i \in T
  <2> DEFINE pieces == WordPieces(spoken[i])
             o == Len(c[i - 1])
  <2>1. /\ i \in 0 .. n /\ i - 1 \in 0 .. n /\ spoken[i] \in Words
        /\ spoken[i] # <<>> /\ ~IsSubword(spoken[i])
    BY <1>1
  <2>2. /\ o \in Nat /\ Len(c[i]) = o + Len(pieces) /\ Lies(pieces, all, o)
    BY <1>4
  <2>3. /\ pieces \in Seq(Words) /\ Len(pieces) \in Nat /\ Len(pieces) # 0
        /\ \E ends : Cuts(spoken[i], 0, pieces, ends)
    <3>1. /\ pieces \in Seq(Words) /\ Len(pieces) # 0
          /\ \E ends : Cuts(spoken[i], 0, pieces, ends)
      BY <1>5
    <3> HIDE DEF pieces
    <3>2. QED
      BY <3>1
  <2>4. PICK ends : Cuts(spoken[i], 0, pieces, ends)
    BY <2>3
  <2>5. m[o] = first(i - 1)
    BY <1>7
  <2>6. first(i - 1) \in Seq(Words)
    BY <1>1, <2>1 DEF first, n
  <2>7. m[o + Len(pieces)] = Append(m[o], spoken[i])
    <3> DEFINE token == spoken[i]
    <3>1. /\ token \in Words /\ token # <<>> /\ ~IsSubword(token)
          /\ pieces = WordPieces(token) /\ Cuts(token, 0, pieces, ends)
          /\ m[o] \in Seq(Words) /\ Merges(m, all)
      BY <1>3, <2>1, <2>4, <2>5, <2>6 DEF Merges
    <3> HIDE DEF pieces, o, token
    <3>2. m[o + Len(pieces)] = Append(m[o], token)
      BY <1>2, <2>2, <3>1, WordMerged
    <3>3. QED
      BY <3>2 DEF token
  <2> HIDE DEF pieces, o
  <2>8. Append(first(i - 1), spoken[i]) = first(i)
    <3>1. first(i) = first(i - 1) \o <<spoken[i]>>
      <4>1. 1 \in 1 .. Len(spoken) /\ i \in 1 .. Len(spoken)
        BY <1>1 DEF n
      <4>2. QED
        BY <4>1, SubSeqRecursiveSecond DEF first
    <3>2. QED
      BY <2>1, <2>6, <3>1, AppendIsConcat
  <2>9. QED
    BY <2>1, <2>2, <2>5, <2>7, <2>8
<1>8. n \in T
  <2> HIDE DEF T
  <2>1. \A i \in 0 .. n : i \in T
    BY <1>1, <1>6, <1>7, UpTo
  <2>2. n \in 0 .. n
    BY <1>1
  <2>3. QED
    BY <2>1, <2>2
<1>9. Merge(all) = spoken
  <2>1. m[Len(all)] = first(n) /\ first(n) = spoken
    BY <1>2, <1>8, SubSeqFull DEF first, n
  <2>2. QED
    BY <2>1 DEF Merge, m
<1>10. ~MergeThrows(all)
  <2>1. CASE n = 0
    <3>1. all = <<>>
      BY <1>2, <2>1
    <3>2. QED
      BY <3>1 DEF MergeThrows
  <2>2. CASE n # 0
    <3> DEFINE pieces == WordPieces(spoken[1])
    <3>1. 1 \in 1 .. n /\ 1 - 1 = 0
      BY <1>1, <2>2
    <3>2. Lies(pieces, all, Len(c[0])) /\ Len(c[0]) = 0
      BY <1>2, <1>4, <3>1, EmptySequences
    <3>3. pieces \in Seq(Words) /\ Len(pieces) # 0 /\ ~IsSubword(pieces[1])
      BY <1>5, <3>1
    <3> HIDE DEF pieces
    <3>4. 1 \in 1 .. Len(pieces) /\ 0 + 1 = 1
      BY <3>3
    <3>5. all[1] = pieces[1]
      BY <3>2, <3>4 DEF Lies
    <3>6. QED
      BY <3>3, <3>5 DEF MergeThrows
  <2>3. QED
    BY <2>1, <2>2
<1>11. QED
  BY <1>9, <1>10 DEF all
-------------------------------------------------------------------------------
\* The theorems

\* The types, with what each stage of the diarization and of the formatter has done.
THEOREM TranscriptInvariance == Spec => []TInv
<1>1. Init => TInv
  <2> SUFFICES ASSUME Init PROVE TInv
    OBVIOUS
  <2>1. DiaInv
    <3>1. num_frames \in Nat
      BY DiarizationAssumption DEF Init, DiaInit
    <3>2. QED
      BY <3>1 DEF Init, DiaInit, DiaInv, DiaTypes, MarksAlternate, Behind, SegmentsInOrder
  <2>2. DiaTyped
    BY EmptySequences DEF Init, DiaInit, DiaTyped
  <2>3. FormatTyped
    <3>1. words = <<>> /\ n_taken = 0 /\ Len(<<>>) = 0
      BY DEF Init, FormatInit
    <3>2. n_taken \in 0 .. Len(words)
      BY <3>1
    <3>3. QED
      BY <3>1, <3>2, ZeroAndOne, EmptySequences
      DEF Init, FormatInit, FormatTyped, FormatType
  <2>4. CallTyped
    BY DEF Init, CallTyped
  <2>5. QED
    BY <2>1, <2>2, <2>3, <2>4 DEF TInv
<1>2. QED
  BY <1>1, TypeStep, PTL DEF Spec

\* The arrays, weights, times and tags keep their types for every recording and every
\* grammar: what is put in order, divided, multiplied or looked up is always there.
THEOREM TranscriptTypeCorrect == Spec => []TypeOK
<1>1. TInv => TypeOK
  <2> SUFFICES ASSUME TInv PROVE TypeOK
    OBVIOUS
  <2>1. DiaType
    BY DEF TInv, DiaInv, DiaTypes, DiaTyped, DiaType
  <2>2. \A i \in DOMAIN best_aligned : best_aligned[i].weight \in Weights
    <3>1. \A i \in DOMAIN best_aligned : best_aligned[i] \in WordAlis
      BY DEF TInv, CallTyped
    <3>2. QED
      BY <3>1, WeightType
  <2>3. QED
    BY <2>1, <2>2 DEF TInv, FormatTyped, CallTyped, TypeOK
<1>2. QED
  BY <1>1, TranscriptInvariance, PTL

\* The context, the words and the capital that a call leaves are accounted for.
THEOREM ResultsInvariance == Spec => [](TInv /\ RInv)
<1>1. Init => RInv
  BY DEF Init, RInv, Told
<1>2. RInv /\ TInv /\ [Next]_vars => RInv'
  BY ResultsStep
<1>3. QED
  BY <1>1, <1>2, TranscriptInvariance, PTL DEF Spec

\* GetResults(), with all the alignment, rewriting and punctuation it does, has no outcome
\* but those that the models of the RPCs give it, and the context it leaves for the next
\* call is the one they take it to leave, whatever the grammar and the vocabulary are.
THEOREM ResultsRefineRecognizer == Spec => []ResultsAreAbstractResults
<1>1. TInv /\ RInv => ResultsAreAbstractResults
  <2> SUFFICES ASSUME TInv, RInv, stage \in {"respond", "done"}
               PROVE  Seen \in Abstract!GetResults(Recognized, TRUE, call.punctuate)
    BY DEF ResultsAreAbstractResults
  <2>1. /\ call.punctuate \in BOOLEAN /\ call.punctuator \in BOOLEAN /\ call.formatter \in BOOLEAN
    BY TranscriptAssumption DEF TInv, CallTyped
  <2>2. Recognized.id = 1
        /\ Recognized.left_context = IF call.left_context = <<>> THEN -1 ELSE 0
    BY DEF Recognized, Abstract!NewRecognizer, Abstract!NoContext
  <2>3. CASE result.kind # "result"
    <3>1. result.kind \in {"none", "throw"} /\ Seen = Abstract!Failure(Recognized, result.kind)
      BY <2>3 DEF RInv, Seen
    <3>2. QED
      BY <3>1 DEF Abstract!GetResults
  <2>4. CASE result.kind = "result"
    <3>1. /\ result.words = (best_aligned # <<>>) /\ ContextFits
          /\ best_aligned = <<>> => call.formatter
          /\ result.opens = (call.punctuate /\ call.punctuator /\ call.left_context = <<>>)
      BY <2>4 DEF RInv, Told
    <3>2. Abstract!Opens(Recognized, TRUE, call.punctuate) = result.opens
      BY <2>1, <2>2, <3>1 DEF Abstract!Opens, Abstract!Punctuates, Abstract!NoContext
    <3>3. AbstractContext =
            IF Punctuating /\ best_aligned # <<>> THEN 1 ELSE Recognized.left_context
      BY <2>2, <3>1 DEF AbstractContext, ContextFits, Abstract!NoContext
    <3>4. Seen = Abstract!Transcript(Recognized, TRUE, call.punctuate, result.words)
      BY <2>1, <2>2, <2>4, <3>1, <3>2, <3>3
      DEF Seen, Abstract!Transcript, Abstract!Punctuates, Punctuating
    <3>5. result.words = FALSE => call.formatter /\ ~result.opens
      BY <2>1, <3>1 DEF ContextFits, Punctuating
    <3>6. result.words \in BOOLEAN
      BY <3>1
    <3>7. QED
      BY <3>2, <3>4, <3>5, <3>6 DEF Abstract!GetResults
  <2>5. QED
    BY <2>3, <2>4
<1>2. QED
  BY <1>1, ResultsInvariance, PTL

\* The segments are apart, and the tags are looked up at the times that Convert() gave.
THEOREM TagsInvariance == Spec => [](TInv /\ GInv)
<1>1. Init => GInv
  BY EmptySequences
  DEF Init, FormatInit, GInv, DecisionsApart, WordsRewritten, WordsStart, WordsTagged
<1>2. GInv /\ TInv /\ [Next]_vars => GInv'
  BY TagsStep
<1>3. QED
  BY <1>1, <1>2, TranscriptInvariance, PTL DEF Spec

\* A word has the tag of the one segment in which the first recognized word that it is
\* rewritten from begins, but for the millisecond that a conversion may be short, for every
\* recording, every clustering and every grammar, up to the first word that is split where
\* Convert() cannot time the parts: no step from the lattice to the response moves it.
THEOREM TagsStayWithTheAudio == Spec => []TagsFollowTheAudio
<1>1. TInv /\ GInv /\ FInv => TagsFollowTheAudio
  <2> DEFINE first(i) == IF call.formatter THEN FirstOf(i) ELSE i
             begin(i) == Millis(first_frames[first(i)])
             segments(ms) == {s \in DOMAIN diarization_decisions :
                                /\ diarization_decisions[s].start_frame * DiaFrameShift <= ms
                                /\ ms < diarization_decisions[s].end_frame * DiaFrameShift}
  <2> SUFFICES ASSUME TInv, GInv, FInv, call.diarizer, stage = "done", NEW i \in DOMAIN response,
                      call.formatter => BeforeMissed(i)
               PROVE  \E ms \in {begin(i) - 1, begin(i)} :
                        IF segments(ms) = {}
                          THEN response[i].speaker_tag = 0
                          ELSE \E s \in segments(ms) :
                                 /\ segments(ms) = {s}
                                 /\ response[i].speaker_tag = diarization_decisions[s].spk_id
    BY DEF TagsFollowTheAudio
  <2> DEFINE ms == best_aligned[i].weight.start
             frame == first_frames[first(i)]
  <2>1. /\ i \in DOMAIN best_aligned
        /\ IsTimed(best_aligned[i].weight) => response[i].speaker_tag = SpeakerAt(ms)
    BY DEF GInv, WordsTagged
  <2>2. /\ best_aligned \in Seq(WordAlis) /\ diarization_decisions \in Seq(Decisions)
        /\ call.formatter \in BOOLEAN
    BY TranscriptAssumption DEF TInv, CallTyped
  <2>3. frame \in 0 .. MaxAligned /\ ms = FramesToMillis(frame)
    <3>1. CASE call.formatter
      <4>1. best_aligned = word_alis /\ place = "before"
        BY <2>1, <3>1, EmptySequences DEF GInv, WordsRewritten
      <4>2. i \in 1 .. Len(word_alis)
        BY <2>1, <2>2, <4>1
      <4>3. Timed(i)
        BY <3>1, <4>1, <4>2 DEF FInv, AllTimed
      <4>4. FirstOf(i) \in DOMAIN words /\ ms = words[FirstOf(i)].start
        BY <4>1, <4>3 DEF FInv, InOrder, Timed, Span, Weight
      <4>5. QED
        BY <3>1, <4>4 DEF GInv, WordsStart, StartsAt
    <3>2. CASE ~call.formatter
      BY <2>1, <3>2 DEF GInv, WordsStart, StartsAt
    <3>3. QED
      BY <2>2, <3>1, <3>2
  <2>4. /\ ms \in Int /\ ms \in {begin(i) - 1, begin(i)}
        /\ response[i].speaker_tag = SpeakerAt(ms)
    <3> HIDE DEF frame, ms
    <3>1. ms \in Nat /\ ms \in {Millis(frame) - 1, Millis(frame)}
      BY <2>3, MillisShort
    <3>2. Millis(frame) < Inf
      <4>1. frame \in Nat /\ MaxAligned \in Nat /\ frame <= MaxAligned
        BY <2>3, TranscriptAssumption
      <4>2. Millis(frame) <= Millis(MaxAligned) /\ Millis(frame) \in Nat
            /\ Millis(MaxAligned) \in Nat
        BY <4>1, MillisMonotone
      <4>3. QED
        BY <4>2, PathAssumption, InfAssumption
    <3>3. Millis(frame) \in Nat
      BY <2>3, TranscriptAssumption DEF Millis
    <3>4. ms \notin {-Inf, Inf}
      BY <3>1, <3>2, <3>3, InfAssumption
    <3>5. IsTimed(best_aligned[i].weight)
      BY <3>4 DEF IsTimed, ms
    <3>6. begin(i) = Millis(frame)
      BY DEF frame
    <3>7. QED
      BY <2>1, <3>1, <3>5, <3>6
  <2> HIDE DEF ms, frame, first
  <2>5. /\ \A s \in DOMAIN diarization_decisions :
             /\ diarization_decisions[s].start_frame \in Nat
             /\ diarization_decisions[s].end_frame \in Nat
        /\ DiaFrameShift \in Nat
    <3>1. \A s \in DOMAIN diarization_decisions : diarization_decisions[s] \in Decisions
      BY <2>2
    <3>2. QED
      BY <3>1, TranscriptAssumption DEF Decisions
  <2>6. segments(ms) = SegmentsAt(ms)
    BY <2>3, <2>5 DEF SegmentsAt
  <2>7. ASSUME NEW s \in SegmentsAt(ms), NEW t \in SegmentsAt(ms), s < t PROVE FALSE
    <3>1. /\ s \in DOMAIN diarization_decisions /\ t \in DOMAIN diarization_decisions
          /\ ms < diarization_decisions[s].end_frame * DiaFrameShift
          /\ ms >= diarization_decisions[t].start_frame * DiaFrameShift
      BY DEF SegmentsAt
    <3>2. diarization_decisions[s].end_frame <= diarization_decisions[t].start_frame
      BY <2>7, <3>1 DEF GInv, DecisionsApart
    <3>3. diarization_decisions[s].end_frame * DiaFrameShift
            <= diarization_decisions[t].start_frame * DiaFrameShift
      BY <2>5, <3>1, <3>2, TimesMonotone
    <3>4. /\ diarization_decisions[s].end_frame * DiaFrameShift \in Nat
          /\ diarization_decisions[t].start_frame * DiaFrameShift \in Nat
      BY <2>5, <3>1
    <3>5. QED
      BY <2>4, <3>1, <3>3, <3>4
  <2> HIDE DEF segments, begin
  <2>8. CASE SegmentsAt(ms) = {}
    BY <2>4, <2>6, <2>8 DEF SpeakerAt
  <2>9. CASE SegmentsAt(ms) # {}
    <3>1. PICK s \in SegmentsAt(ms) : SpeakerAt(ms) = diarization_decisions[s].spk_id
      BY <2>2, <2>4, <2>9, SpeakerIsDecided
    <3>2. \A t \in SegmentsAt(ms) : t = s
      <4>1. SegmentsAt(ms) \subseteq Nat
        BY <2>2 DEF SegmentsAt
      <4>2. \A t \in SegmentsAt(ms) : t < s \/ s < t \/ t = s
        BY <4>1
      <4>3. QED
        BY <2>7, <4>2
    <3>3. SegmentsAt(ms) = {s}
      BY <3>2
    <3>4. QED
      BY <2>4, <2>6, <3>1, <3>3
  <2>10. QED
    BY <2>8, <2>9
<1>2. QED
  BY <1>1, TagsInvariance, ConvertInvariance, PTL

\* Whatever the vocabulary, and however the words were recognized and rewritten, each word
\* gets the mark that was predicted for its own first piece, unless a word has been emptied
\* or is spelled like the inside of one or unknown words are: then there are fewer marks
\* than words.  And merging the pieces of the words gives the words again, if all are known.
THEOREM PunctuationStaysWithWords == Spec => []PunctuationFitsWords
<1>1. TInv => PunctuationFitsWords
  <2> SUFFICES ASSUME TInv
               PROVE  MarksMatch(Texts1, WordMarks(Pieces, Pieces)) /\ PiecesMerge(Texts1)
    BY DEF PunctuationFitsWords
  <2>1. best_aligned \in Seq(WordAlis)
    BY DEF TInv, CallTyped
  <2>2. Texts1 \in Seq(Words)
    <3>1. STRING \subseteq Letters
      BY DEF Letters
    <3>2. ASSUME NEW i \in DOMAIN best_aligned PROVE best_aligned[i].text \in Words
      <4>1. best_aligned[i].text \in Seq(STRING)
        <5>1. best_aligned[i] \in WordAlis
          BY <2>1
        <5>2. QED
          BY <5>1 DEF WordAlis
      <4>2. QED
        BY <3>1, <4>1, SeqMonotonic DEF Words
    <3>3. Len(best_aligned) \in Nat /\ DOMAIN best_aligned = 1 .. Len(best_aligned)
      BY <2>1
    <3>4. QED
      BY <3>2, <3>3 DEF Texts1
  <2>3. QED
    BY <2>2, MarksFit, WordsMerge DEF Pieces
<1>2. QED
  BY <1>1, TranscriptInvariance, PTL
===============================================================================
