------------------------------ MODULE Transcript ------------------------------
(***************************************************************************)
(* How the audio that was heard becomes a response: the diarization, then  *)
(* Recognizer::GetResults with the word alignment, the inverse text        *)
(* normalisation and the punctuation, then the word times and the speaker  *)
(* tags of the unary Recognize (src/api/services.cc, src/recognizer.cc).   *)
(* The module composes Diarization, Formatter and Punctuation; "stage" is  *)
(* the call that is running, and what is local to a call is reset when it  *)
(* returns.                                                                *)
(*                                                                         *)
(* GetResults is modelled once more in Recognizer, by what an RPC can see  *)
(* of it: here the detailed call is shown to do nothing else.              *)
(***************************************************************************)
EXTENDS Diarization, Formatter, Punctuation, SingleFloat

CONSTANTS
  Calls,        \* what a call is made with: the model's parts, the request, the context,
                \* and the best paths there may be: texts and their numbers of frames
  FrameShiftInSeconds,  \* of the features of the decoder, a float
  FrameShift,           \* the milliseconds that it stands for
  Subsampling,          \* frame_subsampling_factor of the decoder
  DiaFrameShift,        \* frame_shift_ms of the diarizer
  Ids,                  \* what the network predicts for a word piece
  MaxAligned            \* bound: frames of the decoder in a path

ASSUME TranscriptAssumption ==
  /\ \A c \in Calls :
       /\ c.formatter \in BOOLEAN /\ c.punctuator \in BOOLEAN /\ c.diarizer \in BOOLEAN
       /\ c.diarize \in BOOLEAN /\ c.min_speaker_count \in Nat
       /\ c.max_alternatives \in Nat /\ c.punctuate \in BOOLEAN
       /\ c.word_time_offsets \in BOOLEAN
  /\ FrameShift \in Nat \ {0} /\ Subsampling \in Nat \ {0} /\ FrameShift * Subsampling >= 2
  /\ DiaFrameShift \in Nat \ {0} /\ MaxAligned \in Nat /\ Ids \subseteq Nat

VARIABLES
  call, stage,
  diarization_decisions,
  n_paths,        \* lats.size()
  first_frames,   \* history: the frame at which each recognized word begins
  best_aligned, transcripts, left_context,
  result,         \* what GetResults() did, as Recognizer describes it
  response, status

call_vars == <<call, diarization_decisions, n_paths, first_frames>>
out_vars == <<best_aligned, transcripts, left_context, result, response, status>>
vars == <<dia_vars, format_vars, call_vars, stage, out_vars>>

Init ==
  /\ DiaInit /\ FormatInit
  /\ call \in Calls
  /\ ~call.diarize => num_frames = 0
  /\ stage = "diarize" /\ diarization_decisions = <<>> /\ n_paths = 0 /\ first_frames = <<>>
  /\ best_aligned = <<>> /\ transcripts = <<>> /\ left_context = call.left_context
  /\ result = [kind |-> "none", words |-> FALSE, opens |-> FALSE]
  /\ response = <<>> /\ status = "none"
-------------------------------------------------------------------------------
\* Recognize: the diarization

NumSpeakers == IF call.min_speaker_count > 2 THEN call.min_speaker_count ELSE 2

RunDiarizer ==
  /\ stage = "diarize" /\ call.diarize /\ call.diarizer
  /\ Diarize(NumSpeakers)
  /\ UNCHANGED <<format_vars, call_vars, stage, out_vars>>

\* The diarizer returns, if it has run at all.
Diarized ==
  /\ stage = "diarize"
  /\ call.diarize /\ call.diarizer => dia = "done"
  /\ diarization_decisions' =
       [i \in DOMAIN spk_ids |->
          [spk_id |-> spk_ids[i], start_frame |-> segmentation[i][1],
           end_frame |-> segmentation[i][2]]]
  /\ dia' = "mark" /\ num_frames' = 0 /\ voiced' = {} /\ S' = {} /\ E' = {}
  /\ active_frames' = <<>> /\ nonsil' = 0 /\ num_segment_frames' = 0 /\ changed' = FALSE
  /\ cursor' = 0 /\ segmentation' = <<>> /\ spk_ids' = <<>>
  /\ stage' = "paths"
  /\ UNCHANGED <<format_vars, call, n_paths, first_frames, out_vars>>
-------------------------------------------------------------------------------
\* GetResults

\* The product is one of floats, and truncated.
FramesToMillis(n) ==
  LET seconds == FloatTimes(Float(n, 0), FrameShiftInSeconds)
      millis == FloatTimes(seconds, Float(125, 3))
  IN Truncated(FloatTimes(millis, Float(Subsampling, 0)))

\* What it should be.
Millis(n) == n * FrameShift * Subsampling

\* It is short by a millisecond at most, which TLC works out within the bound.
ASSUME MillisAssumption ==
  \A n \in 0 .. MaxAligned : FramesToMillis(n) \in Nat \cap {Millis(n) - 1, Millis(n)}

\* GetWordAlignments: the times of the words of a path; silence, whose text is empty
\* here, takes time and is no word.
BeginFrames(path) ==
  LET Begin[i \in 0 .. Len(path)] == IF i = 0 THEN 0 ELSE Begin[i - 1] + path[i].length
  IN Begin

\* The end is worked out from the duration, in FormatWords() or Convert().
WordWeight(path, i) ==
  LET start == FramesToMillis(BeginFrames(path)[i - 1])
      duration == FramesToMillis(path[i].length)
  IN Weight(start, start + duration)

\* Where the words are.
WordsOf(path) ==
  LET Found[i \in 0 .. Len(path)] ==
        IF i = 0 THEN <<>>
        ELSE IF path[i].text = <<>> THEN Found[i - 1] ELSE Append(Found[i - 1], i)
  IN Found[Len(path)]

WordAlignments(path) ==
  [k \in DOMAIN WordsOf(path) |->
     [text |-> path[WordsOf(path)[k]].text, weight |-> WordWeight(path, WordsOf(path)[k])]]

FirstFrames(path) == [k \in DOMAIN WordsOf(path) |-> BeginFrames(path)[WordsOf(path)[k] - 1]]

\* The words of a path last some frames, and the times are finite.
ASSUME PathAssumption ==
  /\ \A c \in Calls : \A path \in c.best_paths :
       /\ path \in Seq([text: Seq(STRING), length: Nat])
       /\ \A i \in DOMAIN path : path[i].text # <<>> => path[i].length > 0
       /\ BeginFrames(path)[Len(path)] <= MaxAligned
  /\ Millis(MaxAligned) < Inf

MaxAlternatives == IF call.max_alternatives = 0 THEN 1 ELSE call.max_alternatives

GetResultsReturns(kind) ==
  /\ result' = [kind |-> kind, words |-> best_aligned' # <<>>,
                opens |-> call.punctuate /\ call.punctuator /\ call.left_context = <<>>]
  /\ stage' = "respond"

\* How many paths there may be: none if no frame was decoded.
GetShortestPaths(n_max) == 0 .. n_max

\* lats: the shortest paths, or one best path.  The first one's words are aligned.
FindPaths ==
  /\ stage = "paths"
  /\ n_paths' \in GetShortestPaths(MaxAlternatives)
  /\ \/ /\ n_paths' > 0
        /\ \E path \in call.best_paths : /\ best_aligned' = WordAlignments(path)
                                        /\ first_frames' = FirstFrames(path)
        /\ best_aligned' # <<>>
        /\ stage' = IF call.formatter THEN "format" ELSE "punctuate"
        /\ IF call.formatter
             THEN StartFormat([i \in DOMAIN best_aligned' |-> best_aligned'[i].weight])
             ELSE UNCHANGED format_vars
        /\ UNCHANGED result
     \/ /\ best_aligned' = <<>> /\ GetResultsReturns("none")
        /\ UNCHANGED <<format_vars, first_frames>>
  /\ UNCHANGED <<dia_vars, call, diarization_decisions, transcripts, left_context, response,
                 status>>

RunFormatter ==
  /\ stage = "format" /\ Format
  /\ UNCHANGED <<dia_vars, call_vars, stage, out_vars>>

FormatWords ==
  /\ stage = "format" /\ Formatted
  /\ best_aligned' = word_alis
  /\ stage' = "punctuate"
  /\ UNCHANGED <<dia_vars, format_vars, call_vars, transcripts, left_context, result, response,
                 status>>

\* No path of the grammar accepts the words: there are none any more.
FormatFails ==
  /\ stage = "format" /\ place = "before" /\ n_taken = 0 /\ word_alis = <<>>
  /\ best_aligned' = <<>>
  /\ place' = "off" /\ words' = <<>>
  /\ stage' = "punctuate"
  /\ UNCHANGED <<dia_vars, n_taken, n_early, first_missed, convert_vars, call_vars, transcripts,
                 left_context, result, response, status>>

Texts1 == [i \in DOMAIN best_aligned |-> best_aligned[i].text]
Pieces == Tokenize(Texts1)
Punctuating == call.punctuate /\ call.punctuator

\* transcripts->push_back(Join(first_word_symbols)): a transcript is the words it joins.
FirstTranscript(spelled) == transcripts' = <<spelled>>

Plain(text) == [text |-> text, capital |-> FALSE, mark |-> 0]

NotPunctuated ==
  /\ stage = "punctuate" /\ ~Punctuating
  /\ FirstTranscript([i \in DOMAIN Texts1 |-> Plain(Texts1[i])])
  /\ stage' = "others"
  /\ UNCHANGED <<dia_vars, format_vars, call_vars, best_aligned, left_context, result,
                 response, status>>

\* Where the first word is capitalised although there is none, or a piece is not in the
\* vocabulary, an exception leaves GetResults().
PunctuateThrows ==
  /\ stage = "punctuate" /\ Punctuating
  /\ \/ TokensToIdsThrows(Pieces)
     \/ /\ Texts1 = <<>> /\ ~ContextBreaks(left_context)
        /\ left_context = <<>> \/ EndsSentence(left_context)
  /\ UNCHANGED best_aligned
  /\ GetResultsReturns("throw")
  /\ UNCHANGED <<dia_vars, format_vars, call_vars, transcripts, left_context, response, status>>

\* A mark is read that does not exist, or the last character of an empty word.
PunctuateBreaks ==
  /\ stage = "punctuate" /\ Punctuating
  /\ ~TokensToIdsThrows(Pieces)
  /\ \/ MarksRunOut(Texts1, WordMarks(Pieces, Pieces))
     \/ ContextBreaks(left_context)
  /\ stage' = "crashed"
  /\ UNCHANGED <<dia_vars, format_vars, call_vars, out_vars>>

\* Seeded fault: the context is what was punctuated first.
NextContextKeepsOld(spelled) == IF left_context = <<>> THEN spelled ELSE left_context

NextContext(spelled) == IF spelled = <<>> THEN left_context ELSE spelled

PunctuateWords ==
  /\ stage = "punctuate" /\ Punctuating
  /\ ~TokensToIdsThrows(Pieces) /\ ~ContextBreaks(left_context)
  /\ Texts1 = <<>> => left_context # <<>> /\ ~EndsSentence(left_context)
  /\ \E ids \in [DOMAIN Pieces -> Ids] :
       LET marks == WordMarks(Pieces, ids)
           punctuated == Punctuate(Texts1, marks)
           spelled == IF left_context = <<>> \/ EndsSentence(left_context)
                        THEN CapitalizeFirst(punctuated) ELSE punctuated
       IN /\ ~MarksRunOut(Texts1, marks)
          /\ FirstTranscript(spelled)
          /\ left_context' = NextContext(spelled)
  /\ stage' = "others"
  /\ UNCHANGED <<dia_vars, format_vars, call_vars, best_aligned, result, response, status>>

\* The other paths are neither formatted nor punctuated.  GetResults() gives up at one
\* that is not linear, and keeps the transcripts it has.
OtherTranscripts ==
  /\ stage = "others"
  /\ \E n \in 0 .. n_paths - 1 : transcripts' = transcripts \o [i \in 1 .. n |-> <<>>]
  /\ UNCHANGED best_aligned
  /\ GetResultsReturns("result")
  /\ UNCHANGED <<dia_vars, format_vars, call_vars, left_context, response, status>>
-------------------------------------------------------------------------------
\* Recognize: the response

\* Seeded fault: seconds are left out on the way back.
ToMillisNanos(d) == d.nanos \div 1000000

\* Convert(): milliseconds as a protobuf Duration, and TagSpeaker's way back.
ToDuration(ms) == [seconds |-> ms \div 1000, nanos |-> (ms % 1000) * 1000000]
ToMillis(d) == d.seconds * 1000 + d.nanos \div 1000000

\* TagSpeaker(): the first segment that has the start of the word; 0 is no tag.
SegmentsAt(ms) ==
  {i \in DOMAIN diarization_decisions :
     /\ ms >= diarization_decisions[i].start_frame * DiaFrameShift
     /\ ms < diarization_decisions[i].end_frame * DiaFrameShift}
SpeakerAt(ms) ==
  IF SegmentsAt(ms) = {} THEN 0
  ELSE diarization_decisions[CHOOSE i \in SegmentsAt(ms) : \A j \in SegmentsAt(ms) : i <= j].spk_id

\* The infinities of a word without a time are converted to integers of 64 bits, to -2^63
\* on x86 and to 2^63 - 1 on ARM: that leaves 0 or -1 in the 32 bits of TagSpeaker().
UntimedMillis == {0, -1}
MillisOf(value, untimed) == IF value \in {-Inf, Inf} THEN untimed ELSE value

WordInfo(ali, spelled, untimed) ==
  LET start_time == ToDuration(MillisOf(ali.weight.start, untimed))
  IN [word |-> spelled, start_time |-> start_time,
      end_time |-> ToDuration(MillisOf(ali.weight.end, untimed)),
      speaker_tag |-> IF call.diarizer THEN SpeakerAt(ToMillis(start_time)) ELSE 0]

\* Without a transcript the RPC fails, and without words if their times are asked for.
Respond ==
  /\ stage = "respond"
  /\ IF result.kind = "result" /\ (call.word_time_offsets => best_aligned # <<>>)
       THEN /\ status' = "OK"
            /\ \E untimed \in UntimedMillis :
                 response' = IF call.word_time_offsets
                               THEN [i \in DOMAIN best_aligned |->
                                       WordInfo(best_aligned[i], transcripts[1][i], untimed)]
                               ELSE <<>>
       ELSE status' = "INTERNAL" /\ UNCHANGED response
  /\ stage' = "done"
  /\ UNCHANGED <<dia_vars, format_vars, call_vars, best_aligned, transcripts, left_context,
                 result>>

Step ==
  \/ RunDiarizer \/ Diarized \/ FindPaths \/ RunFormatter \/ FormatWords \/ FormatFails
  \/ NotPunctuated \/ PunctuateThrows \/ PunctuateBreaks \/ PunctuateWords
  \/ OtherTranscripts \/ Respond

Stopped == stage \in {"done", "crashed"} \/ dia = "crashed"
Finished == Stopped /\ UNCHANGED vars

Next == Step \/ Finished

Spec == Init /\ [][Next]_vars
FairSpec == Spec /\ WF_vars(Step)
-------------------------------------------------------------------------------
\* Properties

TypeOK ==
  /\ DiaType /\ FormatType
  /\ call \in Calls
  /\ stage \in {"diarize", "paths", "format", "punctuate", "others", "respond", "done",
                "crashed"}
  /\ status \in {"none", "OK", "INTERNAL"}
  /\ n_paths \in Nat
  /\ \A i \in DOMAIN best_aligned : best_aligned[i].weight \in Weights
  /\ \A i \in DOMAIN response : response[i].speaker_tag \in Nat

\* Where the words are punctuated each has the mark of its own first piece, but for
\* words that the rewriting has emptied or that are spelled like the inside of one, and
\* the pieces are the words (Punctuate, Tokenize, Merge).
PunctuationFitsWords ==
  stage = "punctuate" => MarksMatch(Texts1, WordMarks(Pieces, Pieces)) /\ PiecesMerge(Texts1)

\* What GetResults() does is what the RPC modules take it to do: one of the outcomes of
\* the abstract Recognizer, for the model's parts and the context it was called with.
Abstract == INSTANCE Recognizer WITH HasPunctuator <- call.punctuator,
                                     HasFormatter <- call.formatter
Recognized ==
  Abstract!NewRecognizer(1, {}, IF call.left_context = <<>> THEN Abstract!NoContext ELSE 0)
AbstractContext ==
  IF left_context = <<>> THEN Abstract!NoContext
  ELSE IF Punctuating /\ best_aligned # <<>> /\ left_context = transcripts[1] THEN 1 ELSE 0
Seen ==
  CASE result.kind = "result" ->
         [kind |-> "result", words |-> result.words, opens |-> result.opens,
          left_context |-> AbstractContext]
    [] OTHER -> Abstract!Failure(Recognized, result.kind)
ResultsAreAbstractResults ==
  stage \in {"respond", "done"} => Seen \in Abstract!GetResults(Recognized, TRUE, call.punctuate)

\* A word has the speaker of the segment in which the first recognized word that it is
\* rewritten from begins, and there is only one such segment: neither the rewriting nor
\* the conversions of the times move a word to another speaker, but that a word whose time
\* comes out a millisecond short can be tagged with what is before its first frame
\* (TagSpeaker, Convert, FramesToMillis).
TagsFollowTheAudio ==
  call.diarizer /\ stage = "done" =>
    \A i \in DOMAIN response :
      (call.formatter => BeforeMissed(i)) =>
        LET begin == Millis(first_frames[IF call.formatter THEN FirstOf(i) ELSE i])
            segments(ms) == {s \in DOMAIN diarization_decisions :
                               /\ diarization_decisions[s].start_frame * DiaFrameShift <= ms
                               /\ ms < diarization_decisions[s].end_frame * DiaFrameShift}
        IN \E ms \in {begin - 1, begin} :
             IF segments(ms) = {}
               THEN response[i].speaker_tag = 0
               ELSE \E s \in segments(ms) :
                      /\ segments(ms) = {s}
                      /\ response[i].speaker_tag = diarization_decisions[s].spk_id

\* The call comes to an end: adding silence stops when there is no more room for it.
TranscriptReturns == <>Stopped
===============================================================================
