------------------------------ MODULE Recognizer ------------------------------
(***************************************************************************)
(* One Recognizer object (src/recognizer.{h,cc}): a Kaldi feature pipeline *)
(* and decoder plus the state that is handed from one object to the next,  *)
(* the i-vector adaptation state and the left context used when            *)
(* punctuating.  The module keeps no variables: a recognizer is a record   *)
(* held by the RPC that owns it, and each method is an operator giving the *)
(* set of its possible outcomes.  What the acoustic model makes of a       *)
(* waveform is outside the program and left open.                          *)
(*                                                                         *)
(* Words are not spelled out.  The words of a result are named by the      *)
(* number of the segment whose hypothesis they are, so a left context is   *)
(* a segment number or NoContext; an adaptation state is the set of the    *)
(* sources it has taken statistics from, segments or the i-vector file     *)
(* that initialises the model.                                             *)
(***************************************************************************)
EXTENDS Integers

CONSTANTS HasPunctuator,  \* the model was configured with a punctuator
          HasFormatter    \* the model was configured with a rewrite FST

ASSUME RecognizerAssumption == HasPunctuator \in BOOLEAN /\ HasFormatter \in BOOLEAN

NoContext == -1

\* What a model starts from: the state in its file, where one is configured, or none yet.
InitialIvector == -1
InitialAdaptation == {InitialIvector}

RecognizerType ==
  [id: Nat, decoded: BOOLEAN, finished: BOOLEAN, left_context: Nat \cup {NoContext},
   adaptation: SUBSET Int, pipeline: SUBSET Int]

\* The constructor stores the adaptation state, but builds the feature pipeline
\* from the model's feature_info alone: the pipeline starts without statistics.
NewRecognizer(id, adaptation, left) ==
  [id |-> id, decoded |-> FALSE, finished |-> FALSE, left_context |-> left,
   adaptation |-> adaptation, pipeline |-> {}]

\* Decode() feeds the pipeline and advances the decoder as far as the frames that
\* are ready allow, which can be nowhere: NumFramesDecoded() only ever grows.
Decode(r, flush) ==
  {[r EXCEPT !.decoded = d, !.finished = @ \/ flush, !.pipeline = @ \cup {r.id}]
     : d \in {r.decoded, TRUE}}

\* HasEndpoint() answers FALSE until a frame has been decoded.
HasEndpoint(r) == IF r.decoded THEN BOOLEAN ELSE {FALSE}

\* GetAdaptationState() overwrites the stored state with the pipeline's.
GetAdaptationState(r) == r.pipeline

Punctuates(punctuate) == punctuate /\ HasPunctuator

\* What GetResults() can do: throw, return FALSE (no path, or no word on it), or
\* return a transcript, with or without words: the formatter may map the words to
\* none.  The first word of a stream's first punctuated utterance is capitalised
\* ("opens"), and a wordless result cannot be: .at(0) throws, here and in
\* PunctuateWithContext when the context ended a sentence.
Outcome == [kind: {"throw", "none", "result"}, words: BOOLEAN, opens: BOOLEAN,
            left_context: Nat \cup {NoContext}]

Failure(r, kind) ==
  [kind |-> kind, words |-> FALSE, opens |-> FALSE, left_context |-> r.left_context]

\* Seeded fault: an interim result opens the stream too.
OpensEarly(r, end_of_utt, punctuate) ==
  Punctuates(punctuate) /\ r.left_context = NoContext

Opens(r, end_of_utt, punctuate) ==
  Punctuates(punctuate) /\ end_of_utt /\ r.left_context = NoContext

\* Seeded fault: a wordless result replaces the context.
TranscriptAnyContext(r, end_of_utt, punctuate, words) ==
  [kind |-> "result", words |-> words,
   opens |-> Opens(r, end_of_utt, punctuate),
   left_context |-> IF Punctuates(punctuate) /\ end_of_utt THEN r.id ELSE r.left_context]

Transcript(r, end_of_utt, punctuate, words) ==
  [kind |-> "result", words |-> words,
   opens |-> Opens(r, end_of_utt, punctuate),
   left_context |-> IF Punctuates(punctuate) /\ end_of_utt /\ words
                      THEN r.id ELSE r.left_context]

GetResults(r, end_of_utt, punctuate) ==
  {Failure(r, "throw"), Failure(r, "none"), Transcript(r, end_of_utt, punctuate, TRUE)}
    \cup (IF HasFormatter /\ ~Opens(r, end_of_utt, punctuate)
            THEN {Transcript(r, end_of_utt, punctuate, FALSE)} ELSE {})
===============================================================================
