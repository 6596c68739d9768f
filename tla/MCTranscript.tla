----------------------------- MODULE MCTranscript -----------------------------
(***************************************************************************)
(* Transcript with recordings of up to six frames and up to three words.  *)
(***************************************************************************)
EXTENDS Transcript

A == <<"a">>
MCSilence == <<[text |-> <<>>, length |-> 1]>>
MCTwoWords == <<[text |-> <<"a", "b">>, length |-> 6], [text |-> <<>>, length |-> 4],
                [text |-> A, length |-> 30]>>
MCThreeWords == <<[text |-> A, length |-> 6], [text |-> A, length |-> 34],
                  [text |-> <<"b">>, length |-> 10]>>
MCCall == [formatter |-> TRUE, punctuator |-> TRUE, diarizer |-> FALSE, diarize |-> FALSE,
           min_speaker_count |-> 0, max_alternatives |-> 1, punctuate |-> TRUE,
           word_time_offsets |-> TRUE, left_context |-> <<>>,
           best_paths |-> {MCSilence, MCTwoWords}]
MCWord(text, mark) == [text |-> text, capital |-> FALSE, mark |-> mark]

\* The unary call, with everything, without each part, and with the contexts of a stream.
MCCalls ==
  {[MCCall EXCEPT !.diarizer = TRUE, !.diarize = TRUE, !.punctuate = FALSE],
   [MCCall EXCEPT !.diarizer = TRUE, !.diarize = TRUE, !.min_speaker_count = 3,
                  !.formatter = FALSE, !.best_paths = {MCThreeWords}],
   [MCCall EXCEPT !.max_alternatives = 2, !.punctuator = FALSE, !.word_time_offsets = FALSE,
                  !.best_paths = {MCThreeWords}]}
  \cup {[MCCall EXCEPT !.left_context = c] :
          c \in {<<>>, <<MCWord(A, 0)>>, <<MCWord(A, 2)>>, <<MCWord(<<>>, 0)>>,
                 <<MCWord(<<"a", ".">>, 0)>>}}

\* 0.01f, the shift of the features of the tests.
MCFrameShiftInSeconds == Float(10737418, -30)

\* The durations of words in src/test/test-formatter.cc (line 205) are those of whole
\* frames, three of the features at a time.
ASSUME \A d \in {<<4, 120>>, <<5, 149>>, <<6, 180>>, <<8, 240>>, <<9, 269>>, <<10, 299>>,
                 <<11, 330>>, <<13, 390>>, <<18, 539>>, <<38, 1140>>} :
         FramesToMillis(d[1]) = d[2]

MCTexts == {<<>>, <<"a", "b">>, <<"#", "#", "b">>}
MCIds == {0, 2}
MCUnk == <<"?">>
MCVocab == {<<"a">>, <<"b">>, <<"#">>, <<"#", "#", "b">>, <<"?">>}
===============================================================================
