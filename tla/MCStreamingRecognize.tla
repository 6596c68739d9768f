------------------------- MODULE MCStreamingRecognize -------------------------
(***************************************************************************)
(* StreamingRecognize with small inputs: 44.1 kHz audio in chunks of 25 ms,*)
(* which is 1102 samples and a byte, of one byte and of none.              *)
(***************************************************************************)
EXTENDS StreamingRecognize

MCChunkBytes == {0, 1, 2205}
MCSmallChunks == {2205}
MCConfigs == {[single_utterance |-> s, interim_results |-> i, punctuation |-> i]
               : s \in BOOLEAN, i \in BOOLEAN}
MCHypotheses == {0, 1}
===============================================================================
