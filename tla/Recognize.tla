------------------------------- MODULE Recognize -------------------------------
(***************************************************************************)
(* One unary Recognize RPC (SpeechService::Recognize in                    *)
(* src/api/services.cc): validation, the audio source, the loop that feeds *)
(* chunks to the Recognizer, and to the diarizer if one is asked for, and  *)
(* the response.  The call runs in one server thread and the client only   *)
(* waits, so what can happen to it is in the audio: a source that throws,  *)
(* ends early, or has chunks of awkward sizes.                             *)
(***************************************************************************)
EXTENDS AudioSource, Recognizer

CONSTANTS
  Requests     \* requests a client sends; "diarize" if the model can, too

ASSUME RequestAssumption ==
  /\ \A q \in Requests :
       /\ q.valid \in BOOLEAN /\ q.audio \in {"linear16", "coded", "uri"}
       /\ q.diarize \in BOOLEAN
       /\ q.punctuation \in BOOLEAN /\ q.word_time_offsets \in BOOLEAN

VARIABLES
  request, pc, status,
  utt_recognizer,
  decoded,     \* history: samples given to utt_recognizer.Decode()
  diarized     \* history: samples given to diarizer.AcceptWaveform()

vars == <<source_vars, request, pc, status, utt_recognizer, decoded, diarized>>
call_vars == <<request, utt_recognizer, decoded, diarized>>

Init ==
  /\ SourceInit
  /\ request \in Requests
  /\ pc = "validate" /\ status = "none"
  /\ utt_recognizer = NewRecognizer(0, InitialAdaptation, NoContext)
  /\ decoded = 0 /\ diarized = 0

Uri == request.audio = "uri"
Return(s) == status' = s /\ pc' = "done"
-------------------------------------------------------------------------------
\* The errors that Validate() has found, if any.
ErrorVecToStatus(valid) == IF valid THEN "OK" ELSE "INVALID_ARGUMENT"

ValidateRequest ==
  /\ pc = "validate"
  /\ IF ErrorVecToStatus(request.valid) = "OK"
       THEN pc' = "construct" /\ UNCHANGED status
       ELSE Return(ErrorVecToStatus(request.valid))
  /\ UNCHANGED <<source_vars, call_vars>>

\* The constructors.  Content is decoded at once.  An AvLibraryError is rethrown as
\* AudioSourceError, any other error is not.
Construct ==
  /\ pc = "construct"
  /\ \/ /\ Uri
        /\ pc' = "open" /\ UNCHANGED <<source_vars, status>>
     \/ /\ request.audio = "linear16"
        /\ \E n \in ContentDims : LoadContent(n)
        /\ pc' = "open" /\ UNCHANGED status
     \/ /\ request.audio = "coded"
        /\ \/ /\ \E n \in ContentDims \ {0} : LoadContent(n)
              /\ pc' = "open" /\ UNCHANGED status
           \/ \E s \in {"INVALID_ARGUMENT", "INTERNAL"} : Return(s) /\ UNCHANGED source_vars
           \/ LoadNoFrame /\ pc' = "crashed" /\ UNCHANGED status
  /\ UNCHANGED call_vars

\* Open() does nothing for content.  It throws AudioSourceError.
Open ==
  /\ pc = "open"
  /\ IF Uri THEN OpenUri ELSE UNCHANGED source_vars
  /\ IF at' = "thrown" THEN Return("INVALID_ARGUMENT") ELSE pc' = "more" /\ UNCHANGED status
  /\ UNCHANGED call_vars

HasMore == IF Uri THEN HasMoreChunks ELSE ContentHasMoreChunks

\* The loop over chunks: HasMoreChunks(), then NextChunk().
NextChunk ==
  /\ pc = "more" /\ HasMore
  /\ IF Uri THEN StartNextChunk /\ pc' = "next" ELSE ContentNextChunk /\ pc' = "decode"
  /\ UNCHANGED <<call_vars, status>>

\* NextChunk() runs; what it throws is not an AudioSourceError any more.
RunSource ==
  /\ pc = "next"
  /\ Decoding \/ ReadAgain
  /\ \/ at' = "thrown" /\ Return("INTERNAL")
     \/ at' = "idle" /\ pc' = "decode" /\ UNCHANGED status
     \/ at' = "crashed" /\ pc' = "crashed" /\ UNCHANGED status
     \/ at' \notin {"thrown", "idle", "crashed"} /\ UNCHANGED <<pc, status>>
  /\ UNCHANGED call_vars

\* Seeded fault: a short chunk is taken for the last.
DecodeChunkShortIsLast ==
  /\ pc = "decode"
  /\ \E r \in Decode(utt_recognizer, chunk < ContentChunk) : utt_recognizer' = r
  /\ decoded' = decoded + chunk
  /\ diarized' = IF request.diarize THEN diarized + chunk ELSE diarized
  /\ pc' = "more"
  /\ UNCHANGED <<source_vars, request, status>>

\* Both branches of the loop; an empty chunk is skipped.  The diarizer throws when it
\* would have to resample and is not configured to.
DecodeChunk ==
  /\ pc = "decode"
  /\ IF chunk > 0
       THEN /\ \E r \in Decode(utt_recognizer, ~HasMore) : utt_recognizer' = r
            /\ decoded' = decoded + chunk
            /\ diarized' = IF request.diarize THEN diarized + chunk ELSE diarized
       ELSE UNCHANGED <<utt_recognizer, decoded, diarized>>
  /\ \/ chunk > 0 /\ request.diarize /\ Return("INTERNAL")
     \/ pc' = "more" /\ UNCHANGED status
  /\ UNCHANGED <<source_vars, request>>

\* The end of the loop; diarization, which may throw, and Finalize().
Finalize ==
  /\ pc = "more" /\ ~HasMore
  /\ \/ request.diarize /\ Return("INTERNAL")
     \/ pc' = "results" /\ UNCHANGED status
  /\ UNCHANGED <<source_vars, call_vars>>

\* No transcript, or no words when their times are asked for, is an error.
Respond ==
  /\ pc = "results"
  /\ \E o \in GetResults(utt_recognizer, TRUE, request.punctuation) :
       Return(IF o.kind = "result" /\ (request.word_time_offsets => o.words)
                THEN "OK" ELSE "INTERNAL")
  /\ UNCHANGED <<source_vars, call_vars>>

Finished == pc \in {"done", "crashed"} /\ UNCHANGED vars

Step == \/ ValidateRequest \/ Construct \/ Open \/ NextChunk \/ RunSource \/ DecodeChunk
        \/ Finalize \/ Respond

Next == Step \/ Finished

Spec == Init /\ [][Next]_vars

\* The thread runs, and av_read_frame() does not answer EAGAIN for ever: of the calls
\* made of it some return a packet, the end or an error.
Answer == at = "read" /\ RunSource /\ (at' # "check" \/ packets' # packets)
FairSpec == Spec /\ WF_vars(Step) /\ SF_vars(Answer)
-------------------------------------------------------------------------------
\* Properties

Statuses == {"none", "OK", "INVALID_ARGUMENT", "INTERNAL"}

TypeOK ==
  /\ SourceType
  /\ request \in Requests /\ status \in Statuses
  /\ pc \in {"validate", "construct", "open", "more", "next", "decode", "results", "done",
             "crashed"}
  /\ utt_recognizer \in RecognizerType
  /\ decoded \in Nat /\ diarized \in Nat

\* When the loop ends the recognizer has heard every sample of the audio, once, and the
\* diarizer the same samples (Recognize, NextChunk of both sources).
RecognizerHearsAll ==
  pc = "results" =>
    /\ decoded = (IF Uri THEN written \div 2 ELSE dim)
    /\ request.diarize => diarized = decoded

\* The recognizer is never given audio after it was told that its input is finished,
\* and for content it is told, if there was any audio (flush).
FinishedOnlyAtTheEnd ==
  /\ utt_recognizer.finished => ~HasMore
  /\ pc = "results" /\ ~Uri /\ decoded > 0 => utt_recognizer.finished

\* The call returns, or the process has died (see ConverterIsInitialised).
RecognizeReturns == <>(status # "none" \/ pc = "crashed")
-------------------------------------------------------------------------------
\* What the repository says of the program and the code does otherwise

\* services.cc: Decode() is told to flush when there are no more chunks.  The last
\* chunk of a URI source is empty and is skipped, so it never is.
TailIsFlushed == pc = "results" /\ decoded > 0 => utt_recognizer.finished
===============================================================================
