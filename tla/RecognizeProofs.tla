---------------------------- MODULE RecognizeProofs ----------------------------
(***************************************************************************)
(* Proofs about Recognize and its audio sources, for every number of       *)
(* packets, frame, chunk and content size and every delay.                 *)
(*                                                                         *)
(* SourceInv says what StreamingUriAudioSource has at each place of        *)
(* NextChunk(); CallInv ties the place of the RPC to that of its source    *)
(* and counts the samples the recognizer has heard.                        *)
(***************************************************************************)
EXTENDS Recognize, TLAPS

InNextChunk == at \in {"read", "receive", "drain", "flush_converter", "check", "take"}

Codec ==
  /\ refused = 0
  /\ at \notin {"receive", "drain", "thrown"} => ready = 0
  /\ at \in {"drain", "flush_converter"} => delayed = 0
  /\ at \in {"read", "receive", "drain", "flush_converter", "check"} => ~no_more_to_decode
  /\ no_more_to_decode => ready = 0 /\ delayed = 0 /\ residual = 0

Buffer ==
  /\ written % 2 = 0 /\ taken % 2 = 0
  /\ no_more_chunks => no_more_to_decode /\ taken = written

SourceInv == SourceType /\ Codec /\ Buffer

Control ==
  /\ pc \in {"validate", "construct", "open"} => at = "closed" /\ n_seen = 0
  /\ Uri /\ pc \in {"more", "decode", "results"} => at = "idle"
  /\ ~Uri /\ pc # "crashed" => at = "closed"
  /\ pc = "next" => Uri /\ InNextChunk /\ ~no_more_chunks
  /\ pc = "decode" /\ ~Uri => chunk > 0
  /\ pc = "results" => ~HasMore

Pending == IF pc = "decode" THEN chunk ELSE 0
Heard ==
  /\ Uri => 2 * (decoded + Pending) = taken
  /\ ~Uri => decoded + Pending = Smaller(n_seen, dim)
  /\ request.diarize => diarized = decoded

Finishing ==
  /\ pc \in {"validate", "construct", "open"} => ~utt_recognizer.finished
  /\ utt_recognizer.finished => ~HasMore
  /\ ~Uri /\ pc \in {"more", "results"} /\ ~HasMore /\ decoded > 0 => utt_recognizer.finished

CallType ==
  /\ request \in Requests /\ status \in Statuses
  /\ pc \in {"validate", "construct", "open", "more", "next", "decode", "results", "done",
             "crashed"}
  /\ utt_recognizer \in RecognizerType
  /\ decoded \in Nat /\ diarized \in Nat

CallInv == CallType /\ Control /\ Heard /\ Finishing

IInv == SourceInv /\ CallInv
-------------------------------------------------------------------------------
\* The string stream

LEMMA SmallerNat ==
  ASSUME NEW a \in Nat, NEW b \in Nat
  PROVE  /\ Smaller(a, b) \in Nat /\ Smaller(a, b) <= a /\ Smaller(a, b) <= b
         /\ Smaller(a, b) = a \/ Smaller(a, b) = b
  BY DEF Smaller

\* in_avail() answers from the get area, or for all that was written.
LEMMA GetAreaBounds ==
  ASSUME SourceType
  PROVE  /\ GetArea \in taken .. written /\ visible <= GetArea
         /\ InAvail \in Nat /\ InAvail = GetArea - taken
         /\ InAvail = 0 => taken = written
  BY DEF SourceType, GetArea, InAvail

\* What is read is a number of whole samples, and nothing only if less than one is there.
LEMMA ReadsSamples ==
  ASSUME SourceType
  PROVE  /\ BytesToRead \in Nat /\ BytesToRead <= InAvail
         /\ BytesToRead % 2 = 0 /\ 2 * (BytesToRead \div 2) = BytesToRead
         /\ BytesToRead = 0 => InAvail \in {0, 1}
<1> DEFINE k == InAvail \div 2
<1>1. InAvail \in Nat
  BY GetAreaBounds
<1>2. k \in Nat /\ 2 * k <= InAvail /\ InAvail < 2 * k + 2
  BY <1>1
<1>3. MaxBuffer \in Nat /\ MaxBuffer > 0 /\ MaxBuffer % 2 = 0
  BY AudioAssumption
<1>4. 2 * k \in Nat /\ (2 * k) % 2 = 0
  BY <1>2
<1>5. BytesToRead = 2 * k \/ BytesToRead = MaxBuffer
  BY DEF BytesToRead, Smaller
<1>6. BytesToRead <= 2 * k
  BY <1>3, <1>4 DEF BytesToRead, Smaller
<1> HIDE DEF k
<1> QED
  BY <1>1, <1>2, <1>3, <1>4, <1>5, <1>6

LEMMA EvenSum ==
  ASSUME NEW a \in Nat, NEW b \in Nat, a % 2 = 0, b % 2 = 0
  PROVE  (a + b) % 2 = 0
  OBVIOUS

LEMMA Difference ==
  ASSUME NEW a \in Nat, NEW b \in Nat, NEW c \in Nat, c <= a + b
  PROVE  a + b - c \in Nat
  OBVIOUS

\* WriteSamples() keeps the stream even, and only adds to it.
LEMMA WritesSamples ==
  ASSUME SourceType, written % 2 = 0, NEW n \in Nat, WriteSamples(n)
  PROVE  /\ written' \in Nat /\ written' % 2 = 0 /\ written <= written'
         /\ visible' \in visible .. written'
<1>1. written' = written + 2 * n /\ written \in Nat /\ visible \in 0 .. written
  BY DEF WriteSamples, SourceType
<1>2. visible' = visible \/ visible' \in written + 1 .. written + 2 * n
  BY DEF WriteSamples
<1> QED
  BY <1>1, <1>2
-------------------------------------------------------------------------------
\* StreamingUriAudioSource

\* Every step of NextChunk() keeps the invariant of the source.
LEMMA DecodingStep ==
  ASSUME SourceInv, Decoding \/ ReadAgain
  PROVE  SourceInv'
<1> USE DEF codec_vars, converter_vars, stream_vars, flags, content_vars, uri_vars
<1>0. MaxDelay \in Nat /\ FrameSamples \in Nat /\ MaxPackets \in Nat
  BY AudioAssumption
<1>1. CASE ReadPacket
  <2>1. ready = 0
    BY <1>1 DEF ReadPacket, SourceInv, Codec
  <2>2. /\ packets' = packets - 1 /\ at' \in {"check", "receive"} /\ refused' = refused
        /\ ready' \in Nat /\ delayed' \in 0 .. MaxDelay /\ (at' = "check" => ready' = ready)
    BY <1>0, <1>1, <2>1 DEF ReadPacket, SourceInv, SourceType
  <2>3. ~no_more_to_decode /\ ~no_more_to_decode'
    BY <1>1 DEF ReadPacket, SourceInv, Codec
  <2>4. SourceType'
    BY <1>0, <1>1, <2>2 DEF ReadPacket, SourceInv, SourceType
  <2>5. Codec'
    BY <1>1, <2>1, <2>2, <2>3 DEF SourceInv, Codec
  <2>6. Buffer'
    BY <1>1 DEF ReadPacket, SourceInv, Buffer
  <2> QED
    BY <2>4, <2>5, <2>6 DEF SourceInv
<1>2. CASE ReadAgain
  BY <1>2 DEF ReadAgain, SourceInv, SourceType, Codec, Buffer
<1>3. CASE ReadEof
  BY <1>0, <1>3 DEF ReadEof, SourceInv, SourceType, Codec, Buffer
<1>4. CASE ReceiveFrame
  <2> DEFINE n == residual + FrameSamples - residual'
  <2>1. residual' \in 0 .. MaxDelay /\ n \in Nat /\ WriteSamples(n)
    <3>1. /\ residual' \in 0 .. MaxDelay /\ residual' <= residual + FrameSamples
          /\ residual \in 0 .. MaxDelay
      BY <1>4 DEF ReceiveFrame, ConvertFrame, SourceInv, SourceType
    <3>2. WriteSamples(n)
      BY <1>4 DEF ReceiveFrame, ConvertFrame
    <3>3. residual \in Nat /\ residual' \in Nat /\ FrameSamples \in Nat
      BY <1>0, <3>1
    <3>4. residual + FrameSamples - residual' \in Nat
      BY <3>1, <3>3, Difference
    <3> QED
      BY <3>1, <3>2, <3>4
  <2>2. /\ written' \in Nat /\ written' % 2 = 0 /\ written <= written'
        /\ visible' \in visible .. written'
    <3> HIDE DEF n
    <3> QED
      BY <2>1, WritesSamples DEF SourceInv, Buffer
  <2>3. ready' \in Nat
    BY <1>4 DEF ReceiveFrame, ConvertFrame, SourceInv, SourceType
  <2>4. ~no_more_to_decode /\ ~no_more_chunks
    BY <1>4 DEF ReceiveFrame, ConvertFrame, SourceInv, Codec, Buffer
  <2>5. SourceType'
    BY <1>4, <2>1, <2>2, <2>3 DEF ReceiveFrame, ConvertFrame, SourceInv, SourceType
  <2>6. Codec'
    BY <1>4, <2>4 DEF ReceiveFrame, ConvertFrame, SourceInv, Codec
  <2>7. Buffer'
    BY <1>4, <2>2, <2>4 DEF ReceiveFrame, ConvertFrame, SourceInv, Buffer
  <2> QED
    BY <2>5, <2>6, <2>7 DEF SourceInv
<1>5. CASE ReceiveNoMore
  BY <1>5 DEF ReceiveNoMore, SourceInv, SourceType, Codec, Buffer
<1>6. CASE FlushConverter
  <2>1. ~no_more_to_decode /\ ~no_more_chunks /\ ready = 0 /\ delayed = 0
    BY <1>6 DEF FlushConverter, SourceInv, Codec, Buffer
  <2>2. CASE residual > 0
    <3>1. PICK n \in 1 .. residual : residual' = residual - n /\ WriteSamples(n)
      BY <1>6, <2>2 DEF FlushConverter
    <3>2. /\ written' \in Nat /\ written' % 2 = 0 /\ written <= written'
          /\ visible' \in visible .. written'
      BY <3>1, WritesSamples DEF SourceInv, SourceType, Buffer
    <3>3. residual' \in 0 .. MaxDelay
      BY <1>0, <3>1 DEF SourceInv, SourceType
    <3>4. SourceType'
      BY <1>6, <2>2, <3>2, <3>3 DEF FlushConverter, SourceInv, SourceType
    <3>5. Codec' /\ Buffer'
      BY <1>6, <2>1, <2>2, <3>2 DEF FlushConverter, SourceInv, Codec, Buffer
    <3> QED
      BY <3>4, <3>5 DEF SourceInv
  <2>3. CASE ~(residual > 0)
    <3>1. residual = 0
      BY <1>0, <2>3 DEF SourceInv, SourceType
    <3> QED
      BY <1>6, <2>1, <2>3, <3>1 DEF FlushConverter, SourceInv, SourceType, Codec, Buffer
  <2> QED
    BY <2>2, <2>3
<1>7. CASE FlushUninitialised
  BY <1>7 DEF FlushUninitialised, SourceInv, SourceType, Codec, Buffer
<1>8. CASE LibavError
  BY <1>8 DEF LibavError, SourceInv, SourceType, Codec, Buffer
<1>9. CASE CheckBuffer
  <2>1. visible' \in 0 .. written /\ taken <= visible'
    BY <1>9, GetAreaBounds DEF CheckBuffer, SourceInv, SourceType
  <2>2. SourceType'
    BY <1>9, <2>1 DEF CheckBuffer, SourceInv, SourceType
  <2>3. Codec' /\ Buffer'
    BY <1>9 DEF CheckBuffer, SourceInv, Codec, Buffer
  <2> QED
    BY <2>2, <2>3 DEF SourceInv
<1>10. CASE TakeChunk
  <2>1. /\ visible' = GetArea /\ taken' = taken + BytesToRead /\ taken' \in Nat
        /\ visible' \in 0 .. written /\ taken' <= visible' /\ taken' % 2 = 0
    BY <1>10, GetAreaBounds, ReadsSamples DEF TakeChunk, SourceInv, SourceType, Buffer
  <2>2. chunk' \in Nat
    BY <1>10, ReadsSamples DEF TakeChunk, SourceInv
  <2>3. ~no_more_chunks
    BY <1>10, GetAreaBounds, ReadsSamples DEF TakeChunk, SourceInv, SourceType, Buffer
  <2>4. SourceType'
    BY <1>10, <2>1, <2>2 DEF TakeChunk, SourceInv, SourceType
  <2>5. Codec'
    BY <1>10 DEF TakeChunk, SourceInv, Codec
  <2>6. Buffer'
    BY <1>10, <2>1, <2>3 DEF TakeChunk, SourceInv, Buffer
  <2> QED
    BY <2>4, <2>5, <2>6 DEF SourceInv
<1>11. CASE TakeNothing
  <2>1. InAvail \in {0, 1}
    BY <1>11, ReadsSamples DEF TakeNothing, SourceInv
  <2>2. visible' \in 0 .. written /\ taken <= visible'
    BY <1>11, GetAreaBounds DEF TakeNothing, SourceInv, SourceType
  <2>3. no_more_chunks' \in BOOLEAN
    BY <1>11 DEF TakeNothing, SourceInv, SourceType
  <2>4. no_more_chunks' => no_more_to_decode /\ taken = written
    BY <1>11, <2>1, GetAreaBounds DEF TakeNothing, SourceInv, Buffer
  <2>5. SourceType'
    BY <1>11, <2>2, <2>3 DEF TakeNothing, SourceInv, SourceType
  <2>6. Codec'
    BY <1>11 DEF TakeNothing, SourceInv, Codec
  <2>7. Buffer'
    BY <1>11, <2>4 DEF TakeNothing, SourceInv, Buffer
  <2> QED
    BY <2>5, <2>6, <2>7 DEF SourceInv
<1> QED
  BY <1>1, <1>2, <1>3, <1>4, <1>5, <1>6, <1>7, <1>8, <1>9, <1>10, <1>11 DEF Decoding

\* What NextChunk() has done when it returns: it took the chunk it hands out; until then
\* it takes nothing, and more chunks are to be expected.
LEMMA SourceReturns ==
  ASSUME SourceInv, Decoding \/ ReadAgain, ~no_more_chunks
  PROVE  /\ at' \in {"idle", "thrown", "crashed"} \/ InNextChunk'
         /\ at' = "idle" => taken' = taken + 2 * chunk'
         /\ at' # "idle" => taken' = taken /\ ~no_more_chunks'
         /\ UNCHANGED content_vars
<1> USE DEF codec_vars, converter_vars, stream_vars, flags, content_vars, uri_vars, InNextChunk
<1>1. CASE ReadPacket \/ ReadAgain \/ ReadEof \/ ReceiveFrame \/ ReceiveNoMore
  BY <1>1 DEF ReadPacket, ReadAgain, ReadEof, ReceiveFrame, ConvertFrame, ReceiveNoMore, SourceInv, Codec
<1>2. CASE FlushConverter \/ FlushUninitialised \/ LibavError \/ CheckBuffer
  BY <1>2 DEF FlushConverter, FlushUninitialised, LibavError, CheckBuffer
<1>3. CASE TakeChunk
  <2>1. taken' = taken + BytesToRead /\ chunk' = BytesToRead \div 2 /\ at' = "idle"
        /\ UNCHANGED content_vars
    BY <1>3 DEF TakeChunk
  <2>2. 2 * (BytesToRead \div 2) = BytesToRead
    BY ReadsSamples DEF SourceInv
  <2> QED
    BY <2>1, <2>2
<1>4. CASE TakeNothing
  <2>1. taken' = taken /\ chunk' = 0 /\ at' = "idle" /\ UNCHANGED content_vars
    BY <1>4 DEF TakeNothing
  <2> QED
    BY <2>1 DEF SourceInv, SourceType
<1> QED
  BY <1>1, <1>2, <1>3, <1>4 DEF Decoding

\* The steps of the source outside NextChunk(), and those of content.
LEMMA OtherSourceSteps ==
  ASSUME SourceInv,
         OpenUri \/ StartNextChunk \/ (\E n \in ContentDims : LoadContent(n))
           \/ (at = "closed" /\ LoadNoFrame) \/ (n_seen < dim /\ ContentNextChunk)
           \/ UNCHANGED source_vars
  PROVE  SourceInv'
<1> USE DEF codec_vars, converter_vars, stream_vars, flags, content_vars, uri_vars, source_vars
<1>0. ContentChunk \in Nat \ {0} /\ ContentDims \subseteq Nat
  BY AudioAssumption
<1>1. CASE OpenUri \/ StartNextChunk \/ (at = "closed" /\ LoadNoFrame)
  BY <1>1 DEF OpenUri, UrlIoContextThrows, OpenDecoder, StartNextChunk, LoadNoFrame, SourceInv, SourceType, Codec, Buffer
<1>2. CASE \E n \in ContentDims : LoadContent(n)
  BY <1>0, <1>2 DEF LoadContent, SourceInv, SourceType, Codec, Buffer
<1>3. CASE n_seen < dim /\ ContentNextChunk
  <2>1. chunk' \in Nat /\ n_seen' \in Nat
    BY <1>0, <1>3 DEF ContentNextChunk, Smaller, SourceInv, SourceType
  <2> QED
    BY <1>3, <2>1 DEF ContentNextChunk, SourceInv, SourceType, Codec, Buffer
<1>4. CASE UNCHANGED source_vars
  BY <1>4 DEF SourceInv, SourceType, Codec, Buffer
<1> QED
  BY <1>1, <1>2, <1>3, <1>4
-------------------------------------------------------------------------------
\* The RPC

LEMMA DecodeFinishes ==
  ASSUME NEW r \in RecognizerType, NEW flush \in BOOLEAN, NEW s \in Decode(r, flush)
  PROVE  s \in RecognizerType /\ (s.finished <=> r.finished \/ flush)
<1> DEFINE f == r.finished \/ flush
           p == r.pipeline \cup {r.id}
<1>1. f \in BOOLEAN /\ p \in SUBSET Int
  BY DEF RecognizerType
<1>2. PICK d \in {r.decoded, TRUE} :
        s = [r EXCEPT !.decoded = d, !.finished = f, !.pipeline = p]
  BY DEF Decode
<1>3. d \in BOOLEAN
  BY DEF RecognizerType
<1> HIDE DEF f, p
<1>4. s \in RecognizerType /\ s.finished = f
  BY <1>1, <1>2, <1>3 DEF RecognizerType
<1> QED
  BY <1>4 DEF f

LEMMA RequestType ==
  ASSUME CallType
  PROVE  /\ request.valid \in BOOLEAN /\ request.audio \in {"linear16", "coded", "uri"}
         /\ request.diarize \in BOOLEAN /\ request.punctuation \in BOOLEAN
  BY RequestAssumption DEF CallType

LEMMA InitHolds ==
  ASSUME Init
  PROVE  IInv
<1>1. SourceInv
  <2>1. SourceType
    <3>1. 0 \in 0 .. MaxDelay /\ 0 \in 0 .. 0
      BY AudioAssumption
    <3> QED
      BY <3>1 DEF Init, SourceInit, SourceType
  <2>2. Codec
    BY DEF Init, SourceInit, Codec
  <2>3. Buffer
    BY DEF Init, SourceInit, Buffer
  <2> QED
    BY <2>1, <2>2, <2>3 DEF SourceInv
<1>2. utt_recognizer \in RecognizerType /\ ~utt_recognizer.finished
  <2>1. 0 \in Nat /\ InitialAdaptation \in SUBSET Int /\ NoContext \in Nat \cup {NoContext}
    BY DEF InitialAdaptation, InitialIvector
  <2>2. utt_recognizer \in RecognizerType
    BY <2>1 DEF Init, NewRecognizer, RecognizerType
  <2>3. ~utt_recognizer.finished
    BY DEF Init, NewRecognizer
  <2> QED
    BY <2>2, <2>3
<1>3. CallType
  BY <1>2 DEF Init, CallType, Statuses
<1>4. Control /\ Heard /\ Finishing
  BY <1>2 DEF Init, SourceInit, Control, Heard, Pending, Smaller, Finishing
<1> QED
  BY <1>1, <1>3, <1>4 DEF IInv, CallInv

\* Steps that leave the source and the counters alone and end no chunk.
LEMMA QuietStep ==
  ASSUME IInv, UNCHANGED <<source_vars, call_vars>>,
         status' \in Statuses,
         \/ pc = "validate" /\ pc' = "construct"
         \/ pc = "construct" /\ Uri /\ pc' = "open"
         \/ pc = "open" /\ ~Uri /\ pc' = "more"
         \/ pc = "more" /\ ~HasMore /\ pc' = "results"
         \/ pc \in {"validate", "construct", "more", "results"} /\ pc' = "done"
         \/ pc' = pc
  PROVE  IInv'
<1> USE DEF source_vars, codec_vars, converter_vars, stream_vars, flags, content_vars, uri_vars,
            call_vars
<1>1. SourceInv'
  BY OtherSourceSteps DEF IInv
<1>2. CallType'
  BY DEF IInv, CallInv, CallType
<1>3. Uri' = Uri /\ HasMore' = HasMore /\ InNextChunk' = InNextChunk
  BY DEF Uri, HasMore, HasMoreChunks, ContentHasMoreChunks, InNextChunk
<1>4. Control'
  BY <1>3 DEF IInv, CallInv, CallType, Control
<1>5. Heard'
  BY <1>3 DEF IInv, CallInv, Heard, Pending
<1>6. Finishing'
  <2>1. pc = "open" /\ ~Uri => decoded = 0
    BY DEF IInv, CallInv, Control, Heard, Pending, Smaller, SourceInv, SourceType, CallType
  <2> QED
    BY <1>3, <2>1 DEF IInv, CallInv, Finishing, HasMore
<1> QED
  BY <1>1, <1>2, <1>4, <1>5, <1>6 DEF IInv, CallInv

LEMMA ValidateRequestStep ==
  ASSUME IInv, ValidateRequest
  PROVE  IInv'
<1>1. CASE request.valid
  BY <1>1, QuietStep DEF ValidateRequest, ErrorVecToStatus, IInv, CallInv, CallType
<1>2. CASE ~request.valid
  BY <1>2, QuietStep DEF ValidateRequest, ErrorVecToStatus, Return, Statuses
<1> QED
  BY <1>1, <1>2

LEMMA ConstructStep ==
  ASSUME IInv, Construct
  PROVE  IInv'
<1> USE DEF source_vars, codec_vars, converter_vars, stream_vars, flags, content_vars, uri_vars,
            call_vars
<1>0. /\ pc = "construct" /\ at = "closed" /\ n_seen = 0
      /\ UNCHANGED <<request, utt_recognizer, decoded, diarized>>
      /\ ~utt_recognizer.finished
  BY DEF Construct, IInv, CallInv, Control, Finishing
<1>1. CASE Uri /\ pc' = "open" /\ UNCHANGED <<source_vars, status>>
  BY <1>0, <1>1, QuietStep DEF IInv, CallInv, CallType
<1>2. CASE /\ ~Uri /\ pc' = "open" /\ UNCHANGED status
           /\ \E n \in ContentDims : LoadContent(n)
  <2>1. SourceInv'
    BY <1>2, OtherSourceSteps DEF IInv
  <2>2. at' = at /\ n_seen' = n_seen
    BY <1>2 DEF LoadContent
  <2>3. CallType'
    BY <1>0, <1>2 DEF IInv, CallInv, CallType
  <2>4. ~Uri'
    BY <1>0, <1>2 DEF Uri
  <2>5. Control'
    BY <1>0, <1>2, <2>2, <2>4 DEF Control
  <2>6. Heard'
    BY <1>0, <1>2, <2>1, <2>2, <2>4
       DEF IInv, CallInv, CallType, Heard, Pending, Smaller, SourceInv, SourceType
  <2>7. Finishing'
    BY <1>0, <1>2 DEF Finishing
  <2> QED
    BY <2>1, <2>3, <2>5, <2>6, <2>7 DEF IInv, CallInv
<1>3. CASE (\E s \in {"INVALID_ARGUMENT", "INTERNAL"} : Return(s)) /\ UNCHANGED source_vars
  BY <1>0, <1>3, QuietStep DEF Return, Statuses
<1>4. CASE ~Uri /\ LoadNoFrame /\ pc' = "crashed" /\ UNCHANGED status
  <2>1. SourceInv'
    BY <1>0, <1>4, OtherSourceSteps DEF IInv
  <2>2. CallType'
    BY <1>0, <1>4 DEF IInv, CallInv, CallType
  <2>3. ~Uri' /\ Control'
    BY <1>0, <1>4 DEF Control, Uri
  <2>4. Heard' /\ Finishing'
    BY <1>0, <1>4, <2>3 DEF LoadNoFrame, IInv, CallInv, Heard, Pending, Finishing
  <2> QED
    BY <2>1, <2>2, <2>3, <2>4 DEF IInv, CallInv
<1> QED
  BY <1>1, <1>2, <1>3, <1>4 DEF Construct, Uri

LEMMA OpenStep ==
  ASSUME IInv, Open
  PROVE  IInv'
<1> USE DEF source_vars, codec_vars, converter_vars, stream_vars, flags, content_vars, uri_vars,
            call_vars
<1>0. pc = "open" /\ at = "closed" /\ n_seen = 0 /\ ~utt_recognizer.finished
      /\ UNCHANGED <<request, utt_recognizer, decoded, diarized>>
  BY DEF Open, IInv, CallInv, Control, Finishing
<1>1. CASE ~Uri
  BY <1>0, <1>1, QuietStep DEF Open, IInv, CallInv, CallType
<1>2. CASE Uri
  <2>1. OpenUri
    BY <1>2 DEF Open
  <2>2. SourceInv'
    BY <2>1, OtherSourceSteps DEF IInv
  <2>3. \/ at' = "idle" /\ pc' = "more" /\ status' = status
        \/ at' = "thrown" /\ pc' = "done" /\ status' = "INVALID_ARGUMENT"
    BY <2>1 DEF Open, OpenUri, UrlIoContextThrows, OpenDecoder, Return
  <2>4. CallType'
    BY <1>0, <2>3 DEF IInv, CallInv, CallType, Statuses
  <2>5. Uri'
    BY <1>0, <1>2 DEF Uri
  <2>6. Control' /\ Finishing'
    BY <1>0, <2>3, <2>5 DEF Control, Finishing
  <2>7. Heard'
    BY <1>0, <1>2, <2>1, <2>3, <2>5 DEF OpenUri, UrlIoContextThrows, OpenDecoder, IInv, CallInv, Heard, Pending
  <2> QED
    BY <2>2, <2>4, <2>6, <2>7 DEF IInv, CallInv
<1> QED
  BY <1>1, <1>2

LEMMA NextChunkStep ==
  ASSUME IInv, NextChunk
  PROVE  IInv'
<1> USE DEF source_vars, codec_vars, converter_vars, stream_vars, flags, content_vars, uri_vars,
            call_vars
<1>0. /\ pc = "more" /\ HasMore /\ ~utt_recognizer.finished
      /\ UNCHANGED <<request, utt_recognizer, decoded, diarized, status>>
  BY DEF NextChunk, IInv, CallInv, Finishing
<1>1. CASE Uri
  <2>1. StartNextChunk /\ pc' = "next"
    BY <1>1 DEF NextChunk
  <2>2. SourceInv'
    BY <2>1, OtherSourceSteps DEF IInv
  <2>3. Uri' /\ InNextChunk' /\ ~no_more_chunks'
    BY <1>0, <1>1, <2>1 DEF Uri, HasMore, HasMoreChunks, StartNextChunk, InNextChunk
  <2>4. CallType'
    BY <1>0, <2>1 DEF IInv, CallInv, CallType
  <2>5. Control' /\ Finishing'
    BY <1>0, <2>1, <2>3 DEF Control, Finishing
  <2>6. Heard'
    BY <1>0, <1>1, <2>1, <2>3 DEF StartNextChunk, IInv, CallInv, Heard, Pending
  <2> QED
    BY <2>2, <2>4, <2>5, <2>6 DEF IInv, CallInv
<1>2. CASE ~Uri
  <2>1. ContentNextChunk /\ pc' = "decode" /\ n_seen < dim
    BY <1>0, <1>2 DEF NextChunk, HasMore, ContentHasMoreChunks
  <2>2. SourceInv'
    BY <2>1, OtherSourceSteps DEF IInv
  <2>3. /\ n_seen \in Nat /\ dim \in Nat /\ ContentChunk \in Nat \ {0} /\ decoded \in Nat
        /\ decoded = n_seen
    BY <1>0, <1>2, <2>1, AudioAssumption
       DEF IInv, SourceInv, SourceType, CallInv, CallType, Heard, Pending, Smaller
  <2>4. /\ n_seen' = n_seen + ContentChunk /\ dim' = dim /\ at' = at
        /\ chunk' = Smaller(ContentChunk, dim - n_seen)
    BY <2>1 DEF ContentNextChunk
  <2>5. chunk' > 0 /\ decoded + chunk' = Smaller(n_seen', dim)
    BY <2>1, <2>3, <2>4 DEF Smaller
  <2>6. ~Uri'
    BY <1>0, <1>2 DEF Uri
  <2>7. CallType'
    BY <1>0, <2>1 DEF IInv, CallInv, CallType
  <2>8. Control' /\ Finishing'
    BY <1>0, <1>2, <2>1, <2>4, <2>5, <2>6 DEF IInv, CallInv, Control, Finishing
  <2>9. Heard'
    BY <1>0, <2>1, <2>4, <2>5, <2>6 DEF IInv, CallInv, Heard, Pending
  <2> QED
    BY <2>2, <2>7, <2>8, <2>9 DEF IInv, CallInv
<1> QED
  BY <1>1, <1>2

LEMMA RunSourceStep ==
  ASSUME IInv, RunSource
  PROVE  IInv'
<1> USE DEF content_vars, call_vars
<1>1. /\ pc = "next" /\ Uri /\ ~no_more_chunks /\ ~utt_recognizer.finished
      /\ UNCHANGED <<request, utt_recognizer, decoded, diarized>>
  BY DEF RunSource, IInv, CallInv, Control, Finishing, HasMore, HasMoreChunks
<1>2. SourceInv'
  BY DecodingStep DEF RunSource, IInv
<1>3. /\ at' \in {"idle", "thrown", "crashed"} \/ InNextChunk'
      /\ at' = "idle" => taken' = taken + 2 * chunk'
      /\ at' # "idle" => taken' = taken /\ ~no_more_chunks'
  BY <1>1, SourceReturns DEF RunSource, IInv
<1>4. Uri' /\ 2 * decoded = taken
  BY <1>1 DEF Uri, IInv, CallInv, Heard, Pending, CallType
<1>5. \/ at' = "thrown" /\ pc' = "done" /\ status' = "INTERNAL"
      \/ at' = "idle" /\ pc' = "decode" /\ status' = status
      \/ at' = "crashed" /\ pc' = "crashed" /\ status' = status
      \/ InNextChunk' /\ at' # "idle" /\ pc' = pc /\ status' = status
  BY <1>3 DEF RunSource, Return
<1>6. CallType'
  BY <1>1, <1>5 DEF IInv, CallInv, CallType, Statuses
<1>7. Control' /\ Finishing'
  BY <1>1, <1>3, <1>4, <1>5 DEF Control, Finishing
<1>8. Heard'
  <2>1. decoded \in Nat /\ chunk' \in Nat /\ taken \in Nat
    BY <1>2 DEF IInv, CallInv, CallType, SourceInv, SourceType
  <2>2. 2 * (decoded + Pending') = taken'
    BY <1>1, <1>3, <1>4, <1>5, <2>1 DEF Pending
  <2> QED
    BY <1>1, <1>4, <2>2 DEF IInv, CallInv, Heard
<1> QED
  BY <1>2, <1>6, <1>7, <1>8 DEF IInv, CallInv

LEMMA DecodeChunkStep ==
  ASSUME IInv, DecodeChunk
  PROVE  IInv'
<1> USE DEF source_vars, codec_vars, converter_vars, stream_vars, flags, content_vars, uri_vars
<1>1. pc = "decode" /\ UNCHANGED <<source_vars, request>>
  BY DEF DecodeChunk
<1>2. SourceInv'
  BY <1>1, OtherSourceSteps DEF IInv
<1>3. Uri' = Uri /\ HasMore' = HasMore
  BY <1>1 DEF Uri, HasMore, HasMoreChunks, ContentHasMoreChunks
<1>4. chunk \in Nat /\ decoded \in Nat /\ diarized \in Nat /\ HasMore \in BOOLEAN
  <2>1. chunk \in Nat /\ decoded \in Nat /\ diarized \in Nat /\ no_more_chunks \in BOOLEAN
    BY DEF IInv, CallInv, CallType, SourceInv, SourceType
  <2>2. HasMoreChunks \in BOOLEAN /\ ContentHasMoreChunks \in BOOLEAN
    BY <2>1 DEF HasMoreChunks, ContentHasMoreChunks
  <2>3. HasMore \in BOOLEAN
    BY <2>2 DEF HasMore
  <2> QED
    BY <2>1, <2>3
<1>5. /\ utt_recognizer' \in RecognizerType
      /\ utt_recognizer'.finished => utt_recognizer.finished \/ ~HasMore
      /\ chunk > 0 /\ ~HasMore => utt_recognizer'.finished
  BY <1>4, DecodeFinishes DEF DecodeChunk, IInv, CallInv, CallType
<1>6. /\ decoded' = decoded + chunk
      /\ request.diarize => diarized' = diarized + chunk
      /\ diarized' \in Nat
  BY <1>4 DEF DecodeChunk
<1>7. pc' \in {"more", "done"} /\ (status' = "INTERNAL" \/ status' = status)
  BY DEF DecodeChunk, Return
<1>8. CallType'
  BY <1>1, <1>4, <1>5, <1>6, <1>7 DEF IInv, CallInv, CallType, Statuses
<1>9. Control'
  BY <1>1, <1>3, <1>7 DEF IInv, CallInv, Control
<1>10. Heard'
  BY <1>1, <1>3, <1>4, <1>6, <1>7 DEF IInv, CallInv, Heard, Pending
<1>11. Finishing'
  BY <1>1, <1>3, <1>5, <1>7 DEF IInv, CallInv, Control, Finishing
<1> QED
  BY <1>2, <1>8, <1>9, <1>10, <1>11 DEF IInv, CallInv
-------------------------------------------------------------------------------
LEMMA InvariantStep ==
  ASSUME IInv, [Next]_vars
  PROVE  IInv'
<1>1. CASE ValidateRequest
  BY <1>1, ValidateRequestStep
<1>2. CASE Construct
  BY <1>2, ConstructStep
<1>3. CASE Open
  BY <1>3, OpenStep
<1>4. CASE NextChunk
  BY <1>4, NextChunkStep
<1>5. CASE RunSource
  BY <1>5, RunSourceStep
<1>6. CASE DecodeChunk
  BY <1>6, DecodeChunkStep
<1>7. CASE Finalize \/ Respond
  BY <1>7, QuietStep DEF Finalize, Respond, Return, Statuses, IInv, CallInv, CallType
<1>8. CASE Finished \/ UNCHANGED vars
  BY <1>8, QuietStep DEF Finished, vars, call_vars, IInv, CallInv, CallType
<1> QED
  BY <1>1, <1>2, <1>3, <1>4, <1>5, <1>6, <1>7, <1>8 DEF Next, Step

\* The inductive invariant: what the source holds at each place of NextChunk(), and what
\* the RPC has heard of it.
THEOREM RecognizeInvariance == Spec => []IInv
BY InitHolds, InvariantStep, PTL DEF Spec

\* Every variable of the RPC and its source keeps its type.
THEOREM RecognizeTypeCorrect == Spec => []TypeOK
<1>1. IInv => TypeOK
  BY DEF IInv, SourceInv, CallInv, CallType, TypeOK
<1> QED
  BY <1>1, RecognizeInvariance, PTL

\* However many bytes the get area of ss_ shows, no chunk is cut within a sample.
THEOREM ChunksStayAligned == Spec => []ChunksAreAligned
<1>1. IInv => ChunksAreAligned
  BY DEF IInv, SourceInv, Buffer, ChunksAreAligned
<1> QED
  BY <1>1, RecognizeInvariance, PTL

\* Whatever the codec holds back, it never has a frame to give when a packet is sent.
THEOREM PacketsAccepted == Spec => []NoPacketRefused
<1>1. IInv => NoPacketRefused
  BY DEF IInv, SourceInv, Codec, NoPacketRefused
<1> QED
  BY <1>1, RecognizeInvariance, PTL

\* When the URI source has no more chunks, codec, converter and ss_ are empty.
THEOREM HandsOutAllAudio == Spec => []AllAudioHandedOut
<1>1. IInv => AllAudioHandedOut
  BY DEF IInv, SourceInv, Codec, Buffer, AllAudioHandedOut
<1> QED
  BY <1>1, RecognizeInvariance, PTL

\* When the loop of Recognize ends, the recognizer, and the diarizer if there is one,
\* has heard every sample of the audio once.
THEOREM HearsAllAudio == Spec => []RecognizerHearsAll
<1>1. IInv => RecognizerHearsAll
  <2> SUFFICES ASSUME IInv, pc = "results"
               PROVE  /\ decoded = (IF Uri THEN written \div 2 ELSE dim)
                      /\ request.diarize => diarized = decoded
    BY DEF RecognizerHearsAll
  <2>1. decoded \in Nat /\ written \in Nat /\ n_seen \in Nat /\ dim \in Nat
    BY DEF IInv, SourceInv, SourceType, CallInv, CallType
  <2>2. CASE Uri
    <3>1. no_more_chunks
      BY <2>2 DEF IInv, CallInv, Control, HasMore, HasMoreChunks
    <3>2. 2 * (decoded + 0) = written
      BY <2>2, <3>1 DEF IInv, SourceInv, Buffer, CallInv, Heard, Pending
    <3> QED
      BY <2>1, <2>2, <3>2 DEF IInv, CallInv, Heard
  <2>3. CASE ~Uri
    <3>1. ~(n_seen < dim)
      BY <2>3 DEF IInv, CallInv, Control, HasMore, ContentHasMoreChunks
    <3>2. decoded + 0 = Smaller(n_seen, dim)
      BY <2>3 DEF IInv, CallInv, Heard, Pending
    <3> QED
      BY <2>1, <2>3, <3>1, <3>2 DEF Smaller, IInv, CallInv, Heard
  <2> QED
    BY <2>2, <2>3
<1> QED
  BY <1>1, RecognizeInvariance, PTL

\* The recognizer hears nothing after it was told that its input is finished, and of
\* content it is always told.
THEOREM FinishesAtTheEnd == Spec => []FinishedOnlyAtTheEnd
<1>1. IInv => FinishedOnlyAtTheEnd
  BY DEF IInv, CallInv, Control, Finishing, FinishedOnlyAtTheEnd
<1> QED
  BY <1>1, RecognizeInvariance, PTL
===============================================================================
