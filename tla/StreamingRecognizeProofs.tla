----------------------- MODULE StreamingRecognizeProofs -----------------------
(***************************************************************************)
(* Proofs about StreamingRecognize, for every sample rate, set of chunk    *)
(* sizes, set of configurations, bound and window.                         *)
(*                                                                         *)
(* IInv is the inductive invariant.  It says, for each place the server    *)
(* thread can be in, how far the responses have got (Progress), how the    *)
(* three clocks of RunStreamingProcessor relate to the audio read          *)
(* (Clocks), and which local variables can be relied upon (Control).       *)
(***************************************************************************)
EXTENDS StreamingRecognize, SequenceTheorems, TLAPS

InSegment == pc \in {"read", "decode", "interim", "write_interim", "finalize",
                     "write_final", "write_event", "advance"}
BeforeClosing == pc \in {"read", "decode", "interim", "write_interim", "finalize",
                         "write_final"}
Writing == pc \in {"write_interim", "write_final", "write_event"}

Control ==
  /\ pc = "done" <=> status # "none"
  /\ pc = "start" => config = BadConfig /\ written = <<>> /\ processed_time = 0
                     /\ heard = 0 /\ chunks = 0
  /\ pc \notin {"start", "done"} => config \in Configs
  /\ InSegment => recognizer.id = result_index
  /\ pc = "decode" => speech_started
  /\ pc = "interim" => config.interim_results
  /\ InSegment /\ recognizer.decoded => speech_started
  /\ pc \in {"interim", "write_interim", "write_final", "write_event"} => recognizer.decoded
  /\ Writing => /\ res \in Responses
                /\ res.seg = recognizer.id
                /\ res.offset = vad_offset + processed_time
                /\ res.start = mark.heard /\ res.chunks = mark.chunks
  /\ pc = "write_interim" => res.kind = "interim" /\ config.interim_results
  /\ pc = "write_final" => res.kind \in {"final", "empty"}
  /\ pc = "write_event" => res.kind = "event"

\* h samples in c messages were counted as t milliseconds.
Late(h, t, c) == 1000 * h - SampleRate * t \in 0 .. c * (SampleRate - 1)

Clocks ==
  /\ pc = "segment" => Late(heard, processed_time, chunks)
  /\ InSegment =>
       /\ Late(heard, processed_time + segment_time, chunks)
       /\ vad_offset <= segment_time
       /\ ~speech_started => vad_offset = segment_time
       /\ speech_started => Late(mark.heard, vad_offset + processed_time, mark.chunks)

LastResponse == written[Len(written)]
Settled(seg, time) ==
  \/ written = <<>>
  \/ /\ config.single_utterance
     /\ end_of_single_utterance /\ LastResponse.kind = "event"
  \/ /\ ~config.single_utterance
     /\ LastResponse.kind \in {"final", "empty"}
     /\ LastResponse.seg <= seg /\ LastResponse.offset <= time

Progress ==
  /\ pc = "segment" => Settled(result_index, processed_time)
  /\ pc = "advance" => Settled(result_index, processed_time + segment_time)
  /\ BeforeClosing =>
       /\ ~end_of_single_utterance
       /\ \/ Settled(result_index - 1, processed_time)
          \/ /\ written # <<>> /\ LastResponse.kind = "interim"
             /\ recognizer.decoded
             /\ LastResponse.seg = recognizer.id
             /\ LastResponse.offset = vad_offset + processed_time
  /\ pc = "write_event" =>
       /\ config.single_utterance /\ end_of_single_utterance
       /\ written # <<>> /\ LastResponse.kind \in {"final", "empty"}
       /\ LastResponse.seg = recognizer.id

IInv == TypeOK /\ Control /\ Clocks /\ OffsetsTrackAudio /\ Progress
-------------------------------------------------------------------------------
\* The recognizer: types, and what its methods leave alone

\* The constructor makes a recognizer, with nothing decoded.
LEMMA NewRecognizerType ==
  ASSUME NEW id \in Nat, NEW adaptation \in SUBSET Int, NEW left \in Nat \cup {NoContext}
  PROVE  /\ NewRecognizer(id, adaptation, left) \in RecognizerType
         /\ NewRecognizer(id, adaptation, left).id = id
         /\ ~NewRecognizer(id, adaptation, left).decoded
  BY DEF NewRecognizer, RecognizerType

\* Decode() keeps the identity and the left context, and never takes frames back.
LEMMA DecodeType ==
  ASSUME NEW r \in RecognizerType, NEW flush \in BOOLEAN, NEW s \in Decode(r, flush)
  PROVE  /\ s \in RecognizerType
         /\ s.id = r.id /\ s.left_context = r.left_context
         /\ r.decoded => s.decoded
<1> DEFINE f == r.finished \/ flush
           p == r.pipeline \cup {r.id}
<1>1. f \in BOOLEAN /\ p \in SUBSET Int
  BY DEF RecognizerType
<1>2. PICK d \in {r.decoded, TRUE} :
        s = [r EXCEPT !.decoded = d, !.finished = f, !.pipeline = p]
  BY DEF Decode
<1>3. d \in BOOLEAN
  BY DEF RecognizerType
<1> HIDE DEF f, p
<1> QED
  BY <1>1, <1>2, <1>3 DEF RecognizerType

\* Every outcome of GetResults() is typed; only an utterance's end moves the context.
LEMMA GetResultsType ==
  ASSUME NEW r \in RecognizerType, NEW end_of_utt \in BOOLEAN, NEW punctuate \in BOOLEAN,
         NEW o \in GetResults(r, end_of_utt, punctuate)
  PROVE  /\ o \in Outcome
         /\ o.kind \in {"throw", "none"} => o = Failure(r, o.kind)
         /\ o.kind = "result" =>
              \E words \in BOOLEAN : o = Transcript(r, end_of_utt, punctuate, words)
<1>1. CASE o = Failure(r, "throw")
  BY <1>1 DEF Failure, Outcome, RecognizerType
<1>2. CASE o = Failure(r, "none")
  BY <1>2 DEF Failure, Outcome, RecognizerType
<1>3. ASSUME NEW words \in BOOLEAN, o = Transcript(r, end_of_utt, punctuate, words)
      PROVE  o \in Outcome /\ o.kind = "result"
  BY <1>3 DEF Transcript, Outcome, RecognizerType, Opens, Punctuates
<1> QED
  BY <1>1, <1>2, <1>3 DEF GetResults, Failure
-------------------------------------------------------------------------------
\* ChunkTime() loses less than a millisecond, so each chunk adds at most
\* SampleRate - 1 to the lateness.

LEMMA ChunkTimeBounds ==
  ASSUME NEW n \in Nat
  PROVE  /\ ChunkTime(n) \in Nat
         /\ 1000 * n - SampleRate * ChunkTime(n) \in 0 .. SampleRate - 1
<1> DEFINE q == (1000 * n) \div SampleRate
<1>1. SampleRate \in Nat /\ SampleRate > 0
  BY RateAssumption
<1>2. q \in Int /\ SampleRate * q <= 1000 * n /\ 1000 * n < SampleRate * q + SampleRate
  BY <1>1
<1>3. q >= 0
  <2> SUFFICES ASSUME q <= -1 PROVE FALSE
    BY <1>2
  <2>1. SampleRate * q + SampleRate <= 0
    BY <1>1, <1>2
  <2> QED
    BY <2>1, <1>1, <1>2
<1> QED
  BY <1>1, <1>2, <1>3 DEF ChunkTime

LEMMA LateStep ==
  ASSUME NEW h \in Nat, NEW t \in Nat, NEW c \in Nat, NEW n \in Nat, Late(h, t, c)
  PROVE  Late(h + n, t + ChunkTime(n), c + 1)
<1> DEFINE d == 1000 * h - SampleRate * t
           e == 1000 * n - SampleRate * ChunkTime(n)
<1>1. SampleRate \in Nat /\ SampleRate > 0
  BY RateAssumption
<1>2. ChunkTime(n) \in Nat /\ e \in 0 .. SampleRate - 1
  BY ChunkTimeBounds
<1>3. d \in 0 .. c * (SampleRate - 1)
  BY DEF Late
<1>4. 1000 * (h + n) - SampleRate * (t + ChunkTime(n)) = d + e
  BY <1>1, <1>2
<1>5. (c + 1) * (SampleRate - 1) = c * (SampleRate - 1) + (SampleRate - 1)
  BY <1>1
<1>6. d + e \in 0 .. c * (SampleRate - 1) + (SampleRate - 1)
  <2> HIDE DEF d, e
  <2>1. c * (SampleRate - 1) \in Int
    BY <1>1
  <2> QED
    BY <1>1, <1>2, <1>3, <2>1
<1> QED
  BY <1>4, <1>5, <1>6 DEF Late

-------------------------------------------------------------------------------
\* Types

LEMMA InitType == Init => TypeOK
<1> SUFFICES ASSUME Init PROVE TypeOK
  OBVIOUS
<1>1. StreamType
  BY InputAssumption DEF Init, StreamType
<1>2. RpcType
  <2>1. {-1} \in SUBSET Int
    OBVIOUS
  <2> QED
    BY <2>1 DEF Init, RpcType, NoContext, InitialAdaptation, InitialIvector
<1>3. SegmentType
  BY InputAssumption, NewRecognizerType DEF Init, SegmentType, NoRecognizer, NoContext
<1>4. HistoryType
  BY DEF Init, HistoryType
<1> QED
  BY <1>1, <1>2, <1>3, <1>4 DEF Init, TypeOK, Statuses, Places

\* A request is read off the front; what is left is still a sequence of requests.
LEMMA TailType ==
  ASSUME StreamType, CanRead
  PROVE  Head(requests) \in Requests /\ Tail(requests) \in Seq(Requests)
  BY DEF StreamType, CanRead

\* A response is built from counters, so it is typed.
LEMMA ResponseType ==
  ASSUME TypeOK, NEW kind \in Kinds, NEW o, o.words \in BOOLEAN, o.opens \in BOOLEAN
  PROVE  Response(kind, o) \in Responses
<1>1. recognizer.id \in Nat /\ vad_offset + processed_time \in Nat
  BY DEF TypeOK, SegmentType, RpcType, RecognizerType
<1>2. mark.heard \in Nat /\ mark.chunks \in Nat
  BY DEF TypeOK, HistoryType
<1> QED
  BY <1>1, <1>2 DEF Response, Responses

LEMMA ResponseFields ==
  ASSUME NEW kind, NEW o
  PROVE  /\ Response(kind, o).kind = kind
         /\ Response(kind, o).seg = recognizer.id
         /\ Response(kind, o).offset = vad_offset + processed_time
         /\ Response(kind, o).start = mark.heard
         /\ Response(kind, o).chunks = mark.chunks
  BY DEF Response

LEMMA TypeStep == TypeOK /\ Control /\ [Next]_vars => TypeOK'
<1> SUFFICES ASSUME TypeOK, Control, [Next]_vars PROVE TypeOK'
  OBVIOUS
<1>1. CASE ConfigMissing
  BY <1>1 DEF ConfigMissing, Return, TypeOK, StreamType, RpcType, SegmentType, HistoryType,
              client_vars, rpc_vars, segment_vars, history, Statuses, Places
<1>2. CASE ReadConfig
  <2>1. requests' \in Seq(Requests)
    BY <1>2, TailType DEF ReadConfig, TypeOK
  <2>2. config' \in Configs \cup {BadConfig}
    <3>1. CASE ValidFirst(Head(requests))
      BY <1>2, <3>1, TailType
      DEF ReadConfig, ValidFirst, TypeOK, Requests, ConfigRequest, AudioRequest, EndRequest
    <3>2. CASE ~ValidFirst(Head(requests))
      BY <1>2, <3>2 DEF ReadConfig, TypeOK, RpcType
    <3> QED
      BY <3>1, <3>2
  <2>3. status' \in Statuses /\ pc' \in Places
    BY <1>2 DEF ReadConfig, Return, TypeOK, Statuses, Places
  <2>4. StreamType' /\ RpcType'
    BY <1>2, <2>1, <2>2 DEF ReadConfig, TypeOK, StreamType, RpcType, client_vars
  <2> QED
    BY <1>2, <2>3, <2>4 DEF ReadConfig, TypeOK, SegmentType, HistoryType, segment_vars, history
<1>3. CASE BeginSegment
  <2>1. result_index + 1 \in Nat
    BY DEF TypeOK, RpcType
  <2>2. SegmentType'
    BY <1>3, <2>1, NewRecognizerType, InputAssumption
    DEF BeginSegment, TypeOK, SegmentType, RpcType
  <2>3. StreamType' /\ RpcType'
    BY <1>3, <2>1 DEF BeginSegment, TypeOK, StreamType, RpcType, client_vars
  <2> QED
    BY <1>3, <2>2, <2>3 DEF BeginSegment, TypeOK, HistoryType, history, Places
<1>4. CASE ReturnOk
  BY <1>4 DEF ReturnOk, Return, TypeOK, StreamType, RpcType, SegmentType, HistoryType,
              client_vars, segment_vars, history, Statuses, Places
<1>5. CASE ReadAudio
  <2> DEFINE n == NSamples(Head(requests))
  <2>1. Head(requests) \in Requests /\ requests' \in Seq(Requests)
    BY <1>5, TailType DEF ReadAudio, TypeOK
  <2>2. n \in Nat
    <3>1. Head(requests).bytes \in Nat
      BY <1>5, <2>1, InputAssumption
      DEF ReadAudio, IsAudio, Requests, ConfigRequest, AudioRequest, EndRequest
    <3> QED
      BY <3>1 DEF NSamples
  <2>3. ChunkTime(n) \in Nat
    BY <2>2, ChunkTimeBounds
  <2> HIDE DEF n
  <2>4. PICK s \in IF speech_started THEN {TRUE} ELSE HasSpeech(n) :
          /\ speech_started' = s
          /\ mark' = IF s /\ ~speech_started THEN [heard |-> heard, chunks |-> chunks]
                                             ELSE mark
          /\ vad_offset' = IF s THEN vad_offset ELSE vad_offset + ChunkTime(n)
          /\ pc' = IF s THEN "decode" ELSE "read"
    BY <1>5 DEF ReadAudio, n
  <2>5. s \in BOOLEAN
    BY <2>4 DEF HasSpeech
  <2>6. segment_time' = segment_time + ChunkTime(n) /\ heard' = heard + n
        /\ chunks' = chunks + 1
    BY <1>5 DEF ReadAudio, n
  <2>7. SegmentType'
    BY <1>5, <2>3, <2>4, <2>5, <2>6 DEF ReadAudio, TypeOK, SegmentType
  <2>8. HistoryType'
    BY <2>2, <2>4, <2>5, <2>6 DEF TypeOK, HistoryType
  <2>9. StreamType' /\ RpcType'
    BY <1>5, <2>1 DEF ReadAudio, TypeOK, StreamType, RpcType, client_vars, rpc_vars
  <2>10. pc' \in Places /\ status' \in Statuses /\ res' \in Responses \cup {NoResponse}
    BY <1>5, <2>4 DEF ReadAudio, TypeOK, Places
  <2> QED
    BY <2>7, <2>8, <2>9, <2>10 DEF TypeOK
<1>6. CASE ReadNoMore
  <2>1. requests' \in Seq(Requests)
    BY <1>6, TailType DEF ReadNoMore, TypeOK, StreamType
  <2> QED
    BY <1>6, <2>1 DEF ReadNoMore, TypeOK, StreamType, RpcType, SegmentType, HistoryType,
                      client_vars, segment_vars, history, Places
<1>7. CASE DecodeChunk
  <2>1. PICK r \in Decode(recognizer, ~more_data) : recognizer' = r
    BY <1>7 DEF DecodeChunk
  <2>2. recognizer' \in RecognizerType
    BY <2>1, DecodeType DEF TypeOK, SegmentType, RpcType
  <2>3. pc' \in Places
    BY <1>7 DEF DecodeChunk, Places
  <2> QED
    BY <1>7, <2>2, <2>3
    DEF DecodeChunk, TypeOK, StreamType, RpcType, SegmentType, HistoryType,
        client_vars, rpc_vars, history
<1>8. CASE InterimResult
  <2>1. last_transcript' \in Hypotheses
    BY <1>8 DEF InterimResult
  <2>2. status' \in Statuses /\ pc' \in Places
    BY <1>8 DEF InterimResult, Return, TypeOK, Statuses, Places
  <2>3. res' \in Responses \cup {NoResponse}
    <3>1. CASE UNCHANGED res
      BY <3>1 DEF TypeOK
    <3>2. CASE \E o \in GetResults(recognizer, FALSE, config.punctuation) :
                 res' = Response("interim", o)
      <4>1. PICK o \in GetResults(recognizer, FALSE, config.punctuation) :
                   res' = Response("interim", o)
        BY <3>2
      <4>2. config.punctuation \in BOOLEAN
        BY <1>8, ConfigAssumption DEF InterimResult, Control
      <4>3. o.words \in BOOLEAN /\ o.opens \in BOOLEAN
        BY <4>2, GetResultsType DEF TypeOK, SegmentType, Outcome
      <4> QED
        BY <4>1, <4>3, ResponseType DEF Kinds
    <3> QED
      BY <1>8, <3>1, <3>2 DEF InterimResult
  <2> QED
    BY <1>8, <2>1, <2>2, <2>3
    DEF InterimResult, TypeOK, StreamType, RpcType, SegmentType, HistoryType,
        client_vars, rpc_vars, history
<1>9. CASE WriteInterim
  <2>1. written' \in Seq(Responses)
    <3>1. res \in Responses
      BY <1>9 DEF WriteInterim, Control, Writing
    <3> QED
      BY <1>9, <3>1 DEF WriteInterim, Write, TypeOK, StreamType
  <2>2. status' \in Statuses /\ pc' \in Places
    BY <1>9 DEF WriteInterim, Return, TypeOK, Statuses, Places
  <2> QED
    BY <1>9, <2>1, <2>2
    DEF WriteInterim, TypeOK, StreamType, RpcType, SegmentType, HistoryType,
        client_vars, rpc_vars, segment_vars, history
<1>10. CASE FinalResult
  <2>1. adaptation_state' \in SUBSET Int
    BY <1>10 DEF FinalResult, GetAdaptationState, TypeOK, SegmentType, RecognizerType
  <2>2. status' \in Statuses /\ pc' \in Places
    BY <1>10 DEF FinalResult, Return, TypeOK, Statuses, Places
  <2>3. /\ recognizer' \in RecognizerType
        /\ left_context' \in Nat \cup {NoContext}
        /\ res' \in Responses \cup {NoResponse}
    <3>1. CASE UNCHANGED <<recognizer, left_context, res>>
      BY <3>1 DEF TypeOK, RpcType, SegmentType
    <3>2. CASE ~UNCHANGED <<recognizer, left_context, res>>
      <4>1. PICK o \in GetResults(recognizer, TRUE, config.punctuation) :
              /\ recognizer' = [recognizer EXCEPT !.left_context = o.left_context]
              /\ left_context' = o.left_context
              /\ res' = Response(IF o.kind = "result" THEN "final" ELSE "empty", o)
        BY <1>10, <3>2 DEF FinalResult
      <4>2. config.punctuation \in BOOLEAN
        BY <1>10, ConfigAssumption DEF FinalResult, Control
      <4>3. o \in Outcome
        BY <4>2, GetResultsType DEF TypeOK, SegmentType
      <4>4. res' \in Responses
        BY <4>1, <4>3, ResponseType DEF Kinds, Outcome
      <4> QED
        BY <4>1, <4>3, <4>4 DEF TypeOK, SegmentType, RecognizerType, Outcome
    <3> QED
      BY <3>1, <3>2
  <2> QED
    BY <1>10, <2>1, <2>2, <2>3
    DEF FinalResult, TypeOK, StreamType, RpcType, SegmentType, HistoryType,
        client_vars, history
<1>11. CASE WriteFinal
  <2>1. written' \in Seq(Responses) /\ status' \in Statuses /\ pc' \in Places
    BY <1>11 DEF WriteFinal, Write, Return, Control, Writing, TypeOK, StreamType, Statuses,
                 Places
  <2>2. config.single_utterance \in BOOLEAN
    BY <1>11, ConfigAssumption DEF WriteFinal, Control
  <2>3. Response("event", NoWords) \in Responses
    <3>1. NoWords.words \in BOOLEAN /\ NoWords.opens \in BOOLEAN
      BY DEF NoWords
    <3> QED
      BY <3>1, ResponseType DEF Kinds
  <2>4. res' \in Responses \cup {NoResponse}
    BY <1>11, <2>3 DEF WriteFinal
  <2>5. end_of_single_utterance' \in BOOLEAN
    BY <1>11, <2>2 DEF WriteFinal, TypeOK, RpcType
  <2> QED
    BY <1>11, <2>1, <2>4, <2>5
    DEF WriteFinal, TypeOK, StreamType, RpcType, SegmentType, HistoryType,
        client_vars, segment_vars, history
<1>12. CASE WriteEvent
  <2>1. written' \in Seq(Responses) /\ status' \in Statuses /\ pc' \in Places
    BY <1>12 DEF WriteEvent, Write, Return, Control, Writing, TypeOK, StreamType, Statuses,
                 Places
  <2> QED
    BY <1>12, <2>1
    DEF WriteEvent, TypeOK, StreamType, RpcType, SegmentType, HistoryType,
        client_vars, rpc_vars, segment_vars, history
<1>13. CASE AdvanceTime
  BY <1>13 DEF AdvanceTime, TypeOK, StreamType, RpcType, SegmentType, HistoryType,
               client_vars, segment_vars, history, Places
<1>14. ASSUME UNCHANGED server_vars, StreamType' PROVE TypeOK'
  BY <1>14 DEF server_vars, TypeOK, RpcType, SegmentType, HistoryType, rpc_vars,
               segment_vars, history
<1>15. CASE Client
  <2>1. ASSUME NEW m \in Requests, ClientWrite(m) PROVE TypeOK'
    <3>1. StreamType'
      BY <2>1, InputAssumption DEF ClientWrite, TypeOK, StreamType, server_vars
    <3> QED
      BY <1>14, <2>1, <3>1 DEF ClientWrite
  <2>2. CASE ClientWritesDone \/ ClientRead
    <3>1. StreamType'
      BY <2>2 DEF ClientWritesDone, ClientRead, TypeOK, StreamType, server_vars
    <3> QED
      BY <1>14, <2>2, <3>1 DEF ClientWritesDone, ClientRead
  <2>3. CASE ClientGone
    <3>1. PICK k \in 0 .. Len(requests) : requests' = SubSeq(requests, 1, k)
      BY <2>3 DEF ClientGone
    <3>2. requests' \in Seq(Requests)
      BY <3>1, SubSeqProperties DEF TypeOK, StreamType
    <3>3. StreamType'
      BY <2>3, <3>2 DEF ClientGone, TypeOK, StreamType, server_vars
    <3> QED
      BY <1>14, <2>3, <3>3 DEF ClientGone
  <2> QED
    BY <1>15, <2>1, <2>2, <2>3 DEF Client
<1>16. CASE UNCHANGED vars
  BY <1>16 DEF vars, TypeOK, StreamType, RpcType, SegmentType, HistoryType
<1> QED
  BY <1>1, <1>2, <1>3, <1>4, <1>5, <1>6, <1>7, <1>8, <1>9, <1>10, <1>11, <1>12, <1>13,
     <1>15, <1>16 DEF Next, Server, Finished

\* The client touches nothing of the server's.
LEMMA ClientFrame ==
  ASSUME [Next]_vars
  PROVE  Server \/ UNCHANGED server_vars
<1>1. CASE Client
  BY <1>1 DEF Client, ClientWrite, ClientWritesDone, ClientRead, ClientGone
<1>2. CASE UNCHANGED vars
  BY <1>2 DEF vars, server_vars, rpc_vars, segment_vars, history
<1> QED
  BY <1>1, <1>2 DEF Next, Finished
-------------------------------------------------------------------------------
\* Local variables

LEMMA ControlStep == TypeOK /\ TypeOK' /\ Control /\ [Next]_vars => Control'
<1> SUFFICES ASSUME TypeOK, TypeOK', Control, [Next]_vars PROVE Control'
  OBVIOUS
<1> USE DEF Control, InSegment, Writing
<1>1. CASE ConfigMissing
  BY <1>1 DEF ConfigMissing, Return, TypeOK, segment_vars
<1>2. CASE ReadConfig
  <2>1. Head(requests) \in Requests
    BY <1>2, TailType DEF ReadConfig, TypeOK
  <2>2. ValidFirst(Head(requests)) => Head(requests).config \in Configs
    BY <2>1 DEF ValidFirst, Requests, ConfigRequest, AudioRequest, EndRequest
  <2> QED
    BY <1>2, <2>2 DEF ReadConfig, Return, segment_vars
<1>3. CASE BeginSegment
  BY <1>3 DEF BeginSegment, NewRecognizer
<1>4. CASE ReturnOk
  BY <1>4 DEF ReturnOk, Return, segment_vars
<1>5. CASE ReadAudio
  <2>1. PICK s \in IF speech_started THEN {TRUE} ELSE HasSpeech(NSamples(Head(requests))) :
          /\ speech_started' = s
          /\ pc' = IF s THEN "decode" ELSE "read"
    BY <1>5 DEF ReadAudio
  <2>2. speech_started => speech_started'
    BY <2>1
  <2> QED
    BY <1>5, <2>1, <2>2 DEF ReadAudio, rpc_vars
<1>6. CASE ReadNoMore
  BY <1>6 DEF ReadNoMore, segment_vars
<1>7. CASE DecodeChunk
  <2>1. PICK r \in Decode(recognizer, ~more_data) :
          /\ recognizer' = r
          /\ pc' \in {"finalize", "read", "interim"}
          /\ pc' = "interim" => config.interim_results /\ r.decoded
    BY <1>7 DEF DecodeChunk
  <2>2. recognizer'.id = recognizer.id
    BY <2>1 DEF Decode, TypeOK, SegmentType, RecognizerType
  <2> QED
    BY <1>7, <2>1, <2>2 DEF DecodeChunk, rpc_vars
<1>8. CASE InterimResult
  <2>1. CASE pc' = "write_interim"
    <3>1. PICK o : res' = Response("interim", o)
      BY <1>8, <2>1 DEF InterimResult, Return
    <3>2. res' \in Responses
      BY <3>1, <2>1 DEF TypeOK, NoResponse, Response
    <3>3. /\ res'.seg = recognizer.id /\ res'.offset = vad_offset + processed_time
          /\ res'.start = mark.heard /\ res'.chunks = mark.chunks
          /\ res'.kind = "interim"
      BY <3>1, ResponseFields
    <3>4. /\ UNCHANGED <<recognizer, vad_offset, speech_started, mark, config, processed_time,
                        result_index, status>>
          /\ pc = "interim"
      BY <1>8, <2>1 DEF InterimResult, Return, rpc_vars, history
    <3> QED
      BY <2>1, <3>2, <3>3, <3>4
  <2>2. CASE pc' # "write_interim"
    BY <1>8, <2>2 DEF InterimResult, Return, rpc_vars, TypeOK
  <2> QED
    BY <2>1, <2>2
<1>9. CASE WriteInterim
  BY <1>9 DEF WriteInterim, Return, rpc_vars, segment_vars
<1>10. CASE FinalResult
  <2>1. CASE pc' = "write_final"
    <3>1. PICK o : /\ res' = Response(IF o.kind = "result" THEN "final" ELSE "empty", o)
                   /\ recognizer' = [recognizer EXCEPT !.left_context = o.left_context]
      BY <1>10, <2>1 DEF FinalResult, Return
    <3>2. res' \in Responses
      BY <3>1, <2>1 DEF TypeOK, NoResponse, Response
    <3>3. recognizer'.id = recognizer.id /\ recognizer'.decoded = recognizer.decoded
      BY <3>1 DEF TypeOK, SegmentType, RecognizerType
    <3>4. res'.kind \in {"final", "empty"}
      BY <3>1, ResponseFields
    <3>5. /\ res'.seg = recognizer.id /\ res'.offset = vad_offset + processed_time
          /\ res'.start = mark.heard /\ res'.chunks = mark.chunks
      BY <3>1, ResponseFields
    <3>6. /\ UNCHANGED <<vad_offset, speech_started, mark, config, processed_time,
                        result_index, status>>
          /\ pc = "finalize" /\ recognizer.decoded
      BY <1>10, <2>1 DEF FinalResult, Return, history
    <3> QED
      BY <2>1, <3>2, <3>3, <3>4, <3>5, <3>6
  <2>2. CASE pc' # "write_final"
    BY <1>10, <2>2 DEF FinalResult, Return, TypeOK
  <2> QED
    BY <2>1, <2>2
<1>11. CASE WriteFinal
  <2>1. CASE pc' = "write_event"
    <3>1. res' = Response("event", NoWords)
      BY <1>11, <2>1 DEF WriteFinal, Return
    <3>2. res' \in Responses
      BY <3>1, <2>1 DEF TypeOK, NoResponse, Response
    <3>3. /\ res'.seg = recognizer.id /\ res'.offset = vad_offset + processed_time
          /\ res'.start = mark.heard /\ res'.chunks = mark.chunks
          /\ res'.kind = "event"
      BY <3>1, ResponseFields
    <3>4. /\ UNCHANGED <<recognizer, vad_offset, speech_started, mark, config, processed_time,
                        result_index, status>>
          /\ pc = "write_final"
      BY <1>11, <2>1 DEF WriteFinal, Return, segment_vars, history
    <3> QED
      BY <2>1, <3>2, <3>3, <3>4
  <2>2. CASE pc' # "write_event"
    BY <1>11, <2>2 DEF WriteFinal, Return, segment_vars, TypeOK
  <2> QED
    BY <2>1, <2>2
<1>12. CASE WriteEvent
  BY <1>12 DEF WriteEvent, Return, rpc_vars, segment_vars
<1>13. CASE AdvanceTime
  BY <1>13 DEF AdvanceTime, segment_vars
<1>14. CASE UNCHANGED server_vars
  BY <1>14 DEF server_vars, rpc_vars, segment_vars, history
<1> QED
  BY <1>1, <1>2, <1>3, <1>4, <1>5, <1>6, <1>7, <1>8, <1>9, <1>10, <1>11, <1>12, <1>13,
     <1>14, ClientFrame DEF Server
-------------------------------------------------------------------------------
\* Clocks

LEMMA ClocksStep == TypeOK /\ Control /\ Clocks /\ [Next]_vars => Clocks'
<1> SUFFICES ASSUME TypeOK, Control, Clocks, [Next]_vars PROVE Clocks'
  OBVIOUS
<1> USE DEF Clocks, InSegment
<1>1. CASE ConfigMissing
  BY <1>1 DEF ConfigMissing, Return
<1>2. CASE ReadConfig
  <2>1. Late(0, 0, 0)
    BY RateAssumption DEF Late
  <2>2. heard = 0 /\ processed_time = 0 /\ chunks = 0
    BY <1>2 DEF ReadConfig, Control
  <2> QED
    BY <1>2, <2>1, <2>2 DEF ReadConfig, Return, history
<1>3. CASE BeginSegment
  <2>1. processed_time + 0 = processed_time
    BY DEF TypeOK, RpcType
  <2> QED
    BY <1>3, <2>1 DEF BeginSegment, history
<1>4. CASE ReturnOk
  BY <1>4 DEF ReturnOk, Return
<1>5. CASE ReadAudio
  <2> DEFINE n == NSamples(Head(requests))
  <2>1. n \in Nat
    <3>1. Head(requests) \in Requests
      BY <1>5, TailType DEF ReadAudio, TypeOK
    <3>2. Head(requests).bytes \in Nat
      BY <1>5, <3>1, InputAssumption
      DEF ReadAudio, IsAudio, Requests, ConfigRequest, AudioRequest, EndRequest
    <3> QED
      BY <3>2 DEF NSamples
  <2>2. ChunkTime(n) \in Nat
    BY <2>1, ChunkTimeBounds
  <2>3. /\ segment_time' = segment_time + ChunkTime(n)
        /\ heard' = heard + n /\ chunks' = chunks + 1
        /\ processed_time' = processed_time
    BY <1>5 DEF ReadAudio, rpc_vars
  <2>4. /\ segment_time \in Nat /\ processed_time \in Nat /\ vad_offset \in Nat
        /\ heard \in Nat /\ chunks \in Nat
    BY DEF TypeOK, RpcType, SegmentType, HistoryType
  <2>5. Late(heard', processed_time' + segment_time', chunks')
    <3>1. Late(heard + n, (processed_time + segment_time) + ChunkTime(n), chunks + 1)
      BY <1>5, <2>1, <2>4, LateStep DEF ReadAudio
    <3>2. (processed_time + segment_time) + ChunkTime(n)
            = processed_time + (segment_time + ChunkTime(n))
      BY <2>2, <2>4
    <3> QED
      BY <2>3, <3>1, <3>2
  <2>6. PICK s \in IF speech_started THEN {TRUE} ELSE HasSpeech(n) :
          /\ speech_started' = s
          /\ mark' = IF s /\ ~speech_started THEN [heard |-> heard, chunks |-> chunks]
                                             ELSE mark
          /\ vad_offset' = IF s THEN vad_offset ELSE vad_offset + ChunkTime(n)
    BY <1>5 DEF ReadAudio
  <2>7. CASE speech_started
    <3>1. speech_started' /\ UNCHANGED <<mark, vad_offset>>
      BY <2>6, <2>7
    <3>2. vad_offset' <= segment_time'
      BY <1>5, <2>2, <2>3, <2>4, <3>1 DEF ReadAudio
    <3> QED
      BY <1>5, <2>3, <2>5, <2>7, <3>1, <3>2 DEF ReadAudio
  <2>8. CASE ~speech_started /\ s
    <3>1. speech_started' /\ vad_offset' = vad_offset
          /\ mark'.heard = heard /\ mark'.chunks = chunks
      BY <2>6, <2>8
    <3>2. vad_offset = segment_time /\ Late(heard, processed_time + segment_time, chunks)
      BY <1>5, <2>8 DEF ReadAudio
    <3>3. vad_offset + processed_time = processed_time + segment_time
      BY <2>4, <3>2
    <3>4. vad_offset' <= segment_time'
      BY <2>2, <2>3, <2>4, <3>1, <3>2
    <3>5. pc' # "segment"
      BY <1>5 DEF ReadAudio
    <3>6. Late(mark'.heard, vad_offset' + processed_time', mark'.chunks)
      BY <2>3, <3>1, <3>2, <3>3
    <3> QED
      BY <2>5, <3>1, <3>4, <3>5, <3>6
  <2>9. CASE ~speech_started /\ ~s
    <3>1. ~speech_started' /\ vad_offset' = vad_offset + ChunkTime(n)
      BY <2>6, <2>9
    <3>2. vad_offset = segment_time
      BY <1>5, <2>9 DEF ReadAudio
    <3>3. vad_offset' = segment_time' /\ vad_offset' <= segment_time'
      BY <2>2, <2>3, <2>4, <3>1, <3>2
    <3>4. pc' # "segment"
      BY <1>5 DEF ReadAudio
    <3> QED
      BY <2>5, <3>1, <3>3, <3>4
  <2> QED
    BY <2>7, <2>8, <2>9
<1>6. CASE ReadNoMore
  BY <1>6 DEF ReadNoMore, segment_vars, history
<1>7. CASE DecodeChunk
  BY <1>7 DEF DecodeChunk, rpc_vars, history
<1>8. CASE InterimResult
  BY <1>8 DEF InterimResult, Return, rpc_vars, history
<1>9. CASE WriteInterim
  BY <1>9 DEF WriteInterim, Return, rpc_vars, segment_vars, history
<1>10. CASE FinalResult
  BY <1>10 DEF FinalResult, Return, history
<1>11. CASE WriteFinal
  BY <1>11 DEF WriteFinal, Return, segment_vars, history
<1>12. CASE WriteEvent
  BY <1>12 DEF WriteEvent, Return, rpc_vars, segment_vars, history
<1>13. CASE AdvanceTime
  BY <1>13 DEF AdvanceTime, segment_vars, history
<1>14. CASE UNCHANGED server_vars
  BY <1>14 DEF server_vars, rpc_vars, segment_vars, history
<1> QED
  BY <1>1, <1>2, <1>3, <1>4, <1>5, <1>6, <1>7, <1>8, <1>9, <1>10, <1>11, <1>12, <1>13,
     <1>14, ClientFrame DEF Server
-------------------------------------------------------------------------------
\* Offsets of the responses

LEMMA AppendOffset ==
  ASSUME OffsetsTrackAudio, written \in Seq(Responses), NEW r \in Responses,
         Late(r.start, r.offset, r.chunks), written' = Append(written, r)
  PROVE  OffsetsTrackAudio'
<1> SUFFICES ASSUME NEW i \in 1 .. Len(written')
             PROVE  Lateness(written'[i]) \in 0 .. written'[i].chunks * (SampleRate - 1)
  BY DEF OffsetsTrackAudio, Lateness
<1>1. Len(written') = Len(written) + 1
  OBVIOUS
<1>2. CASE i \in 1 .. Len(written)
  <2>1. written'[i] = written[i]
    BY <1>2
  <2> QED
    BY <1>2, <2>1 DEF OffsetsTrackAudio
<1>3. CASE i = Len(written) + 1
  <2>1. written'[i] = r
    BY <1>3
  <2> QED
    BY <2>1 DEF Late, Lateness
<1> QED
  BY <1>1, <1>2, <1>3

LEMMA OffsetsStep ==
  TypeOK /\ Control /\ Clocks /\ OffsetsTrackAudio /\ [Next]_vars => OffsetsTrackAudio'
<1> SUFFICES ASSUME TypeOK, Control, Clocks, OffsetsTrackAudio, [Next]_vars
             PROVE  OffsetsTrackAudio'
  OBVIOUS
<1>1. CASE UNCHANGED written
  BY <1>1 DEF OffsetsTrackAudio, Lateness
<1>2. CASE Writing /\ written' = Append(written, res)
  <2>1. res \in Responses /\ res.offset = vad_offset + processed_time
        /\ res.start = mark.heard /\ res.chunks = mark.chunks
    BY <1>2 DEF Control
  <2>2. speech_started
    BY <1>2 DEF Control, Writing, InSegment
  <2>3. Late(mark.heard, vad_offset + processed_time, mark.chunks)
    BY <1>2, <2>2 DEF Clocks, Writing, InSegment
  <2> QED
    BY <1>2, <2>1, <2>3, AppendOffset DEF TypeOK, StreamType
<1>3. Server => UNCHANGED written \/ (Writing /\ written' = Append(written, res))
  BY DEF Server, ConfigMissing, ReadConfig, BeginSegment, ReturnOk, ReadAudio, ReadNoMore,
         DecodeChunk, InterimResult, WriteInterim, FinalResult, WriteFinal, WriteEvent,
         AdvanceTime, Write, Writing
<1> QED
  BY <1>1, <1>2, <1>3, ClientFrame DEF server_vars
-------------------------------------------------------------------------------
\* How far the responses have got

LEMMA ProgressStep == TypeOK /\ Control /\ Clocks /\ Progress /\ [Next]_vars => Progress'
<1> SUFFICES ASSUME TypeOK, Control, Clocks, Progress, [Next]_vars PROVE Progress'
  OBVIOUS
<1> USE DEF Progress, BeforeClosing
<1>0. /\ result_index \in Int /\ processed_time \in Nat /\ segment_time \in Nat
      /\ vad_offset \in Nat /\ written \in Seq(Responses)
  BY DEF TypeOK, RpcType, SegmentType, StreamType, NoContext
<1>1. CASE ConfigMissing
  BY <1>1 DEF ConfigMissing, Return
<1>2. CASE ReadConfig
  BY <1>2 DEF ReadConfig, Return, Control, Settled
<1>3. CASE BeginSegment
  <2>1. Settled(result_index, processed_time)
    BY <1>3 DEF BeginSegment
  <2>2. ~end_of_single_utterance
    BY <1>3 DEF BeginSegment, LoopCondition
  <2>3. result_index' - 1 = result_index
    BY <1>0, <1>3 DEF BeginSegment
  <2>4. Settled(result_index - 1, processed_time)'
    BY <1>3, <2>1, <2>3 DEF BeginSegment, Settled, LastResponse
  <2> QED
    BY <1>3, <2>2, <2>4 DEF BeginSegment
<1>4. CASE ReturnOk
  BY <1>4 DEF ReturnOk, Return
<1>5. CASE ReadAudio
  BY <1>5 DEF ReadAudio, rpc_vars, Settled, LastResponse, Control, InSegment
<1>6. CASE ReadNoMore
  BY <1>6 DEF ReadNoMore, segment_vars, Settled, LastResponse
<1>7. CASE DecodeChunk
  <2>1. PICK r \in Decode(recognizer, ~more_data) :
          recognizer' = r /\ pc' \in {"finalize", "read", "interim"}
    BY <1>7 DEF DecodeChunk
  <2>2. recognizer'.id = recognizer.id
        /\ (recognizer.decoded => recognizer'.decoded)
    BY <2>1 DEF Decode, TypeOK, SegmentType, RecognizerType
  <2>3. pc = "decode" /\ UNCHANGED <<config, written, end_of_single_utterance, result_index,
                                      processed_time, vad_offset>>
    BY <1>7 DEF DecodeChunk, rpc_vars
  <2> QED
    BY <2>1, <2>2, <2>3 DEF Settled, LastResponse
<1>8. CASE InterimResult
  BY <1>8 DEF InterimResult, Return, rpc_vars, Settled, LastResponse
<1>9. CASE WriteInterim
  <2>1. CASE pc' = "read"
    <3>1. /\ written' = Append(written, res)
          /\ UNCHANGED <<recognizer, vad_offset, processed_time, end_of_single_utterance>>
          /\ pc = "write_interim"
      BY <1>9, <2>1 DEF WriteInterim, Write, Return, rpc_vars, segment_vars
    <3>2. res.kind = "interim" /\ recognizer.decoded /\ res.seg = recognizer.id
          /\ res.offset = vad_offset + processed_time
      BY <3>1 DEF Control, Writing
    <3>3. written' # <<>> /\ LastResponse' = res
      BY <1>0, <3>1 DEF LastResponse
    <3> QED
      BY <2>1, <3>1, <3>2, <3>3
  <2>2. CASE pc' # "read"
    BY <1>9, <2>2 DEF WriteInterim, Return
  <2> QED
    BY <2>1, <2>2
<1>10. CASE FinalResult
  <2>1. CASE pc' = "advance"
    <3>1. /\ UNCHANGED <<config, written, end_of_single_utterance, result_index,
                        processed_time, segment_time>>
          /\ pc = "finalize" /\ ~recognizer.decoded
      BY <1>10, <2>1 DEF FinalResult, Return
    <3>2. Settled(result_index - 1, processed_time)
      BY <3>1
    <3>3. Settled(result_index, processed_time + segment_time)
      <4>1. CASE written = <<>>
        BY <4>1 DEF Settled
      <4>2. CASE written # <<>>
        <5>0. LastResponse \in Responses
          BY <1>0, <4>2 DEF LastResponse
        <5>1. LastResponse.seg \in Nat /\ LastResponse.offset \in Nat
          BY <5>0 DEF Responses
        <5> QED
          BY <1>0, <3>2, <4>2, <5>1 DEF Settled
      <4> QED
        BY <4>1, <4>2
    <3> QED
      BY <2>1, <3>1, <3>3 DEF Settled, LastResponse
  <2>2. CASE pc' = "write_final"
    <3>1. /\ UNCHANGED <<config, written, end_of_single_utterance, result_index,
                        processed_time, vad_offset>>
          /\ pc = "finalize"
      BY <1>10, <2>2 DEF FinalResult, Return
    <3>2. PICK o : recognizer' = [recognizer EXCEPT !.left_context = o.left_context]
      BY <1>10, <2>2 DEF FinalResult, Return
    <3>3. recognizer'.id = recognizer.id /\ recognizer'.decoded = recognizer.decoded
      BY <3>2 DEF TypeOK, SegmentType, RecognizerType
    <3> QED
      BY <2>2, <3>1, <3>3 DEF Settled, LastResponse
  <2>3. CASE pc' \notin {"advance", "write_final"}
    BY <1>10, <2>3 DEF FinalResult, Return
  <2> QED
    BY <2>1, <2>2, <2>3
<1>11. CASE WriteFinal
  <2>1. CASE WriteFails /\ Return("CANCELLED")
    BY <2>1 DEF Return
  <2>2. CASE ~(WriteFails /\ Return("CANCELLED"))
    <3>1. /\ written' = Append(written, res) /\ pc = "write_final"
          /\ end_of_single_utterance' = (config.single_utterance \/ end_of_single_utterance)
          /\ pc' = IF config.single_utterance THEN "write_event" ELSE "advance"
          /\ UNCHANGED <<config, recognizer, result_index, processed_time, segment_time,
                        vad_offset>>
      BY <1>11, <2>2 DEF WriteFinal, Write, segment_vars
    <3>2. /\ res.kind \in {"final", "empty"} /\ res.seg = recognizer.id
          /\ res.offset = vad_offset + processed_time /\ recognizer.id = result_index
      BY <3>1 DEF Control, Writing, InSegment
    <3>3. written' # <<>> /\ LastResponse' = res
      BY <1>0, <3>1 DEF LastResponse
    <3>4. vad_offset <= segment_time
      BY <3>1 DEF Clocks, InSegment
    <3>5. CASE config.single_utterance
      <4>1. pc' = "write_event" /\ end_of_single_utterance' = TRUE
        BY <3>1, <3>5
      <4> QED
        BY <3>1, <3>2, <3>3, <3>5, <4>1
    <3>6. CASE ~config.single_utterance
      <4>1. pc' = "advance"
        BY <3>1, <3>6
      <4>2. res.seg <= result_index /\ res.offset <= processed_time + segment_time
        BY <1>0, <3>2, <3>4
      <4>3. Settled(result_index, processed_time + segment_time)'
        BY <3>1, <3>2, <3>3, <3>6, <4>2 DEF Settled
      <4> QED
        BY <4>1, <4>3
    <3> QED
      BY <3>5, <3>6
  <2> QED
    BY <2>1, <2>2
<1>12. CASE WriteEvent
  <2>1. CASE pc' = "advance"
    <3>1. /\ written' = Append(written, res) /\ pc = "write_event"
          /\ UNCHANGED <<config, end_of_single_utterance>>
      BY <1>12, <2>1 DEF WriteEvent, Write, Return, rpc_vars
    <3>2. res.kind = "event" /\ config.single_utterance /\ end_of_single_utterance
      BY <3>1 DEF Control
    <3>3. LastResponse' = res
      BY <1>0, <3>1 DEF LastResponse
    <3> QED
      BY <2>1, <3>1, <3>2, <3>3 DEF Settled
  <2>2. CASE pc' # "advance"
    BY <1>12, <2>2 DEF WriteEvent, Return
  <2> QED
    BY <2>1, <2>2
<1>13. CASE AdvanceTime
  BY <1>13 DEF AdvanceTime, segment_vars, Settled, LastResponse
<1>14. CASE UNCHANGED server_vars
  BY <1>14 DEF server_vars, rpc_vars, segment_vars, history, Settled, LastResponse
<1> QED
  BY <1>1, <1>2, <1>3, <1>4, <1>5, <1>6, <1>7, <1>8, <1>9, <1>10, <1>11, <1>12, <1>13,
     <1>14, ClientFrame DEF Server
-------------------------------------------------------------------------------
\* The theorems

LEMMA InitInv == Init => IInv
<1> SUFFICES ASSUME Init PROVE IInv
  OBVIOUS
<1>1. TypeOK
  BY InitType
<1>2. Control
  BY DEF Init, Control, InSegment, Writing
<1>3. Clocks
  BY DEF Init, Clocks, InSegment
<1>4. OffsetsTrackAudio
  BY DEF Init, OffsetsTrackAudio
<1>5. Progress
  BY DEF Init, Progress, BeforeClosing
<1> QED
  BY <1>1, <1>2, <1>3, <1>4, <1>5 DEF IInv

LEMMA InvStep == IInv /\ [Next]_vars => IInv'
BY TypeStep, ControlStep, ClocksStep, OffsetsStep, ProgressStep DEF IInv

\* IInv is inductive, so it holds throughout every run.
THEOREM Invariance == Spec => []IInv
<1>1. Init => IInv
  BY InitInv
<1>2. IInv /\ [Next]_vars => IInv'
  BY InvStep
<1> QED
  BY <1>1, <1>2, PTL DEF Spec

\* The state of the RPC, of its segment and of the stream is always typed, the response
\* under construction included.
THEOREM TypeCorrect == Spec => []TypeOK
<1>1. IInv => TypeOK
  BY DEF IInv
<1> QED
  BY <1>1, Invariance, PTL

\* Word times never start after their audio, and are early by less than a millisecond
\* for each chunk: in processed_time, segment_time and vad_offset nothing else is lost
\* over any number of segments, endpoints and skipped chunks, at any sample rate.
THEOREM OffsetsCorrect == Spec => []OffsetsTrackAudio
<1>1. IInv => OffsetsTrackAudio
  BY DEF IInv
<1> QED
  BY <1>1, Invariance, PTL
-------------------------------------------------------------------------------
\* Refinement of StreamingProtocol

LEMMA ProtocolInit == Init => Protocol!Init
BY DEF Init, Protocol!Init

\* Any status but OK may be returned whenever the configuration allows it.
LEMMA ProtocolFailure ==
  ASSUME Control, pc \notin {"done"}, NEW s \in {"CANCELLED", "INVALID_ARGUMENT", "INTERNAL"},
         status' = s, UNCHANGED <<config, written>>,
         s = "INVALID_ARGUMENT" => config = BadConfig,
         s = "INTERNAL" => config \in Configs
  PROVE  Protocol!Next
<1>1. status = "none"
  BY DEF Control
<1>2. Protocol!ReturnStatus(s)
  BY <1>1, ConfigAssumption DEF Protocol!ReturnStatus
<1> QED
  BY <1>2 DEF Protocol!Next, Protocol!Statuses

\* A response is written while the RPC runs.
LEMMA ProtocolWrite ==
  ASSUME TypeOK, Control, Writing, written' = Append(written, res), UNCHANGED <<config, status>>
  PROVE  /\ Protocol!Running
         /\ Len(written') = Len(written) + 1 /\ Protocol!LastOf(written') = res
<1>1. status = "none" /\ config \in Configs
  BY DEF Control, Writing
<1>2. written \in Seq(Responses) /\ res \in Responses
  BY DEF TypeOK, StreamType, Control
<1> QED
  BY <1>1, <1>2, ConfigAssumption DEF Protocol!Running, Protocol!LastOf

\* A response about the current segment may follow what has been written.
LEMMA ProtocolFollows ==
  ASSUME TypeOK, Control, Progress, pc \in {"write_interim", "write_final"}
  PROVE  Protocol!Follows(res)
<1>1. /\ res.seg = result_index /\ recognizer.id = result_index
      /\ res.offset = vad_offset + processed_time
  BY DEF Control, Writing, InSegment
<1>2. result_index \in Int /\ processed_time \in Nat /\ vad_offset \in Nat
  BY DEF TypeOK, RpcType, SegmentType, NoContext
<1>3. ~end_of_single_utterance
  BY DEF Progress, BeforeClosing
<1>4. CASE Settled(result_index - 1, processed_time)
  <2>1. CASE written = <<>>
    BY <2>1 DEF Protocol!Follows
  <2>2. CASE written # <<>>
    <3>1. LastResponse \in Responses
      BY <2>2 DEF LastResponse, TypeOK, StreamType
    <3>2. LastResponse.seg \in Nat /\ LastResponse.offset \in Nat
      BY <3>1 DEF Responses
    <3>3. /\ ~config.single_utterance /\ LastResponse.kind \in {"final", "empty"}
          /\ LastResponse.seg <= result_index - 1 /\ LastResponse.offset <= processed_time
      BY <1>3, <1>4, <2>2 DEF Settled
    <3>4. res.seg > LastResponse.seg /\ res.offset >= LastResponse.offset
      BY <1>1, <1>2, <3>2, <3>3
    <3> QED
      BY <3>3, <3>4 DEF Protocol!Follows, Protocol!LastOf, Protocol!Closing, LastResponse
  <2> QED
    BY <2>1, <2>2
<1>5. CASE ~Settled(result_index - 1, processed_time)
  <2>1. /\ LastResponse.kind = "interim" /\ LastResponse.seg = recognizer.id
        /\ LastResponse.offset = vad_offset + processed_time
    BY <1>5 DEF Progress, BeforeClosing
  <2> QED
    BY <1>1, <2>1 DEF Protocol!Follows, Protocol!LastOf, LastResponse
<1> QED
  BY <1>4, <1>5

LEMMA ProtocolStep == IInv /\ [Next]_vars => [Protocol!Next]_(Protocol!vars)
<1> SUFFICES ASSUME TypeOK, Control, Progress, [Next]_vars
             PROVE  Protocol!Next \/ UNCHANGED <<config, written, status>>
  BY DEF IInv, Protocol!vars
<1>1. CASE ConfigMissing
  BY <1>1, ProtocolFailure DEF ConfigMissing, Return, rpc_vars
<1>2. CASE ReadConfig
  <2>1. status = "none" /\ config = BadConfig
    BY <1>2 DEF ReadConfig, Control
  <2>2. CASE ValidFirst(Head(requests))
    <3>1. config' \in Configs
      BY <1>2, <2>2, TailType DEF ReadConfig, TypeOK, ValidFirst, Requests, ConfigRequest,
                                  AudioRequest, EndRequest
    <3>2. Protocol!Accept(config')
      BY <1>2, <2>1, <2>2 DEF ReadConfig, Protocol!Accept
    <3> QED
      BY <3>1, <3>2 DEF Protocol!Next
  <2>3. CASE ~ValidFirst(Head(requests))
    BY <1>2, <2>1, <2>3, ProtocolFailure DEF ReadConfig, Return
  <2> QED
    BY <2>2, <2>3
<1>3. CASE BeginSegment \/ ReadAudio \/ ReadNoMore \/ DecodeChunk \/ AdvanceTime
  BY <1>3 DEF BeginSegment, ReadAudio, ReadNoMore, DecodeChunk, AdvanceTime, rpc_vars
<1>4. CASE ReturnOk
  <2>1. status = "none" /\ config \in Configs /\ Settled(result_index, processed_time)
    BY <1>4 DEF ReturnOk, Control, Progress
  <2>2. written = <<>> \/ Protocol!LastOf(written).kind \in
                            (IF config.single_utterance THEN {"event"} ELSE Protocol!Closing)
    BY <2>1 DEF Settled, LastResponse, Protocol!LastOf, Protocol!Closing
  <2>3. Protocol!ReturnStatus("OK")
    BY <1>4, <2>1, <2>2, ConfigAssumption DEF ReturnOk, Return, Protocol!ReturnStatus
  <2> QED
    BY <2>3 DEF Protocol!Next, Protocol!Statuses
<1>5. CASE InterimResult \/ FinalResult
  <2>1. CASE UNCHANGED status
    BY <1>5, <2>1 DEF InterimResult, FinalResult, rpc_vars
  <2>2. CASE status' = "INTERNAL"
    <3>1. config \in Configs /\ pc # "done" /\ UNCHANGED <<config, written>>
      BY <1>5 DEF InterimResult, FinalResult, rpc_vars, Control
    <3> QED
      BY <2>2, <3>1, ProtocolFailure
  <2> QED
    BY <1>5, <2>1, <2>2 DEF InterimResult, FinalResult, Return
<1>6. CASE Writing /\ status' = "CANCELLED" /\ UNCHANGED <<config, written>>
  BY <1>6, ProtocolFailure DEF Writing
<1>7. CASE WriteInterim /\ written' = Append(written, res) /\ UNCHANGED <<config, status>>
  <2>1. pc = "write_interim" /\ Writing /\ res.kind = "interim" /\ config.interim_results
    BY <1>7 DEF WriteInterim, Writing, Control
  <2>2. Protocol!Interim(res)
    BY <1>7, <2>1, ProtocolWrite, ProtocolFollows DEF Protocol!Interim
  <2> QED
    BY <1>7, <2>1, <2>2, ProtocolWrite DEF Protocol!Next
<1>8. CASE WriteFinal /\ written' = Append(written, res) /\ UNCHANGED <<config, status>>
  <2>1. pc = "write_final" /\ Writing /\ res.kind \in Protocol!Closing
    BY <1>8 DEF WriteFinal, Writing, Control, Protocol!Closing
  <2>2. Protocol!Settle(res)
    BY <1>8, <2>1, ProtocolWrite, ProtocolFollows DEF Protocol!Settle
  <2> QED
    BY <1>8, <2>1, <2>2, ProtocolWrite DEF Protocol!Next
<1>9. CASE WriteEvent /\ written' = Append(written, res) /\ UNCHANGED <<config, status>>
  <2>1. /\ pc = "write_event" /\ Writing /\ res.kind = "event" /\ res.seg = recognizer.id
        /\ config.single_utterance /\ written # <<>>
        /\ LastResponse.kind \in {"final", "empty"} /\ LastResponse.seg = recognizer.id
    BY <1>9 DEF WriteEvent, Writing, Control, Progress
  <2>2. Protocol!EndOfSingleUtterance(res)
    BY <1>9, <2>1, ProtocolWrite
    DEF Protocol!EndOfSingleUtterance, Protocol!LastOf, Protocol!Closing, LastResponse
  <2> QED
    BY <1>9, <2>1, <2>2, ProtocolWrite DEF Protocol!Next
<1>10. ASSUME WriteInterim \/ WriteFinal \/ WriteEvent
       PROVE  \/ Writing /\ status' = "CANCELLED" /\ UNCHANGED <<config, written>>
              \/ written' = Append(written, res) /\ UNCHANGED <<config, status>>
  BY <1>10 DEF WriteInterim, WriteFinal, WriteEvent, Writing, Write, Return, rpc_vars
<1>11. CASE UNCHANGED server_vars
  BY <1>11 DEF server_vars, rpc_vars
<1> QED
  BY <1>1, <1>2, <1>3, <1>4, <1>5, <1>6, <1>7, <1>8, <1>9, <1>10, <1>11, ClientFrame
  DEF Server

\* Every run of the server keeps the contract of StreamingProtocol with its client.
THEOREM ImplementsProtocol == Spec => KeepsProtocol
<1>1. Init => Protocol!Init
  BY ProtocolInit
<1>2. IInv /\ [Next]_vars => [Protocol!Next]_(Protocol!vars)
  BY ProtocolStep
<1> QED
  BY <1>1, <1>2, Invariance, PTL DEF Spec, KeepsProtocol, Protocol!Spec

===============================================================================
