-------------------------- MODULE StreamingRecognize --------------------------
(***************************************************************************)
(* One StreamingRecognize RPC (src/api/services.cc): the server thread     *)
(* that runs StreamingRecognize and RunStreamingProcessor, and the gRPC    *)
(* stream to its client.                                                   *)
(*                                                                         *)
(* The server thread owns all its state and meets the client only in Read  *)
(* and Write, so a step runs from one of these (or from a branch worth     *)
(* naming) to the next.  pc names where the thread is.  A client may send  *)
(* any message at any time, half-close, or vanish; a message of an         *)
(* abandoned call may or may not still reach the server.                   *)
(*                                                                         *)
(* Audio is counted, not stored: a message of n bytes is n \div 2 samples. *)
(* Time is in milliseconds, as the code computes it.                       *)
(***************************************************************************)
EXTENDS Recognizer, Sequences

CONSTANTS
  SampleRate,  \* sample_rate_hertz of the stream
  ModelRate,   \* sample rate of the acoustic model
  VadFrame,    \* samples in a VAD frame: a chunk that is shorter counts as speech
  ChunkBytes,  \* sizes of audio_content a client sends, 0 included
  Configs,     \* streaming configurations that pass validation
  BadConfig,   \* one that does not
  Hypotheses,  \* what the best path can spell, numbered: 0 is the empty string
  MaxRequests, \* bound: messages a client sends
  Window       \* responses the transport holds before Write blocks

ASSUME RateAssumption == SampleRate \in Nat \ {0}

ASSUME ConfigAssumption ==
  /\ \A c \in Configs : /\ c.single_utterance \in BOOLEAN
                        /\ c.interim_results \in BOOLEAN /\ c.punctuation \in BOOLEAN
  /\ BadConfig \notin Configs

ASSUME InputAssumption ==
  /\ ModelRate \in Nat \ {0} /\ VadFrame \in Nat /\ ChunkBytes \subseteq Nat
  /\ Hypotheses \subseteq Nat /\ 0 \in Hypotheses
  /\ MaxRequests \in Nat /\ Window \in Nat \ {0}

VARIABLES
  client,      \* "open", "half_closed" (WritesDone) or "gone" (cancelled, disconnected)
  requests,    \* messages sent and not yet read by the server
  n_sent,      \* how many messages the client has sent
  n_read,      \* how many responses the client has read
  written,     \* the responses the server has written, in order
  status,      \* the grpc::Status the RPC returned, "none" while it runs
  pc, config, more_data, end_of_single_utterance, result_index, processed_time,
  adaptation_state, left_context,                                   \* of the RPC
  recognizer, segment_time, vad_offset, speech_started, last_transcript, res,
                                                                    \* of a segment
  heard,       \* history: samples in the audio the loop has read
  chunks,      \* history: messages that carried it
  mark         \* history: heard and chunks when the segment's speech started

client_vars == <<client, n_sent, n_read>>
rpc_vars == <<config, more_data, end_of_single_utterance, result_index, processed_time,
              adaptation_state, left_context>>
segment_vars == <<recognizer, segment_time, vad_offset, speech_started, last_transcript>>
history == <<heard, chunks, mark>>
vars == <<client, requests, n_sent, n_read, written, status, pc, config, more_data,
          end_of_single_utterance, result_index, processed_time, adaptation_state,
          left_context, recognizer, segment_time, vad_offset, speech_started,
          last_transcript, res, heard, chunks, mark>>
-------------------------------------------------------------------------------
\* Messages

ConfigRequest(c) == [kind |-> "streaming_config", config |-> c]
AudioRequest(n) == [kind |-> "audio_content", bytes |-> n]
EndRequest == [kind |-> "END"]

Requests == {ConfigRequest(c) : c \in Configs \cup {BadConfig}}
              \cup {AudioRequest(n) : n \in ChunkBytes} \cup {EndRequest}

\* Validate() of the first message.
ValidFirst(m) == m.kind = "streaming_config" /\ m.config # BadConfig

\* Anything but non-empty audio, a second streaming_config too, ends the input.
IsAudio(m) == m.kind = "audio_content" /\ m.bytes > 0

NSamples(m) == m.bytes \div 2
ChunkTime(n) == (1000 * n) \div SampleRate

\* vad.HasSpeech(): whatever the VAD decides, but a chunk that does not fill a VAD
\* frame is speech.  Resampling changes the length, so that case is left open too.
HasSpeech(n) == IF SampleRate = ModelRate /\ n < VadFrame THEN {TRUE} ELSE BOOLEAN

\* Seeded fault: the skipped audio is taken off the offset.
ResponseSkipsTakenOff(kind, o) ==
  [kind |-> kind, seg |-> recognizer.id, offset |-> processed_time - vad_offset,
   words |-> o.words, opens |-> o.opens, start |-> mark.heard, chunks |-> mark.chunks]

\* A response, with what the properties compare: the segment and the audio its words
\* come from are not in the message, its offset is where their times start.
Response(kind, o) ==
  [kind |-> kind, seg |-> recognizer.id, offset |-> vad_offset + processed_time,
   words |-> o.words, opens |-> o.opens, start |-> mark.heard, chunks |-> mark.chunks]

NoResponse == [kind |-> "none"]
NoWords == [words |-> FALSE, opens |-> FALSE]
Kinds == {"interim", "final", "empty", "event"}
Responses == [kind: Kinds, seg: Nat, offset: Nat, words: BOOLEAN, opens: BOOLEAN,
              start: Nat, chunks: Nat]

NoRecognizer == NewRecognizer(0, {}, NoContext)

Init ==
  /\ client = "open" /\ requests = <<>> /\ n_sent = 0 /\ n_read = 0
  /\ written = <<>> /\ status = "none" /\ pc = "start"
  /\ config = BadConfig /\ more_data = TRUE /\ end_of_single_utterance = FALSE
  /\ result_index = -1 /\ processed_time = 0
  /\ adaptation_state = InitialAdaptation /\ left_context = NoContext
  /\ recognizer = NoRecognizer /\ segment_time = 0 /\ vad_offset = 0
  /\ speech_started = FALSE /\ last_transcript = 0 /\ res = NoResponse
  /\ heard = 0 /\ chunks = 0 /\ mark = [heard |-> 0, chunks |-> 0]
-------------------------------------------------------------------------------
\* The stream

\* stream->Read() has a message, or returns FALSE for good.
CanRead == requests # <<>>
ReadFails == requests = <<>> /\ client # "open"

\* stream->Write() blocks while the window is full; once the client is gone it fails,
\* though it may still succeed while the transport has not noticed.
Write(r) ==
  /\ client = "gone" \/ Len(written) - n_read < Window
  /\ written' = Append(written, r)
WriteFails == client = "gone"

Return(s) == status' = s /\ pc' = "done"
-------------------------------------------------------------------------------
\* StreamingRecognize: the first message

ConfigMissing ==
  /\ pc = "start" /\ ReadFails
  /\ Return("CANCELLED")
  /\ UNCHANGED <<client_vars, requests, written, rpc_vars, segment_vars, res, history>>

ReadConfig ==
  /\ pc = "start" /\ CanRead
  /\ requests' = Tail(requests)
  /\ IF ValidFirst(Head(requests))
       THEN /\ config' = Head(requests).config
            /\ pc' = "segment"
            /\ UNCHANGED status
       ELSE Return("INVALID_ARGUMENT") /\ UNCHANGED config
  /\ UNCHANGED <<client_vars, written, more_data, end_of_single_utterance, result_index,
                 processed_time, adaptation_state, left_context, segment_vars, res, history>>

\* RunStreamingProcessor: the loop over segments, its condition and its first lines

\* Seeded fault: the loop runs on after the single utterance.
LoopConditionEndless == more_data

LoopCondition == more_data /\ ~end_of_single_utterance

BeginSegment ==
  /\ pc = "segment" /\ LoopCondition
  /\ result_index' = result_index + 1
  /\ recognizer' = NewRecognizer(result_index + 1, adaptation_state, left_context)
  /\ segment_time' = 0 /\ vad_offset' = 0
  /\ speech_started' = FALSE /\ last_transcript' = 0
  /\ pc' = "read"
  /\ UNCHANGED <<client_vars, requests, written, status, config, more_data, res, history,
                 end_of_single_utterance, processed_time, adaptation_state, left_context>>

ReturnOk ==
  /\ pc = "segment" /\ ~LoopCondition
  /\ result_index' = result_index + 1
  /\ Return("OK")
  /\ UNCHANGED <<client_vars, requests, written, config, more_data, processed_time, res,
                 end_of_single_utterance, adaptation_state, left_context, segment_vars, history>>

\* The loop over chunks: read one, drop it if no speech has been heard yet

ReadAudio ==
  /\ pc = "read" /\ CanRead /\ IsAudio(Head(requests))
  /\ requests' = Tail(requests)
  /\ LET n == NSamples(Head(requests)) IN
       /\ segment_time' = segment_time + ChunkTime(n)
       /\ heard' = heard + n /\ chunks' = chunks + 1
       /\ \E s \in IF speech_started THEN {TRUE} ELSE HasSpeech(n) :
            /\ speech_started' = s
            /\ mark' = IF s /\ ~speech_started THEN [heard |-> heard, chunks |-> chunks]
                                               ELSE mark
            /\ vad_offset' = IF s THEN vad_offset ELSE vad_offset + ChunkTime(n)
            /\ pc' = IF s THEN "decode" ELSE "read"
  /\ UNCHANGED <<client_vars, written, status, rpc_vars, recognizer, last_transcript, res>>

\* Seeded fault: a Read that failed is tried again.
ReadNoMoreUnnoticed ==
  /\ pc = "read"
  /\ \/ ReadFails /\ UNCHANGED vars
     \/ /\ CanRead /\ ~IsAudio(Head(requests))
        /\ more_data' = FALSE /\ requests' = Tail(requests) /\ pc' = "finalize"
        /\ UNCHANGED <<client_vars, written, status, config, end_of_single_utterance, res,
                       result_index, processed_time, adaptation_state, left_context,
                       segment_vars, history>>

ReadNoMore ==
  /\ pc = "read"
  /\ ReadFails \/ (CanRead /\ ~IsAudio(Head(requests)))
  /\ more_data' = FALSE
  /\ requests' = IF CanRead THEN Tail(requests) ELSE requests
  /\ pc' = "finalize"
  /\ UNCHANGED <<client_vars, written, status, config, end_of_single_utterance, result_index,
                 processed_time, adaptation_state, left_context, segment_vars, res, history>>

\* Decode the chunk; stop at an endpoint; an interim result may be due, 350 ms
\* (of an unmodelled clock) after the last one.
DecodeChunk ==
  /\ pc = "decode"
  /\ \E r \in Decode(recognizer, ~more_data) :
       /\ recognizer' = r
       /\ \/ TRUE \in HasEndpoint(r) /\ pc' = "finalize"
          \/ FALSE \in HasEndpoint(r) /\ pc' = "read"
          \/ FALSE \in HasEndpoint(r) /\ config.interim_results /\ r.decoded
             /\ pc' = "interim"
  /\ UNCHANGED <<client_vars, requests, written, status, rpc_vars, segment_time, vad_offset,
                 speech_started, last_transcript, res, history>>

\* add_results() for an interim result, when the hypothesis has changed
InterimResult ==
  /\ pc = "interim"
  /\ \E cur_transcript \in Hypotheses :
       /\ last_transcript' = cur_transcript
       /\ \/ /\ cur_transcript = last_transcript
             /\ pc' = "read" /\ UNCHANGED <<res, status>>
          \/ /\ cur_transcript # last_transcript
             /\ \E o \in GetResults(recognizer, FALSE, config.punctuation) :
                  \/ o.kind = "throw" /\ Return("INTERNAL") /\ UNCHANGED res
                  \/ o.kind = "none" /\ pc' = "read" /\ UNCHANGED <<res, status>>
                  \/ /\ o.kind = "result"
                     /\ res' = Response("interim", o)
                     /\ pc' = "write_interim" /\ UNCHANGED status
  /\ UNCHANGED <<client_vars, requests, written, rpc_vars, recognizer, segment_time,
                 vad_offset, speech_started, history>>

WriteInterim ==
  /\ pc = "write_interim"
  /\ \/ Write(res) /\ pc' = "read" /\ UNCHANGED status
     \/ WriteFails /\ Return("CANCELLED") /\ UNCHANGED written
  /\ res' = NoResponse
  /\ UNCHANGED <<client_vars, requests, rpc_vars, segment_vars, history>>

\* Seeded fault: the utterance is finalised only when the input has ended.
FinalResultAwaitsEnd ==
  /\ pc = "finalize" /\ ~more_data
  /\ pc' = "advance" /\ adaptation_state' = GetAdaptationState(recognizer)
  /\ UNCHANGED <<client_vars, requests, written, status, config, more_data, processed_time,
                 end_of_single_utterance, result_index, left_context, segment_vars, res, history>>

\* The end of a segment: the adaptation state is taken over; if anything was decoded
\* there is a final response, which is empty when GetResults() returned FALSE.
FinalResult ==
  /\ pc = "finalize"
  /\ adaptation_state' = GetAdaptationState(recognizer)
  /\ \/ /\ ~recognizer.decoded
        /\ pc' = "advance"
        /\ UNCHANGED <<recognizer, left_context, res, status>>
     \/ /\ recognizer.decoded
        /\ \E o \in GetResults(recognizer, TRUE, config.punctuation) :
             \/ /\ o.kind = "throw"
                /\ Return("INTERNAL") /\ UNCHANGED <<recognizer, left_context, res>>
             \/ /\ o.kind # "throw"
                /\ recognizer' = [recognizer EXCEPT !.left_context = o.left_context]
                /\ left_context' = o.left_context
                /\ res' = Response(IF o.kind = "result" THEN "final" ELSE "empty", o)
                /\ pc' = "write_final" /\ UNCHANGED status
  /\ UNCHANGED <<client_vars, requests, written, config, more_data, end_of_single_utterance,
                 result_index, processed_time, segment_time, vad_offset, speech_started,
                 last_transcript, history>>

\* Seeded fault: end_of_single_utterance is never set.
WriteFinalGoesOn ==
  /\ pc = "write_final"
  /\ Write(res) /\ res' = NoResponse /\ pc' = "advance"
  /\ UNCHANGED <<client_vars, requests, status, rpc_vars, segment_vars, history>>

WriteFinal ==
  /\ pc = "write_final"
  /\ \/ /\ Write(res) /\ UNCHANGED status
        /\ end_of_single_utterance' = (config.single_utterance \/ end_of_single_utterance)
        /\ IF config.single_utterance
             THEN pc' = "write_event" /\ res' = Response("event", NoWords)
             ELSE pc' = "advance" /\ res' = NoResponse
     \/ /\ WriteFails /\ Return("CANCELLED")
        /\ res' = NoResponse /\ UNCHANGED <<written, end_of_single_utterance>>
  /\ UNCHANGED <<client_vars, requests, config, more_data, result_index, processed_time,
                 adaptation_state, left_context, segment_vars, history>>

WriteEvent ==
  /\ pc = "write_event"
  /\ \/ Write(res) /\ pc' = "advance" /\ UNCHANGED status
     \/ WriteFails /\ Return("CANCELLED") /\ UNCHANGED written
  /\ res' = NoResponse
  /\ UNCHANGED <<client_vars, requests, rpc_vars, segment_vars, history>>

\* Seeded fault: the time of the last segment replaces the sum.
AdvanceTimeForgets ==
  /\ pc = "advance"
  /\ processed_time' = segment_time
  /\ pc' = "segment"
  /\ UNCHANGED <<client_vars, requests, written, status, config, more_data, result_index,
                 end_of_single_utterance, adaptation_state, left_context, segment_vars, res,
                 history>>

AdvanceTime ==
  /\ pc = "advance"
  /\ processed_time' = processed_time + segment_time
  /\ pc' = "segment"
  /\ UNCHANGED <<client_vars, requests, written, status, config, more_data, result_index,
                 end_of_single_utterance, adaptation_state, left_context, segment_vars, res,
                 history>>

Server == \/ ConfigMissing \/ ReadConfig \/ BeginSegment \/ ReturnOk
          \/ ReadAudio \/ ReadNoMore \/ DecodeChunk \/ InterimResult \/ WriteInterim
          \/ FinalResult \/ WriteFinal \/ WriteEvent \/ AdvanceTime
-------------------------------------------------------------------------------
\* The client and the network

server_vars == <<pc, written, status, rpc_vars, segment_vars, res, history>>

ClientWrite(m) ==
  /\ client = "open" /\ status = "none" /\ n_sent < MaxRequests
  /\ requests' = Append(requests, m)
  /\ n_sent' = n_sent + 1
  /\ UNCHANGED <<client, n_read, server_vars>>

ClientWritesDone ==
  /\ client = "open" /\ status = "none"
  /\ client' = "half_closed"
  /\ UNCHANGED <<requests, n_sent, n_read, server_vars>>

ClientRead ==
  /\ client # "gone" /\ n_read < Len(written)
  /\ n_read' = n_read + 1
  /\ UNCHANGED <<client, requests, n_sent, server_vars>>

\* The call is cancelled or the connection lost: a prefix of what is in flight arrives.
ClientGone ==
  /\ client # "gone" /\ status = "none"
  /\ client' = "gone"
  /\ \E k \in 0 .. Len(requests) : requests' = SubSeq(requests, 1, k)
  /\ UNCHANGED <<n_sent, n_read, server_vars>>

Client == \/ \E m \in Requests : ClientWrite(m)
          \/ ClientWritesDone \/ ClientRead \/ ClientGone

\* The RPC has returned and the client has read what was written.
Finished ==
  /\ status # "none" /\ (client = "gone" \/ n_read = Len(written))
  /\ UNCHANGED vars

Next == Server \/ Client \/ Finished

Spec == Init /\ [][Next]_vars

\* The server thread is scheduled, and a client that stays keeps reading; nothing
\* obliges a client to send, to half-close or to leave.
Fairness == WF_vars(Server) /\ WF_vars(ClientRead)
FairSpec == Spec /\ Fairness
-------------------------------------------------------------------------------
\* Properties

Statuses == {"none", "OK", "CANCELLED", "INVALID_ARGUMENT", "INTERNAL"}
Places == {"start", "segment", "read", "decode", "interim", "write_interim", "finalize",
           "write_final", "write_event", "advance", "done"}

StreamType ==
  /\ client \in {"open", "half_closed", "gone"}
  /\ requests \in Seq(Requests)
  /\ n_sent \in 0 .. MaxRequests /\ n_read \in Nat
  /\ written \in Seq(Responses)

RpcType ==
  /\ config \in Configs \cup {BadConfig}
  /\ more_data \in BOOLEAN /\ end_of_single_utterance \in BOOLEAN
  /\ result_index \in Nat \cup {-1} /\ processed_time \in Nat
  /\ adaptation_state \in SUBSET Int /\ left_context \in Nat \cup {NoContext}

SegmentType ==
  /\ recognizer \in RecognizerType
  /\ segment_time \in Nat /\ vad_offset \in Nat
  /\ speech_started \in BOOLEAN /\ last_transcript \in Hypotheses

HistoryType == heard \in Nat /\ chunks \in Nat /\ mark \in [heard: Nat, chunks: Nat]

TypeOK ==
  /\ StreamType /\ RpcType /\ SegmentType /\ HistoryType
  /\ status \in Statuses /\ pc \in Places
  /\ res \in Responses \cup {NoResponse}

\* The responses keep the contract of StreamingProtocol: order of segments, one
\* closing response each, one offset each, the single_utterance protocol and the
\* status (add_results, the writes and the loop conditions of RunStreamingProcessor).
Protocol == INSTANCE StreamingProtocol WITH
  Configs <- Configs, BadConfig <- BadConfig,
  config <- config, written <- written, status <- status
KeepsProtocol == Protocol!Spec

\* The offset added to the word times of a response is where the audio of its segment
\* starts: never later, and earlier by less than a millisecond for each chunk read
\* before it, which ChunkTime() rounds down (processed_time, segment_time, vad_offset).
Lateness(w) == 1000 * w.start - SampleRate * w.offset
OffsetsTrackAudio ==
  \A i \in 1 .. Len(written) :
    Lateness(written[i]) \in 0 .. written[i].chunks * (SampleRate - 1)

\* The left context with which the next segment is punctuated is the last utterance
\* the client was sent, also across segments that gave no words (GetLeftContext).
Spoken == {i \in 1 .. Len(written) : written[i].kind = "final" /\ written[i].words}
LeftContextIsLastUtterance ==
  pc # "write_final" /\ status # "CANCELLED" =>
    \/ /\ left_context = NoContext
       /\ Spoken = {} \/ ~Punctuates(config.punctuation)
    \/ \E i \in Spoken :
         /\ Punctuates(config.punctuation)
         /\ left_context = written[i].seg /\ \A j \in Spoken : j <= i

\* In a punctuated stream the first utterance with words begins with a capital because
\* it is first, and no other response does, interim results included (GetResults).
OnlyFirstUtteranceOpens ==
  \A i \in 1 .. Len(written) :
    written[i].opens <=> /\ Punctuates(config.punctuation)
                         /\ i \in Spoken /\ \A j \in Spoken : i <= j

\* A client that half-closes or goes away frees the server thread: Read and Write
\* return, whatever state the loops are in.
RpcReturns == client # "open" ~> status # "none"

\* With single_utterance the RPC returns after the first utterance although the client
\* neither half-closes nor stops sending.
SingleUtteranceReturns ==
  (pc = "finalize" /\ config.single_utterance /\ recognizer.decoded) ~> status # "none"

\* The message at the head of the stream is read, or the RPC is over: the server never
\* waits for a client whose message is before it.
Taken == n_sent - Len(requests)
RequestsAreRead ==
  \A k \in 0 .. MaxRequests :
    (requests # <<>> /\ Taken = k) ~> (Taken > k \/ status # "none")
-------------------------------------------------------------------------------
\* What the repository says of the program and the code does otherwise

\* speech.proto: word times are relative to the beginning of the audio.  The offset
\* added to them is not the time at which the segment's audio begins.
OffsetsAreExact ==
  \A i \in 1 .. Len(written) :
    written[i].offset = (1000 * written[i].start) \div SampleRate

\* kaldi-model.cc: the i-vector read at start-up is where i-vector extraction begins.
\* No feature pipeline is ever given the adaptation state of its recognizer.
AdaptationIsUsed ==
  pc # "start" /\ recognizer.decoded => recognizer.adaptation \subseteq recognizer.pipeline
===============================================================================
