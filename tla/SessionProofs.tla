----------------------------- MODULE SessionProofs -----------------------------
(***************************************************************************)
(* Proofs about Session, for every set of models, configurations and       *)
(* responses and every capacity of the streams.                            *)
(*                                                                         *)
(* The invariant follows the chunks of the audio through the call: those   *)
(* the server has heard and those that are in the stream are together      *)
(* the chunks the client has written (InFlight); and it says what each     *)
(* place of the client's two threads guarantees (Threads).                 *)
(***************************************************************************)
EXTENDS Session, TLAPS

Streaming == opts.streaming

Threads ==
  /\ main \in {"start", "open", "config"} =>
       requests = <<>> /\ n_written = 0 /\ config = BadConfig /\ ~half_closed
  /\ main \in {"open", "config", "audio", "join"} => Streaming
  /\ main \in {"config", "audio"} => file.kind \in {"audio", "unreadable"}
  /\ main = "audio" => ~half_closed
  /\ n_written <= file.chunks
  /\ written # <<>> => config # BadConfig
  /\ main = "died" /\ config = BadConfig /\ ~Over => file.kind \in {"missing", "uri"}
  /\ main = "join" => half_closed
  /\ main = "finish" /\ Streaming => half_closed /\ reader = "done"
  /\ main = "exited" => exit_code # "none" /\ (Streaming => half_closed /\ reader = "done")
  /\ half_closed /\ Streaming => file.kind = "audio" /\ n_written = file.chunks
  /\ reader = "done" => Over /\ n_read = Len(written)
  /\ exit_code = "success" => main = "exited" /\ status = "OK"

\* What the server has taken out of the stream: the configuration, then chunks.
NumTaken == IF config = BadConfig THEN -1 ELSE Len(heard)

InFlight ==
  /\ config = BadConfig => heard = <<>>
  /\ Streaming /\ file.kind = "audio" /\ ~Over /\ main \notin {"start", "open", "config"} =>
       /\ NumTaken + Len(requests) = n_written
       /\ \A i \in 1 .. Len(heard) : heard[i] = i
       /\ \A i \in 1 .. Len(requests) : requests[i] = NumTaken + i
  /\ Streaming /\ status = "OK" =>
       /\ half_closed /\ Len(heard) = file.chunks
       /\ \A i \in 1 .. Len(heard) : heard[i] = i

ReadingType == server = "reading" => n_loaded < Len(KaldiModels)

SInv == TypeOK /\ ReadingType /\ Threads /\ InFlight
-------------------------------------------------------------------------------
\* Types

LEMMA ModelTypes ==
  ASSUME NEW dir \in DOMAIN FileSystem
  PROVE  FileSystem[dir].language \in Languages /\ FileSystem[dir].version \in Nat
BY ServerAssumption

LEMMA InitType == Init => TypeOK /\ ReadingType
<1> SUFFICES ASSUME Init PROVE TypeOK /\ ReadingType
  OBVIOUS
<1>1. ServerType
  BY ServerAssumption DEF Init, ServerInit, ServerType, NoModels
<1>2. ClientType
  <2>1. requests \in Seq(0 .. MaxChunks + 1) /\ Len(requests) <= WriteWindow
    <3>1. requests = <<>> /\ Len(<<>>) = 0 /\ <<>> \in Seq(0 .. MaxChunks + 1)
      BY DEF Init, ClientInit
    <3>2. QED
      BY <3>1, ClientAssumption
  <2>2. n_written \in 0 .. MaxChunks
    BY ClientAssumption DEF Init, ClientInit
  <2>3. QED
    BY <2>1, <2>2 DEF Init, ClientInit, ClientType
<1>3. TypeOK
  BY <1>1, <1>2 DEF Init, TypeOK, Contract!Init
<1>4. QED
  BY <1>3 DEF Init, ServerInit, ReadingType

\* The steps of the server's process.
LEMMA ServerTypeStep ==
  ASSUME ServerType, ReadingType, RunServer \/ EmbedServer \/ (\E b \in BOOLEAN : Stop(b))
  PROVE  ServerType' /\ ReadingType'
<1> USE DEF ServerType, ReadingType, registry_vars
<1>1. CASE ReadCertificates
  BY <1>1 DEF ReadCertificates
<1>2. CASE EnterModel
  BY <1>2 DEF EnterModel
<1>3. CASE ReadModel
  <2>1. cwd \in DOMAIN FileSystem /\ Len(KaldiModels) \in Nat
    BY ServerAssumption
  <2>2. Emplace(info_models, FileSystem[cwd].language, FileSystem[cwd].version)
          \in [Languages -> Nat]
    BY <2>1, ModelTypes DEF Emplace
  <2>3. info_models' \in [Languages -> Nat] /\ n_loaded' \in 0 .. Len(KaldiModels)
    BY <1>3, <2>1, <2>2 DEF ReadModel
  <2>4. QED
    BY <1>3, <2>3 DEF ReadModel
<1>4. CASE ConstructServer
  BY <1>4 DEF ConstructServer
<1>5. CASE Start
  BY <1>5 DEF Start
<1>6. CASE WaitUnbound
  BY <1>6 DEF WaitUnbound
<1>7. ASSUME NEW l \in Languages, NEW v \in Versions, RegisterModel(l, v)
      PROVE  ServerType' /\ ReadingType'
  <2>1. v \in Nat
    BY ServerAssumption
  <2>2. models' \in [Languages -> Nat]
    BY <1>7, <2>1 DEF RegisterModel
  <2>3. calls' \in Seq([language: Languages, version: Nat, before: BOOLEAN])
    <3>1. [language |-> l, version |-> v, before |-> server = "ready"]
            \in [language: Languages, version: Nat, before: BOOLEAN]
      BY <2>1
    <3>2. QED
      BY <1>7, <3>1 DEF RegisterModel
  <2>4. QED
    BY <1>7, <2>2, <2>3 DEF RegisterModel
<1>8. CASE Shutdown
  BY <1>8 DEF Shutdown
<1>9. ASSUME NEW b \in BOOLEAN, Stop(b) PROVE ServerType' /\ ReadingType'
  BY <1>9 DEF Stop
<1>10. QED
  BY <1>1, <1>2, <1>3, <1>4, <1>5, <1>6, <1>7, <1>8, <1>9 DEF RunServer, EmbedServer

\* A message may be appended to the stream while there is room.
LEMMA WriteType ==
  ASSUME ClientType, NEW m \in 0 .. MaxChunks + 1, NEW b, NEW c, Write(m, b, c)
  PROVE  requests' \in Seq(0 .. MaxChunks + 1) /\ Len(requests') <= WriteWindow
<1>1. WriteWindow \in Nat /\ Len(requests) \in Nat
  BY ClientAssumption DEF ClientType
<1>2. CASE requests' = Append(requests, m) /\ Len(requests) < WriteWindow
  <2>1. Len(requests') = Len(requests) + 1
    BY <1>2 DEF ClientType
  <2>2. QED
    BY <1>1, <1>2, <2>1 DEF ClientType
<1>3. CASE UNCHANGED requests
  BY <1>3 DEF ClientType
<1>4. QED
  BY <1>2, <1>3 DEF Write

LEMMA FileType ==
  ASSUME file \in Files
  PROVE  /\ file.chunks \in 0 .. MaxChunks /\ MaxChunks \in Nat
         /\ file.kind \in {"audio", "missing", "unreadable", "uri"}
BY ClientAssumption DEF Files

LEMMA MainTypeStep ==
  ASSUME ClientType, Threads, RunMain
  PROVE  ClientType'
<1> USE DEF ClientType
<1>0. file.chunks \in 0 .. MaxChunks /\ MaxChunks \in Nat
  BY FileType
<1>1. CASE StartUnary
  <2>1. requests' \in Seq(0 .. MaxChunks + 1) /\ Len(requests') <= WriteWindow
    <3>1. CASE requests' = Append(requests, 0)
      <4>1. requests' = <<0>> /\ 0 \in 0 .. MaxChunks + 1
        BY <1>0, <1>1, <3>1 DEF StartUnary, Threads
      <4>2. QED
        BY <4>1, ClientAssumption
    <3>2. QED
      BY <1>1, <3>1 DEF StartUnary
  <2>2. QED
    BY <1>1, <2>1 DEF StartUnary, Exit
<1>2. CASE StartStreaming
  BY <1>2 DEF StartStreaming, channel_vars
<1>3. CASE OpenFile
  BY <1>3 DEF OpenFile, ReturnUnjoined, channel_vars
<1>4. CASE WriteConfig(Accepting /\ Connected, Over)
  <2>1. requests' \in Seq(0 .. MaxChunks + 1) /\ Len(requests') <= WriteWindow
    <3>1. 0 \in 0 .. MaxChunks + 1
      BY <1>0
    <3>2. QED
      BY <1>4, <3>1, WriteType DEF WriteConfig
  <2>2. QED
    BY <1>4, <2>1 DEF WriteConfig, ReturnUnjoined
<1>5. CASE WriteChunk(Serving, Over)
  <2>1. CASE UNCHANGED <<requests, n_written>>
    BY <1>5, <2>1 DEF WriteChunk, ReturnUnjoined
  <2>2. CASE ~UNCHANGED <<requests, n_written>>
    <3>1. n_written' \in 0 .. MaxChunks
      BY <1>0, <1>5 DEF WriteChunk, MoreChunks
    <3>2. PICK m \in 0 .. MaxChunks + 1 : Write(m, Serving, Over)
      BY <1>0, <1>5, <2>2 DEF WriteChunk, MoreChunks
    <3>3. requests' \in Seq(0 .. MaxChunks + 1) /\ Len(requests') <= WriteWindow
      BY <3>2, WriteType
    <3>4. QED
      BY <1>5, <2>2, <3>1, <3>3 DEF WriteChunk
  <2>3. QED
    BY <2>1, <2>2
<1>6. CASE WritesDone \/ Join
  BY <1>6 DEF WritesDone, Join, channel_vars
<1>7. CASE FinishUnary(status) \/ Finish(status)
  BY <1>7 DEF FinishUnary, Finish, Exit, channel_vars
<1>8. QED
  BY <1>1, <1>2, <1>3, <1>4, <1>5, <1>6, <1>7 DEF RunMain

LEMMA HeadTail ==
  ASSUME NEW T, NEW q \in Seq(T), q # <<>>
  PROVE  /\ Head(q) = q[1] /\ Head(q) \in T
         /\ Tail(q) \in Seq(T) /\ Len(Tail(q)) = Len(q) - 1 /\ Len(q) \in Nat \ {0}
         /\ \A i \in 1 .. Len(Tail(q)) : Tail(q)[i] = q[i + 1]
OBVIOUS

\* The server takes the first message of the stream.
LEMMA TailType ==
  ASSUME ClientType, requests # <<>>
  PROVE  /\ Head(requests) \in 0 .. MaxChunks + 1
         /\ Tail(requests) \in Seq(0 .. MaxChunks + 1) /\ Len(Tail(requests)) <= WriteWindow
         /\ Len(Tail(requests)) = Len(requests) - 1
         /\ \A i \in 1 .. Len(Tail(requests)) : Tail(requests)[i] = requests[i + 1]
         /\ Head(requests) = requests[1] /\ Len(requests) \in Nat \ {0}
<1>1. requests \in Seq(0 .. MaxChunks + 1) /\ WriteWindow \in Nat /\ Len(requests) <= WriteWindow
  BY ClientAssumption DEF ClientType
<1> DEFINE T == 0 .. MaxChunks + 1
<1>2. requests \in Seq(T)
  BY <1>1
<1> HIDE DEF T
<1>3. /\ Head(requests) = requests[1] /\ Head(requests) \in T
      /\ Tail(requests) \in Seq(T) /\ Len(Tail(requests)) = Len(requests) - 1
      /\ Len(requests) \in Nat \ {0}
      /\ \A i \in 1 .. Len(Tail(requests)) : Tail(requests)[i] = requests[i + 1]
  BY <1>2, HeadTail
<1>4. Len(Tail(requests)) <= WriteWindow
  BY <1>1, <1>3
<1>5. QED
  BY <1>3, <1>4 DEF T

LEMMA CallTypeStep ==
  ASSUME TypeOK, ServeCall \/ ConnectionLost
  PROVE  TypeOK'
<1> USE DEF TypeOK
<1>0. UNCHANGED server_vars => ServerType'
  BY DEF ServerType, server_vars, registry_vars
<1>1. ASSUME requests' \in Seq(0 .. MaxChunks + 1), Len(requests') <= WriteWindow,
             UNCHANGED <<opts, file, thread_vars, n_written, half_closed, n_read>>
      PROVE  ClientType'
  BY <1>1 DEF ClientType, thread_vars
<1>2. UNCHANGED client_vars => ClientType'
  BY DEF ClientType, client_vars, thread_vars, channel_vars
<1>3. <<>> \in Seq(0 .. MaxChunks + 1) /\ Len(<<>>) <= WriteWindow
  BY ClientAssumption
<1>4. CASE AcceptCall
  <2>1. ServerType' /\ ClientType'
    BY <1>0, <1>1, <1>4, TailType DEF AcceptCall
  <2>2. opts \in ClientConfigs
    BY DEF ClientType
  <2>3. CASE Contract!Accept(opts)
    BY <1>4, <2>1, <2>2, <2>3 DEF AcceptCall, Contract!Accept
  <2>4. CASE Contract!ReturnStatus("INVALID_ARGUMENT")
    BY <1>4, <2>1, <2>4 DEF AcceptCall, Contract!ReturnStatus, Contract!Statuses
  <2>5. QED
    BY <1>4, <2>3, <2>4 DEF AcceptCall
<1>5. CASE CallUnavailable
  BY <1>0, <1>1, <1>3, <1>5 DEF CallUnavailable
<1>6. CASE ReturnUnary
  BY <1>0, <1>2, <1>6 DEF ReturnUnary, Contract!Statuses
<1>7. CASE ReadChunk
  <2>1. ServerType' /\ ClientType'
    BY <1>0, <1>1, <1>7, TailType DEF ReadChunk
  <2>2. heard' \in Seq(0 .. MaxChunks + 1)
    <3>1. Head(requests) \in 0 .. MaxChunks + 1
      BY <1>7, TailType DEF ReadChunk
    <3>2. CASE heard' = <<Head(requests)>>
      BY <3>1, <3>2
    <3>3. CASE heard' = Append(heard, Head(requests))
      BY <3>1, <3>3
    <3>4. QED
      BY <1>7, <3>2, <3>3 DEF ReadChunk
  <2>3. QED
    BY <1>7, <2>1, <2>2 DEF ReadChunk
<1>8. ASSUME NEW r \in Responses, Decide(r) PROVE TypeOK'
  BY <1>0, <1>2, <1>8 DEF Decide
<1>9. CASE WriteAnswer
  <2>1. written' \in Seq(Responses) /\ UNCHANGED <<config, status>>
    BY <1>9 DEF WriteAnswer, Writing, Contract!Interim, Contract!Settle
  <2>2. QED
    BY <1>0, <1>2, <1>9, <2>1 DEF WriteAnswer
<1>10. CASE ReturnStatus
  BY <1>0, <1>2, <1>10 DEF ReturnStatus, Contract!ReturnStatus, Contract!Statuses
<1>11. CASE CallAbandoned
  <2>1. ServerType' /\ ClientType'
    BY <1>0, <1>1, <1>3, <1>11 DEF CallAbandoned
  <2>2. QED
    BY <1>11, <2>1 DEF CallAbandoned, Contract!ReturnStatus, Contract!Statuses
<1>12. CASE ConnectionLost
  BY <1>0, <1>1, <1>3, <1>12 DEF ConnectionLost
<1>13. QED
  BY <1>4, <1>5, <1>6, <1>7, <1>8, <1>9, <1>10, <1>11, <1>12 DEF ServeCall

LEMMA TypeStep ==
  ASSUME TypeOK, ReadingType, Threads, [Next]_vars
  PROVE  TypeOK' /\ ReadingType'
<1>0. UNCHANGED server_vars => ReadingType' /\ ServerType'
  BY DEF ReadingType, server_vars, registry_vars, TypeOK, ServerType
<1>1. ClientType /\ ServerType
  BY DEF TypeOK
<1>2. CASE ServeCall \/ ConnectionLost
  <2>1. UNCHANGED server_vars
    BY <1>2 DEF ServeCall, AcceptCall, CallUnavailable, ReturnUnary, ReadChunk, Decide,
                WriteAnswer, ReturnStatus, CallAbandoned, ConnectionLost
  <2>2. QED
    BY <1>0, <1>2, <2>1, CallTypeStep
<1>3. CASE RunMain
  BY <1>0, <1>1, <1>3, MainTypeStep DEF RunMain, TypeOK, call_vars
<1>4. CASE RunReader
  <2>1. ClientType'
    <3>1. ASSUME ReaderStarts(written, status) \/ ReaderEnds(written, status)
          PROVE  ClientType'
      BY <1>1, <3>1 DEF ReaderStarts, ReaderEnds, ClientType, channel_vars
    <3>2. ASSUME ReadResponse(written) PROVE ClientType'
      BY <1>1, <3>2 DEF ReadResponse, ReturnUnjoined, ClientType, channel_vars, thread_vars
    <3>3. QED
      BY <1>4, <3>1, <3>2 DEF RunReader
  <2>2. QED
    BY <1>0, <1>4, <2>1 DEF RunReader, TypeOK, call_vars
<1>5. CASE RunServerProcess \/ Embedding
  <2>1. ServerType' /\ ReadingType'
    <3>1. ASSUME NEW b, Stop(b) PROVE \E c \in BOOLEAN : Stop(c)
      BY <3>1 DEF Stop
    <3>2. QED
      BY <1>1, <1>5, <3>1, ServerTypeStep DEF RunServerProcess, Embedding
  <2>2. QED
    BY <1>1, <1>5, <2>1
    DEF RunServerProcess, Embedding, TypeOK, ClientType, client_vars, thread_vars,
        channel_vars, call_vars
<1>6. CASE UNCHANGED vars
  BY <1>0, <1>6 DEF vars, TypeOK, ClientType, client_vars, thread_vars, channel_vars, call_vars
<1>7. QED
  BY <1>2, <1>3, <1>4, <1>5, <1>6 DEF Next, Finished
-------------------------------------------------------------------------------
\* The threads of the client

LEMMA ThreadsStep ==
  ASSUME TypeOK, Threads, InFlight, [Next]_vars
  PROVE  Threads'
<1> USE DEF Threads, Streaming, Over
<1>1. CASE AcceptCall
  <2>1. main \notin {"start", "open", "config"} /\ ~Over
    BY <1>1 DEF AcceptCall
  <2>2. UNCHANGED <<written, half_closed, opts, n_written, n_read, main, reader, exit_code, file>>
    BY <1>1 DEF AcceptCall, thread_vars, Contract!Accept, Contract!ReturnStatus
  <2>3. config = BadConfig /\ (config' = config => status' # "none")
    BY <1>1, SessionAssumption
    DEF AcceptCall, Contract!Accept, Contract!ReturnStatus, TypeOK, ClientType
  <2>4. QED
    BY <2>1, <2>2, <2>3
<1>2. CASE CallUnavailable
  BY <1>2 DEF CallUnavailable, thread_vars
<1>3. CASE ReturnUnary
  BY <1>3 DEF ReturnUnary, client_vars, thread_vars, channel_vars
<1>4. CASE ReadChunk
  BY <1>4 DEF ReadChunk, Streams, thread_vars
<1>5. ASSUME NEW r \in Responses, Decide(r) PROVE Threads'
  BY <1>5 DEF Decide, client_vars, thread_vars, channel_vars
<1>6. CASE WriteAnswer
  BY <1>6 DEF WriteAnswer, Streams, client_vars, thread_vars, channel_vars, Contract!Interim,
              Contract!Settle
<1>7. CASE ReturnStatus
  BY <1>7 DEF ReturnStatus, Streams, client_vars, thread_vars, channel_vars,
              Contract!ReturnStatus
<1>8. CASE CallAbandoned
  BY <1>8 DEF CallAbandoned, thread_vars, Gone, Contract!ReturnStatus
<1>9. CASE ConnectionLost
  BY <1>9 DEF ConnectionLost, thread_vars
<1>10. CASE RunMain
  <2> USE DEF call_vars
  <2>1. CASE StartUnary
    BY <1>10, <2>1 DEF RunMain, StartUnary, Exit, thread_vars
  <2>2. CASE StartStreaming
    BY <1>10, <2>2 DEF RunMain, StartStreaming, channel_vars
  <2>3. CASE OpenFile
    <3>1. file.kind \in {"audio", "missing", "unreadable", "uri"}
      BY FileType DEF TypeOK, ClientType
    <3>2. QED
      BY <1>10, <2>3, <3>1 DEF RunMain, OpenFile, ReturnUnjoined, channel_vars
  <2>4. CASE WriteConfig(Accepting /\ Connected, Over)
    BY <1>10, <2>4 DEF RunMain, WriteConfig, WriteFails, ReturnUnjoined
  <2>5. CASE WriteChunk(Serving, Over)
    <3>1. n_written' <= file.chunks
      BY <2>5, FileType DEF WriteChunk, MoreChunks, TypeOK, ClientType
    <3>2. QED
      BY <1>10, <2>5, <3>1 DEF RunMain, WriteChunk, WriteFails, ReturnUnjoined
  <2>6. CASE WritesDone
    <3>1. file.chunks \in Nat /\ n_written \in Nat /\ n_written <= file.chunks
      BY FileType DEF TypeOK, ClientType
    <3>2. file.kind = "audio" /\ n_written = file.chunks
      BY <2>6, <3>1 DEF WritesDone, MoreChunks
    <3>3. QED
      BY <1>10, <2>6, <3>2 DEF RunMain, WritesDone
  <2>7. CASE Join
    BY <1>10, <2>7 DEF RunMain, Join, channel_vars
  <2>8. CASE FinishUnary(status) \/ Finish(status)
    BY <1>10, <2>8 DEF RunMain, FinishUnary, Finish, Exit, channel_vars
  <2>9. QED
    BY <1>10, <2>1, <2>2, <2>3, <2>4, <2>5, <2>6, <2>7, <2>8 DEF RunMain
<1>11. CASE RunReader
  <2>1. CASE ReaderStarts(written, status)
    BY <1>11, <2>1 DEF RunReader, ReaderStarts, channel_vars, call_vars, Gone
  <2>2. CASE ReadResponse(written)
    <3>1. written # <<>>
      BY <2>2 DEF ReadResponse, TypeOK, ClientType
    <3>2. QED
      BY <1>11, <2>2, <3>1
      DEF RunReader, ReadResponse, ReturnUnjoined, channel_vars, thread_vars, call_vars, Gone
  <2>3. CASE ReaderEnds(written, status)
    BY <1>11, <2>3 DEF RunReader, ReaderEnds, channel_vars, call_vars, Gone
  <2>4. QED
    BY <1>11, <2>1, <2>2, <2>3 DEF RunReader
<1>12. CASE UNCHANGED <<client_vars, call_vars>>
  BY <1>12 DEF client_vars, thread_vars, channel_vars, call_vars
<1>13. QED
  BY <1>1, <1>2, <1>3, <1>4, <1>5, <1>6, <1>7, <1>8, <1>9, <1>10, <1>11, <1>12
  DEF Next, ServeCall, RunServerProcess, Embedding, Finished, vars
-------------------------------------------------------------------------------
\* The audio in flight

\* The client writes the next message.
LEMMA WriteNext ==
  ASSUME NEW T, NEW q \in Seq(T), NEW m \in T, NEW k \in Int,
         \A i \in 1 .. Len(q) : q[i] = k + i, m = k + Len(q) + 1,
         NEW q2, q2 = Append(q, m)
  PROVE  Len(q2) = Len(q) + 1 /\ \A i \in 1 .. Len(q2) : q2[i] = k + i
<1>1. /\ Len(q2) = Len(q) + 1 /\ Len(q) \in Nat /\ q2[Len(q) + 1] = m
      /\ \A i \in 1 .. Len(q) : q2[i] = q[i]
  OBVIOUS
<1>2. ASSUME NEW i \in 1 .. Len(q2) PROVE q2[i] = k + i
  <2>1. CASE i = Len(q) + 1
    BY <1>1, <2>1
  <2>2. CASE i # Len(q) + 1
    BY <1>1, <2>2
  <2>3. QED
    BY <2>1, <2>2
<1>3. QED
  BY <1>1, <1>2

Messages == 0 .. MaxChunks + 1

LEMMA InFlightStep ==
  ASSUME TypeOK, Threads, InFlight, [Next]_vars
  PROVE  InFlight'
<1> USE DEF InFlight, Streaming, Over, NumTaken
<1>0. /\ requests \in Seq(Messages) /\ heard \in Seq(Messages)
      /\ Len(requests) \in Nat /\ Len(heard) \in Nat /\ n_written \in Nat
      /\ file.chunks \in 0 .. MaxChunks /\ MaxChunks \in Nat
  BY FileType DEF TypeOK, ClientType, Messages
<1>1. CASE AcceptCall
  <2>1. /\ config = BadConfig /\ heard = <<>> /\ heard' = <<>> /\ status = "none"
        /\ requests # <<>> /\ requests' = Tail(requests)
        /\ main \notin {"start", "open", "config"}
        /\ UNCHANGED <<opts, file, main, n_written>>
    BY <1>1 DEF AcceptCall, thread_vars, Threads
  <2>2. CASE Contract!Accept(opts)
    <3>1. config' # BadConfig /\ status' = "none"
      BY <1>1, <2>2, SessionAssumption DEF AcceptCall, Contract!Accept, TypeOK, ClientType
    <3>2. ASSUME Streaming, file.kind = "audio"
          PROVE  /\ Len(requests') = n_written
                 /\ \A i \in 1 .. Len(requests') : requests'[i] = i
      <4>1. -1 + Len(requests) = n_written /\ \A i \in 1 .. Len(requests) : requests[i] = -1 + i
        BY <2>1, <3>2
      <4>2. /\ Len(requests') = Len(requests) - 1
            /\ \A i \in 1 .. Len(requests') : requests'[i] = requests[i + 1]
        BY <2>1, TailType DEF TypeOK
      <4>3. QED
        BY <1>0, <4>1, <4>2
    <3>3. Len(heard') = 0
      BY <2>1
    <3>4. QED
      BY <1>0, <2>1, <3>1, <3>2, <3>3
  <2>3. CASE Contract!ReturnStatus("INVALID_ARGUMENT")
    BY <2>1, <2>3 DEF Contract!ReturnStatus
  <2>4. QED
    BY <1>1, <2>2, <2>3 DEF AcceptCall
<1>2. CASE CallUnavailable \/ ReturnUnary
  BY <1>2 DEF CallUnavailable, ReturnUnary, client_vars, channel_vars
<1>3. CASE ReadChunk
  <2>1. /\ status = "none" /\ config # BadConfig /\ requests # <<>>
        /\ requests' = Tail(requests)
        /\ UNCHANGED <<opts, file, main, n_written, config, status>>
    BY <1>3 DEF ReadChunk, Streams, thread_vars
  <2>2. ASSUME file.kind = "audio", main \notin {"start", "open", "config"}, Streaming
        PROVE  /\ Len(heard') + Len(requests') = n_written
               /\ \A i \in 1 .. Len(heard') : heard'[i] = i
               /\ \A i \in 1 .. Len(requests') : requests'[i] = Len(heard') + i
    <3>1. heard' = Append(heard, Head(requests))
      BY <1>3, <2>2 DEF ReadChunk
    <3>2. /\ Len(heard) + Len(requests) = n_written
          /\ \A i \in 1 .. Len(heard) : heard[i] = i
          /\ \A i \in 1 .. Len(requests) : requests[i] = Len(heard) + i
      BY <2>1, <2>2
    <3>3. /\ Head(requests) = requests[1] /\ Head(requests) \in Messages
          /\ Len(requests') = Len(requests) - 1 /\ Len(requests) \in Nat \ {0}
          /\ \A i \in 1 .. Len(requests') : requests'[i] = requests[i + 1]
      BY <1>0, <2>1, HeadTail
    <3>4. /\ Len(heard') = Len(heard) + 1 /\ Len(heard) \in Nat
          /\ heard'[Len(heard) + 1] = requests[1]
          /\ \A i \in 1 .. Len(heard) : heard'[i] = heard[i]
      BY <1>0, <3>1, <3>3
    <3>5. ASSUME NEW i \in 1 .. Len(heard') PROVE heard'[i] = i
      <4>1. 1 \in 1 .. Len(requests)
        BY <3>3
      <4>2. requests[1] = Len(heard) + 1
        BY <3>2, <4>1
      <4>3. CASE i = Len(heard) + 1
        BY <3>4, <4>2, <4>3
      <4>4. CASE i # Len(heard) + 1
        BY <3>2, <3>4, <4>4
      <4>5. QED
        BY <4>3, <4>4
    <3>6. ASSUME NEW i \in 1 .. Len(requests') PROVE requests'[i] = Len(heard') + i
      <4>1. i + 1 \in 1 .. Len(requests) /\ i \in Nat
        BY <3>3
      <4>2. requests'[i] = Len(heard) + (i + 1)
        BY <3>2, <3>3, <4>1
      <4>3. QED
        BY <3>4, <4>1, <4>2
    <3>7. Len(heard') + Len(requests') = n_written
      BY <3>2, <3>3, <3>4
    <3>8. QED
      BY <3>5, <3>6, <3>7
  <2>3. QED
    BY <2>1, <2>2
<1>4. ASSUME NEW r \in Responses, Decide(r) PROVE InFlight'
  BY <1>4 DEF Decide, client_vars, thread_vars, channel_vars
<1>5. CASE WriteAnswer
  BY <1>5 DEF WriteAnswer, Streams, client_vars, thread_vars, channel_vars, Contract!Interim,
              Contract!Settle
<1>6. CASE ReturnStatus
  <2>1. /\ status = "none" /\ config # BadConfig
        /\ UNCHANGED <<client_vars, heard, config>> /\ status' # "none"
    BY <1>6 DEF ReturnStatus, Streams, Contract!ReturnStatus
  <2>2. ASSUME status' = "OK", Streaming
        PROVE  /\ half_closed /\ Len(heard) = file.chunks
               /\ \A i \in 1 .. Len(heard) : heard[i] = i
    <3>1. half_closed /\ requests = <<>>
      BY <1>6, <2>2 DEF ReturnStatus, Contract!ReturnStatus
    <3>2. file.kind = "audio" /\ n_written = file.chunks /\ main \notin {"start", "open", "config"}
      BY <2>2, <3>1 DEF Threads
    <3>3. Len(requests) = 0
      BY <3>1
    <3>4. QED
      BY <1>0, <2>1, <2>2, <3>1, <3>2, <3>3
  <2>3. QED
    BY <2>1, <2>2 DEF client_vars, channel_vars
<1>7. CASE CallAbandoned
  BY <1>7 DEF CallAbandoned, Contract!ReturnStatus
<1>8. CASE ConnectionLost
  BY <1>8 DEF ConnectionLost
<1>9. CASE RunMain
  <2> USE DEF call_vars
  <2>1. CASE StartUnary
    BY <1>9, <2>1 DEF RunMain, StartUnary, Exit
  <2>2. CASE StartStreaming
    BY <1>9, <2>2 DEF RunMain, StartStreaming, channel_vars
  <2>3. CASE OpenFile
    <3>1. file.kind = "audio" => main' = "config"
      BY <2>3 DEF OpenFile
    <3>2. QED
      BY <1>9, <2>3, <3>1 DEF RunMain, OpenFile, channel_vars
  <2>4. CASE WriteConfig(Accepting /\ Connected, Over)
    <3>1. /\ requests = <<>> /\ n_written = 0 /\ n_written' = 0 /\ config = BadConfig
          /\ heard = <<>> /\ ~half_closed
          /\ UNCHANGED <<opts, file, half_closed, config, heard, status>>
      BY <1>9, <2>4 DEF RunMain, WriteConfig, Threads
    <3>2. status = "none" => requests' = <<0>>
      BY <2>4, <3>1 DEF WriteConfig, Write, WriteFails
    <3>3. requests' = <<0>> => Len(requests') = 1 /\ requests'[1] = 0
      OBVIOUS
    <3>4. QED
      BY <3>1, <3>2, <3>3
  <2>5. CASE WriteChunk(Serving, Over)
    <3>1. /\ UNCHANGED <<opts, file, half_closed, config, heard, status>>
          /\ main = "audio" /\ ~half_closed
      BY <1>9, <2>5 DEF RunMain, WriteChunk, Threads
    <3>2. ASSUME status = "none", file.kind = "audio", Streaming
          PROVE  /\ NumTaken + Len(requests') = n_written'
                 /\ \A i \in 1 .. Len(requests') : requests'[i] = NumTaken + i
      <4>1. requests' = Append(requests, n_written + 1) /\ n_written' = n_written + 1
        BY <2>5, <3>2 DEF WriteChunk, Write, WriteFails
      <4>2. /\ NumTaken + Len(requests) = n_written /\ NumTaken \in Int
            /\ \A i \in 1 .. Len(requests) : requests[i] = NumTaken + i
        BY <1>0, <3>1, <3>2
      <4>3. n_written + 1 \in Messages
        BY <1>0, <2>5, <3>2 DEF WriteChunk, MoreChunks, Messages
      <4>4. n_written + 1 = NumTaken + Len(requests) + 1
        BY <1>0, <4>2
      <4> HIDE DEF NumTaken
      <4>5. /\ Len(requests') = Len(requests) + 1
            /\ \A i \in 1 .. Len(requests') : requests'[i] = NumTaken + i
        BY <1>0, <4>1, <4>2, <4>3, <4>4, WriteNext
      <4>6. QED
        BY <1>0, <4>1, <4>2, <4>5
    <3>3. QED
      BY <3>1, <3>2
  <2>6. CASE WritesDone \/ Join \/ FinishUnary(status) \/ Finish(status)
    BY <1>9, <2>6 DEF RunMain, WritesDone, Join, FinishUnary, Finish, Exit, channel_vars
  <2>7. QED
    BY <1>9, <2>1, <2>2, <2>3, <2>4, <2>5, <2>6 DEF RunMain
<1>10. CASE RunReader
  <2>1. /\ UNCHANGED <<opts, file, requests, n_written, half_closed, config, status, heard>>
        /\ main' \in {main, "died"}
    BY <1>10
    DEF RunReader, ReaderStarts, ReadResponse, ReaderEnds, ReturnUnjoined, channel_vars,
        thread_vars, call_vars
  <2>2. main' # main => config # BadConfig
    <3>1. main' # main => written # <<>>
      BY <1>10
      DEF RunReader, ReaderStarts, ReadResponse, ReaderEnds, TypeOK, ClientType, thread_vars
    <3>2. QED
      BY <3>1 DEF Threads
  <2>3. QED
    BY <2>1, <2>2 DEF Threads
<1>11. CASE UNCHANGED <<client_vars, call_vars>>
  BY <1>11 DEF client_vars, thread_vars, channel_vars, call_vars
<1>12. QED
  BY <1>1, <1>2, <1>3, <1>4, <1>5, <1>6, <1>7, <1>8, <1>9, <1>10, <1>11
  DEF Next, ServeCall, RunServerProcess, Embedding, Finished, vars
-------------------------------------------------------------------------------
\* The registry

LanguageOf(i) == FileSystem[KaldiModels[i]].language
VersionOf(i) == FileSystem[KaldiModels[i]].version

\* "version" is that of the first of the k first paths that has the language, or 0.
NamedFirst(version, l, k) ==
  \/ version = 0 /\ \A i \in 1 .. k : LanguageOf(i) # l
  \/ \E i \in 1 .. k : /\ LanguageOf(i) = l /\ version = VersionOf(i)
                       /\ \A j \in 1 .. k : LanguageOf(j) = l => i <= j

RegisteredBefore(l) == {i \in DOMAIN calls : calls[i].language = l /\ calls[i].before}

\* "version" is what a language should be served with.
IsRegistered(version, l) ==
  \/ \E i \in RegisteredBefore(l) :
       version = calls[i].version /\ \A j \in RegisteredBefore(l) : j <= i
  \/ RegisteredBefore(l) = {} /\ NamedFirst(version, l, Len(KaldiModels))

\* Between two models the process is where it was started; what is loaded is handed from
\* one registry to the next.
RegistryInv ==
  /\ server \in {"starting", "loading"} => cwd = <<>>
  /\ server = "reading" =>
       oldpwd = <<>> /\ n_loaded < Len(KaldiModels) /\ cwd = KaldiModels[n_loaded + 1]
  /\ server \in {"starting", "loading", "reading"} =>
       /\ calls = <<>>
       /\ \A l \in Languages : NamedFirst(info_models[l], l, n_loaded)
  /\ server = "ready" => /\ \A l \in Languages : IsRegistered(models[l], l)
                         /\ \A i \in DOMAIN calls : calls[i].before
  /\ Serving => \A l \in Languages : IsRegistered(service_models[l], l)

\* There is only one version that a language should be served with.
LEMMA RegisteredIsUnique ==
  ASSUME ServerType, NEW l, NEW version, IsRegistered(version, l)
  PROVE  version = Registered(l)
<1> DEFINE named == {i \in DOMAIN KaldiModels : LanguageOf(i) = l}
<1>1. calls \in Seq([language: Languages, version: Nat, before: BOOLEAN])
  BY DEF ServerType
<1>2. /\ DOMAIN KaldiModels = 1 .. Len(KaldiModels) /\ Len(KaldiModels) \in Nat
      /\ DOMAIN calls \subseteq Nat
  BY <1>1, ServerAssumption
<1>3. ASSUME NEW i \in RegisteredBefore(l), \A j \in RegisteredBefore(l) : j <= i
      PROVE  Max(RegisteredBefore(l)) = i
  <2>1. RegisteredBefore(l) \subseteq Nat
    BY <1>2 DEF RegisteredBefore
  <2>2. \A x \in RegisteredBefore(l) : (\A y \in RegisteredBefore(l) : x >= y) => x = i
    BY <1>3, <2>1
  <2>3. \A y \in RegisteredBefore(l) : i >= y
    BY <1>3, <2>1
  <2> HIDE DEF RegisteredBefore
  <2>4. QED
    BY <2>2, <2>3 DEF Max
<1>4. ASSUME NEW i \in named, \A j \in named : i <= j
      PROVE  Min(named) = i
  <2>1. named \subseteq Nat
    BY <1>2
  <2> HIDE DEF named
  <2>2. \A x \in named : (\A y \in named : x <= y) => x = i
    BY <1>4, <2>1
  <2>3. QED
    BY <1>4, <2>2 DEF Min
<1>5. Registered(l) =
        IF RegisteredBefore(l) # {} THEN calls[Max(RegisteredBefore(l))].version
        ELSE IF named # {} THEN VersionOf(Min(named)) ELSE 0
  BY DEF Registered, RegisteredBefore, LanguageOf, VersionOf
<1>6. CASE RegisteredBefore(l) # {}
  BY <1>3, <1>5, <1>6 DEF IsRegistered
<1>7. CASE RegisteredBefore(l) = {}
  <2>1. NamedFirst(version, l, Len(KaldiModels))
    BY <1>7 DEF IsRegistered
  <2>2. CASE named = {}
    <3>1. \A i \in 1 .. Len(KaldiModels) : LanguageOf(i) # l
      BY <1>2, <2>2
    <3>2. version = 0
      BY <2>1, <3>1 DEF NamedFirst
    <3>3. QED
      BY <1>5, <1>7, <2>2, <3>2
  <2>3. CASE named # {}
    <3>1. PICK i \in 1 .. Len(KaldiModels) :
            /\ LanguageOf(i) = l /\ version = VersionOf(i)
            /\ \A j \in 1 .. Len(KaldiModels) : LanguageOf(j) = l => i <= j
      BY <1>2, <2>1, <2>3 DEF NamedFirst
    <3>2. i \in named /\ \A j \in named : i <= j
      BY <1>2, <3>1
    <3>3. Min(named) = i
      BY <1>4, <3>2
    <3> HIDE DEF named
    <3>4. QED
      BY <1>5, <1>7, <2>3, <3>1, <3>3
  <2>4. QED
    BY <2>2, <2>3
<1>8. QED
  BY <1>6, <1>7

\* A model read is registered if it is the first one of its language.
LEMMA NamedNext ==
  ASSUME NEW l \in Languages, NEW map \in [Languages -> Nat], NEW k \in Nat,
         k < Len(KaldiModels), NamedFirst(map[l], l, k)
  PROVE  NamedFirst(Emplace(map, LanguageOf(k + 1), VersionOf(k + 1))[l], l, k + 1)
<1> DEFINE next == Emplace(map, LanguageOf(k + 1), VersionOf(k + 1))[l]
<1>1. ASSUME NEW i \in 1 .. Len(KaldiModels)
      PROVE  LanguageOf(i) \in Languages /\ VersionOf(i) \in Nat \ {0}
  BY ServerAssumption DEF LanguageOf, VersionOf
<1>2. k + 1 \in 1 .. Len(KaldiModels) /\ Len(KaldiModels) \in Nat
  BY ServerAssumption
<1>3. CASE map[l] = 0
  <2>1. \A i \in 1 .. k : LanguageOf(i) # l
    <3>1. \A i \in 1 .. k : VersionOf(i) # 0
      BY <1>1, <1>2
    <3>2. QED
      BY <1>3, <3>1 DEF NamedFirst
  <2>2. CASE LanguageOf(k + 1) = l
    <3>1. next = VersionOf(k + 1)
      BY <1>1, <1>2, <1>3, <2>2 DEF Emplace
    <3>2. \A j \in 1 .. k + 1 : LanguageOf(j) = l => j = k + 1
      BY <2>1
    <3>3. QED
      BY <1>2, <2>2, <3>1, <3>2 DEF NamedFirst
  <2>3. CASE LanguageOf(k + 1) # l
    <3>1. next = 0
      BY <1>1, <1>2, <1>3, <2>3 DEF Emplace
    <3>2. \A j \in 1 .. k + 1 : LanguageOf(j) # l
      BY <2>1, <2>3
    <3>3. QED
      BY <3>1, <3>2 DEF NamedFirst
  <2>4. QED
    BY <2>2, <2>3
<1>4. CASE map[l] # 0
  <2>1. next = map[l]
    BY <1>1, <1>2, <1>4 DEF Emplace
  <2>2. PICK i \in 1 .. k : /\ LanguageOf(i) = l /\ map[l] = VersionOf(i)
                            /\ \A j \in 1 .. k : LanguageOf(j) = l => i <= j
    BY <1>4 DEF NamedFirst
  <2>3. i \in 1 .. k + 1 /\ \A j \in 1 .. k + 1 : LanguageOf(j) = l => i <= j
    BY <2>2
  <2>4. QED
    BY <2>1, <2>2, <2>3 DEF NamedFirst
<1>5. QED
  BY <1>3, <1>4

\* A call of RegisterModel() decides for its language, if Start() has not been called.
LEMMA RegisterStep ==
  ASSUME ServerType, RegistryInv, NEW l \in Languages, NEW v \in Versions, RegisterModel(l, v)
  PROVE  RegistryInv'
<1> DEFINE n == Len(calls) + 1
           record == [language |-> l, version |-> v, before |-> server = "ready"]
           CallSet == [language: Languages, version: Nat, before: BOOLEAN]
<1>1. /\ server \in {"ready", "serving"} /\ calls' = Append(calls, record)
      /\ models' = [models EXCEPT ![l] = v] /\ UNCHANGED <<server, service_models>>
  BY DEF RegisterModel
<1>2. calls \in Seq(CallSet) /\ record \in CallSet
  BY ServerAssumption DEF ServerType
<1> HIDE DEF CallSet
<1>3. /\ DOMAIN calls = 1 .. Len(calls) /\ Len(calls) \in Nat /\ n \notin DOMAIN calls
      /\ DOMAIN calls' = DOMAIN calls \cup {n} /\ calls'[n] = record
      /\ \A i \in DOMAIN calls : calls'[i] = calls[i] /\ i < n
  BY <1>1, <1>2
<1>4. ASSUME NEW k \in Languages
      PROVE  RegisteredBefore(k)' = RegisteredBefore(k)
                                     \cup (IF k = l /\ server = "ready" THEN {n} ELSE {})
  <2>1. calls'[n].language = l /\ calls'[n].before = (server = "ready")
    BY <1>3
  <2>2. \A i : i \in RegisteredBefore(k)' <=>
                 \/ i \in RegisteredBefore(k)
                 \/ i = n /\ k = l /\ server = "ready"
    BY <1>3, <2>1 DEF RegisteredBefore
  <2>3. QED
    BY <2>2
<1>5. ASSUME NEW k \in Languages, NEW w, IsRegistered(w, k), k # l \/ server # "ready"
      PROVE  IsRegistered(w, k)'
  <2>1. RegisteredBefore(k)' = RegisteredBefore(k)
    BY <1>4, <1>5
  <2>2. RegisteredBefore(k) \subseteq DOMAIN calls
    BY DEF RegisteredBefore
  <2>3. \A i \in RegisteredBefore(k) : calls'[i] = calls[i]
    BY <1>3, <2>2
  <2>4. NamedFirst(w, k, Len(KaldiModels))' <=> NamedFirst(w, k, Len(KaldiModels))
    BY DEF NamedFirst
  <2>5. QED
    BY <1>5, <2>1, <2>3, <2>4 DEF IsRegistered
<1>6. CASE server = "ready"
  <2>1. IsRegistered(v, l)'
    <3>1. RegisteredBefore(l)' = RegisteredBefore(l) \cup {n}
      BY <1>4, <1>6
    <3>2. RegisteredBefore(l) \subseteq DOMAIN calls
      BY DEF RegisteredBefore
    <3>3. n \in Nat /\ \A j \in RegisteredBefore(l)' : j <= n
      BY <1>3, <3>1, <3>2
    <3>4. calls'[n].version = v
      BY <1>3
    <3>5. QED
      BY <3>1, <3>3, <3>4 DEF IsRegistered
  <2>2. ASSUME NEW k \in Languages, NEW w, w = models'[k] PROVE IsRegistered(w, k)'
    <3>1. CASE k = l
      <4>1. w = v
        BY <1>1, <2>2, <3>1 DEF ServerType
      <4>2. QED
        BY <2>1, <3>1, <4>1
    <3>2. CASE k # l
      <4>1. w = models[k]
        BY <1>1, <2>2, <3>2 DEF ServerType
      <4>2. IsRegistered(w, k)
        BY <1>6, <4>1 DEF RegistryInv
      <4>3. QED
        BY <1>5, <3>2, <4>2
    <3>3. QED
      BY <3>1, <3>2
  <2>3. ASSUME NEW i \in DOMAIN calls' PROVE calls'[i].before
    <3>1. CASE i = n
      <4>1. calls'[i].before = (server = "ready")
        BY <1>3, <3>1
      <4>2. QED
        BY <1>6, <4>1
    <3>2. CASE i # n
      <4>1. i \in DOMAIN calls /\ calls'[i] = calls[i]
        BY <1>3, <3>2
      <4>2. QED
        BY <1>6, <4>1 DEF RegistryInv
    <3>3. QED
      BY <3>1, <3>2
  <2>4. \A k \in Languages : IsRegistered(models[k], k)'
    BY <2>2 DEF IsRegistered, RegisteredBefore
  <2>5. QED
    BY <1>1, <1>6, <2>3, <2>4 DEF RegistryInv, Serving
<1>7. CASE server = "serving"
  <2>1. ASSUME NEW k \in Languages, NEW w, w = service_models'[k] PROVE IsRegistered(w, k)'
    <3>1. IsRegistered(w, k)
      BY <1>1, <1>7, <2>1 DEF RegistryInv, Serving
    <3>2. QED
      BY <1>5, <1>7, <3>1
  <2>2. \A k \in Languages : IsRegistered(service_models[k], k)'
    BY <2>1 DEF IsRegistered, RegisteredBefore
  <2>3. QED
    BY <1>1, <1>7, <2>2 DEF RegistryInv, Serving
<1>8. QED
  BY <1>1, <1>6, <1>7

LEMMA RegistryStep ==
  ASSUME ServerType, RegistryInv, RunServer \/ EmbedServer \/ (\E b : Stop(b))
  PROVE  RegistryInv'
<1> USE DEF RegistryInv, registry_vars, Serving
<1>0. /\ \A l \in Languages, k \in Nat : \A v : NamedFirst(v, l, k)' <=> NamedFirst(v, l, k)
      /\ UNCHANGED calls => \A l, v : IsRegistered(v, l)' <=> IsRegistered(v, l)
  BY DEF NamedFirst, IsRegistered, RegisteredBefore
<1>00. n_loaded \in Nat /\ Len(KaldiModels) \in Nat
  BY ServerAssumption DEF ServerType
<1>1. CASE ReadCertificates
  BY <1>0, <1>00, <1>1 DEF ReadCertificates
<1>2. CASE EnterModel
  <2>1. CASE server' = "reading"
    <3>1. /\ server = "loading" /\ cwd = <<>> /\ n_loaded < Len(KaldiModels)
          /\ cwd' = cwd \o KaldiModels[n_loaded + 1] /\ oldpwd' = cwd
      BY <1>2, <2>1 DEF EnterModel
    <3>2. KaldiModels[n_loaded + 1] \in Seq(STRING)
      BY <1>00, <3>1, ServerAssumption
    <3>3. cwd' = KaldiModels[n_loaded + 1]
      BY <3>1, <3>2
    <3>4. QED
      BY <1>0, <1>00, <1>2, <2>1, <3>1, <3>3 DEF EnterModel
  <2>2. CASE server' = "failed"
    BY <1>2, <2>2 DEF EnterModel
  <2>3. QED
    BY <1>2, <2>1, <2>2 DEF EnterModel
<1>3. CASE ReadModel
  <2>1. CASE server' = "loading"
    <3>1. /\ server = "reading" /\ cwd = KaldiModels[n_loaded + 1] /\ cwd' = <<>>
          /\ n_loaded < Len(KaldiModels) /\ n_loaded' = n_loaded + 1 /\ calls = <<>>
          /\ info_models' = Emplace(info_models, LanguageOf(n_loaded + 1),
                                    VersionOf(n_loaded + 1))
          /\ UNCHANGED calls
      BY <1>3, <2>1 DEF ReadModel, LanguageOf, VersionOf
    <3>2. ASSUME NEW l \in Languages PROVE NamedFirst(info_models'[l], l, n_loaded')
      BY <1>00, <3>1, NamedNext DEF ServerType
    <3>3. QED
      BY <1>0, <1>00, <2>1, <3>1, <3>2
  <2>2. CASE server' = "failed"
    BY <2>2
  <2>3. QED
    BY <1>3, <2>1, <2>2 DEF ReadModel
<1>4. CASE ConstructServer
  <2>1. /\ server = "loading" /\ server' = "ready" /\ calls = <<>> /\ UNCHANGED calls
        /\ models' = info_models /\ n_loaded = Len(KaldiModels)
    BY <1>4 DEF ConstructServer
  <2>2. DOMAIN calls = {} /\ \A l : RegisteredBefore(l) = {}
    BY <2>1 DEF RegisteredBefore
  <2>3. \A l \in Languages : IsRegistered(models'[l], l)
    BY <2>1, <2>2 DEF IsRegistered
  <2>4. QED
    BY <1>0, <2>1, <2>2, <2>3
<1>5. CASE Start
  BY <1>0, <1>5 DEF Start
<1>6. CASE WaitUnbound
  BY <1>6 DEF WaitUnbound
<1>7. ASSUME NEW l \in Languages, NEW v \in Versions, RegisterModel(l, v) PROVE RegistryInv'
  BY <1>7, RegisterStep
<1>8. CASE Shutdown
  BY <1>0, <1>8 DEF Shutdown
<1>9. ASSUME NEW b, Stop(b) PROVE RegistryInv'
  BY <1>9 DEF Stop
<1>10. QED
  BY <1>1, <1>2, <1>3, <1>4, <1>5, <1>6, <1>7, <1>8, <1>9 DEF RunServer, EmbedServer
-------------------------------------------------------------------------------
\* The theorems

\* The chunks heard, those in the stream and those written agree throughout a call.
THEOREM SessionInvariance == Spec => []SInv
<1>1. Init => SInv
  <2>1. ASSUME Init PROVE Threads /\ InFlight
    <3>1. file.chunks \in Nat
      BY <2>1, FileType DEF Init, ClientInit
    <3>2. QED
      BY <2>1, <3>1
      DEF Init, ClientInit, Contract!Init, Threads, InFlight, Streaming, Over
  <2>2. QED
    BY <2>1, InitType DEF SInv
<1>2. SInv /\ [Next]_vars => SInv'
  BY TypeStep, ThreadsStep, InFlightStep DEF SInv
<1>3. QED
  BY <1>1, <1>2, PTL DEF Spec

\* The registries of the server, the threads of the client and what is between them keep
\* their types; the stream to the server never holds more than its window.
THEOREM SessionTypeCorrect == Spec => []TypeOK
<1>1. SInv => TypeOK
  BY DEF SInv
<1>2. QED
  BY <1>1, SessionInvariance, PTL

\* A client that reports success has had all of its audio heard, in order and once, and
\* has read every response, however long the audio is, whatever the streams hold, and
\* whenever the server is shut down, refuses the call or loses the connection.
THEOREM SuccessIsHonest == Spec => []SuccessMeansHeard
<1>1. ASSUME SInv PROVE SuccessMeansHeard
  <2> SUFFICES ASSUME exit_code = "success"
               PROVE  /\ status = "OK"
                      /\ opts.streaming => /\ heard = [i \in 1 .. file.chunks |-> i]
                                           /\ n_read = Len(written)
    BY DEF SuccessMeansHeard
  <2>1. status = "OK" /\ main = "exited"
    BY <1>1 DEF SInv, Threads
  <2>2. ASSUME opts.streaming
        PROVE  heard = [i \in 1 .. file.chunks |-> i] /\ n_read = Len(written)
    <3>1. n_read = Len(written)
      BY <1>1, <2>1, <2>2 DEF SInv, Threads, Streaming
    <3>2. Len(heard) = file.chunks /\ \A i \in 1 .. Len(heard) : heard[i] = i
      BY <1>1, <2>1, <2>2 DEF SInv, InFlight, Streaming
    <3>3. heard \in Seq(0 .. MaxChunks + 1)
      BY <1>1 DEF SInv, TypeOK
    <3>4. QED
      BY <3>1, <3>2, <3>3
  <2>3. QED
    BY <2>1, <2>2
<1>2. QED
  BY <1>1, SessionInvariance, PTL

\* What the registries hold while models are loaded, registered and served.
THEOREM RegistryInvariance == Spec => []RegistryInv
<1>1. Init => RegistryInv
  <2> SUFFICES ASSUME Init PROVE RegistryInv
    OBVIOUS
  <2>1. server = "starting" /\ cwd = <<>> /\ calls = <<>> /\ n_loaded = 0 /\ info_models = NoModels
    BY DEF Init, ServerInit
  <2>2. \A l \in Languages : NamedFirst(info_models[l], l, n_loaded)
    BY <2>1 DEF NoModels, NamedFirst
  <2>3. QED
    BY <2>1, <2>2 DEF RegistryInv, Serving
<1>2. TypeOK /\ RegistryInv /\ [Next]_vars => RegistryInv'
  <2> SUFFICES ASSUME TypeOK, RegistryInv, [Next]_vars PROVE RegistryInv'
    OBVIOUS
  <2>1. CASE RunServerProcess \/ Embedding
    BY <2>1, RegistryStep DEF RunServerProcess, Embedding, TypeOK
  <2>2. CASE UNCHANGED server_vars
    BY <2>2 DEF server_vars, registry_vars, RegistryInv, Serving, NamedFirst, IsRegistered,
                RegisteredBefore
  <2>3. ASSUME [Next]_vars, ~RunServerProcess, ~Embedding PROVE UNCHANGED server_vars
    BY <2>3
    DEF Next, Finished, vars, ServeCall, AcceptCall, CallUnavailable, ReturnUnary, ReadChunk,
        Decide, WriteAnswer, ReturnStatus, CallAbandoned, ConnectionLost, RunMain, RunReader
  <2>4. QED
    BY <2>1, <2>2, <2>3
<1>3. QED
  BY <1>1, <1>2, SessionTypeCorrect, PTL DEF Spec

\* Whatever models the options name, whatever is registered and when, calls are answered
\* with the last model registered for their language before Start(), or the first named.
THEOREM RegisteredModelsServe == Spec => []ServiceModelsAreRegistered
<1>1. ASSUME TypeOK, RegistryInv PROVE ServiceModelsAreRegistered
  BY <1>1, RegisteredIsUnique DEF TypeOK, RegistryInv, ServiceModelsAreRegistered
<1>2. QED
  BY <1>1, RegistryInvariance, SessionTypeCorrect, PTL
===============================================================================
