-------------------------------- MODULE Session --------------------------------
(***************************************************************************)
(* A server, from its start to its shutdown, and one call of the example   *)
(* client to it: SpeechServer and Client composed.  What the server makes  *)
(* of a streaming call is the contract StreamingProtocol, which            *)
(* StreamingRecognize is shown to keep; here its actions are bound to the  *)
(* messages the client writes and to the room there is for responses.      *)
(***************************************************************************)
EXTENDS SpeechServer, Client

CONSTANTS Responses,   \* what the server can answer with
          BadConfig,   \* no configuration has been accepted
          MaxResponses \* bound: responses of a call

ASSUME SessionAssumption ==
  /\ MaxResponses \in Nat
  /\ BadConfig \notin ClientConfigs
  /\ \A c \in ClientConfigs : c.language \in Languages

VARIABLES
  config, written, status,  \* of the contract
  heard,                    \* the chunks the server has read, in order
  answer                    \* the response that is being written, or that one is due

call_vars == <<config, written, status, heard, answer>>
vars == <<server_vars, client_vars, call_vars>>

NoAnswer == [kind |-> "none"]
Due == [kind |-> "due"]
Writing == answer \notin {NoAnswer, Due}

Contract == INSTANCE StreamingProtocol WITH
  Configs <- ClientConfigs, BadConfig <- BadConfig,
  config <- config, written <- written, status <- status

Init ==
  /\ ServerInit /\ ClientInit /\ Contract!Init
  /\ heard = <<>> /\ answer = NoAnswer

Over == status # "none"
Connected == Serving /\ Admits(Channel)
Begun == requests # <<>> \/ config # BadConfig
-------------------------------------------------------------------------------
\* The server's half of the call

\* Validate() of the first message refuses a language without a model.
AcceptCall ==
  /\ Connected /\ ~Over /\ config = BadConfig /\ requests # <<>>
  /\ IF service_models[opts.language] # 0
       THEN Contract!Accept(opts) ELSE Contract!ReturnStatus("INVALID_ARGUMENT")
  /\ requests' = Tail(requests)
  /\ UNCHANGED <<server_vars, opts, file, thread_vars, n_written, half_closed, n_read, heard,
                 answer>>

\* There is no server to answer a unary call, which does not wait for one.
CallUnavailable ==
  /\ ~opts.streaming /\ ~Over /\ config = BadConfig /\ requests # <<>> /\ ~Connected
  /\ status' = "UNAVAILABLE" /\ requests' = <<>>
  /\ UNCHANGED <<server_vars, opts, file, thread_vars, n_written, half_closed, n_read, config,
                 written, heard, answer>>

\* Recognize: the audio is in the request.
ReturnUnary ==
  /\ ~opts.streaming /\ ~Over /\ config # BadConfig
  /\ status' \in {"OK", "INTERNAL", "INVALID_ARGUMENT"}
  /\ UNCHANGED <<server_vars, client_vars, config, written, heard, answer>>

Streams == opts.streaming /\ ~Over /\ config # BadConfig

ReadChunk ==
  /\ Streams /\ ~Writing /\ requests # <<>>
  /\ requests' = Tail(requests)
  /\ heard' = IF file.kind = "unreadable" THEN <<Head(requests)>>
                                          ELSE Append(heard, Head(requests))
  /\ answer' = Due
  /\ UNCHANGED <<server_vars, opts, file, thread_vars, n_written, half_closed, n_read, config,
                 written, status>>

\* The server has something to say, at most once of each chunk and of the end, and
\* writes it when there is room.
Decide(r) ==
  /\ Streams /\ heard # <<>> /\ Len(written) < MaxResponses
  /\ \/ answer = Due
     \/ half_closed /\ requests = <<>> /\ answer = NoAnswer /\ r.kind # "interim"
  /\ r.kind = "interim" => config.interim_results
  /\ Contract!Follows(r)
  /\ answer' = r
  /\ UNCHANGED <<server_vars, client_vars, config, written, status, heard>>

WriteAnswer ==
  /\ Streams /\ Writing
  /\ Len(written) - n_read < ReadWindow
  /\ Contract!Interim(answer) \/ Contract!Settle(answer)
  /\ answer' = NoAnswer
  /\ UNCHANGED <<server_vars, client_vars, heard>>

\* OK when all the audio has been read, INTERNAL at any time, CANCELLED if the client
\* has ended.
ReturnStatus ==
  /\ Streams
  /\ \/ half_closed /\ requests = <<>> /\ ~Writing /\ Contract!ReturnStatus("OK")
     \/ ~Writing /\ Contract!ReturnStatus("INTERNAL")
     \/ Gone /\ Contract!ReturnStatus("CANCELLED")
  /\ UNCHANGED <<server_vars, client_vars, heard, answer>>

\* A client that ends before its call is accepted leaves nothing to do.
CallAbandoned ==
  /\ ~Over /\ config = BadConfig /\ Gone
  /\ Contract!ReturnStatus("CANCELLED") /\ requests' = <<>>
  /\ UNCHANGED <<server_vars, opts, file, thread_vars, n_written, half_closed, n_read, heard,
                 answer>>

\* The connection is lost under a call: for a streaming call there is one from the start of
\* the thread that reads.
ConnectionLost ==
  /\ Connected /\ ~Over
  /\ IF opts.streaming THEN reader # "none" ELSE Begun
  /\ status' = "UNAVAILABLE" /\ requests' = <<>> /\ answer' = NoAnswer
  /\ UNCHANGED <<server_vars, opts, file, thread_vars, n_written, half_closed, n_read, config,
                 written, heard>>

ServeCall ==
  \/ AcceptCall \/ CallUnavailable \/ ReturnUnary \/ ReadChunk
  \/ (\E r \in Responses : Decide(r)) \/ WriteAnswer \/ ReturnStatus \/ CallAbandoned

\* The client's half

RunMain ==
  /\ \/ StartUnary \/ StartStreaming \/ OpenFile
     \/ WriteConfig(Accepting /\ Connected, Over) \/ WriteChunk(Serving, Over)
     \/ WritesDone \/ Join \/ FinishUnary(status) \/ Finish(status)
  /\ UNCHANGED <<server_vars, call_vars>>

RunReader ==
  /\ ReaderStarts(written, status) \/ ReadResponse(written) \/ ReaderEnds(written, status)
  /\ UNCHANGED <<server_vars, call_vars>>

RunServerProcess == RunServer /\ UNCHANGED <<client_vars, call_vars>>
Embedding ==
  /\ EmbedServer \/ Stop(Begun /\ ~Over)
  /\ UNCHANGED <<client_vars, call_vars>>

\* The server has ended, and the client with it or in vain.
Finished ==
  /\ server \in {"stopped", "failed", "crashed"}
  /\ (Gone /\ Over) \/ main = "config"
  /\ UNCHANGED vars

Next == ServeCall \/ ConnectionLost \/ RunMain \/ RunReader \/ RunServerProcess \/ Embedding \/ Finished

Spec == Init /\ [][Next]_vars

\* The threads of both processes run; whether a server is shut down, has models
\* registered, or can be started at all is up to others, and so is the connection.
Fairness ==
  /\ WF_vars(ServeCall) /\ WF_vars(RunMain) /\ WF_vars(RunReader)
FairSpec == Spec /\ Fairness
-------------------------------------------------------------------------------
\* Properties

TypeOK ==
  /\ ServerType /\ ClientType
  /\ config \in ClientConfigs \cup {BadConfig}
  /\ written \in Seq(Responses) /\ answer \in Responses \cup {NoAnswer, Due}
  /\ status \in Contract!Statuses \cup {"none", "UNAVAILABLE"}
  /\ heard \in Seq(0 .. MaxChunks + 1)

\* A client that reports success has had all its audio heard, in order, up to what does
\* not fill a chunk, has read every response, and the server returned OK.
SuccessMeansHeard ==
  exit_code = "success" =>
    /\ status = "OK"
    /\ opts.streaming => /\ heard = [i \in 1 .. file.chunks |-> i]
                         /\ n_read = Len(written)

\* A call that has reached the server ends, and its client with it: main() and the
\* server do not wait for each other's reads for ever, although both write into full
\* streams, because a thread of its own reads the responses.
ClientEnds == Begun /\ file.kind # "unreadable" ~> Gone
===============================================================================
