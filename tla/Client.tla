--------------------------------- MODULE Client ---------------------------------
(***************************************************************************)
(* The example client (src/bin/client_main.cc) and its half of one call.   *)
(* A unary call waits for the response.  A streaming call has two threads: *)
(* main() writes the configuration and the audio, and a thread reads the   *)
(* responses; they meet in join().                                         *)
(*                                                                         *)
(* The audio is counted in chunks of content_chunk_size_bytes.  The stream *)
(* holds a limited number of messages in each direction before Write       *)
(* blocks.  What the server does with the call is in the module Session,   *)
(* which composes this one with it: "call" is what the client can see.     *)
(***************************************************************************)
EXTENDS Integers, Sequences

CONSTANTS
  ClientConfigs, \* what the options and the configuration file can ask for
  MaxChunks,     \* bound: chunks the audio fills
  WriteWindow,   \* messages to the server the transport holds
  ReadWindow     \* responses it holds

ASSUME ClientAssumption ==
  /\ \A c \in ClientConfigs :
       /\ c.streaming \in BOOLEAN /\ c.interim_results \in BOOLEAN /\ c.json \in BOOLEAN
       /\ c.use_ssl \in BOOLEAN
       /\ c.single_utterance = FALSE
  /\ MaxChunks \in Nat /\ WriteWindow \in Nat \ {0} /\ ReadWindow \in Nat \ {0}

VARIABLES
  opts,       \* its configuration
  file,       \* kind of the audio file, and how many chunks it fills
  main,       \* where main() is; "exited" and "died" when the process has ended
  reader,     \* the thread: "none", "waiting", "reading" or "done"
  exit_code,  \* of the process: "none", "success" or "failure"
  requests,   \* messages written and not read by the server: 0 is the configuration
  n_written,  \* chunks main() has written
  half_closed, n_read

thread_vars == <<main, reader, exit_code>>
channel_vars == <<requests, n_written, half_closed>>
client_vars == <<opts, file, thread_vars, channel_vars, n_read>>

\* The kind is "audio", "missing", "unreadable" (it opens, read() fails without eof, as of
\* a directory) or "uri" (its name is the address of audio, and not of a file).
Files == [kind: {"audio"}, chunks: 0 .. MaxChunks]
           \cup [kind: {"missing", "unreadable", "uri"}, chunks: {0}]

ClientInit ==
  /\ opts \in ClientConfigs
  /\ file \in Files
  /\ main = "start" /\ reader = "none" /\ exit_code = "none"
  /\ requests = <<>> /\ n_written = 0 /\ half_closed = FALSE /\ n_read = 0

\* The client presents no certificate of its own.
Channel == IF opts.use_ssl THEN "tls" ELSE "insecure"

Exit(code) == main' = "exited" /\ exit_code' = code

\* A return with the thread unjoined: its destructor calls std::terminate().
ReturnUnjoined == main' = "died" /\ exit_code' = "failure"

Gone == main \in {"exited", "died"}
-------------------------------------------------------------------------------
\* The unary call

\* GetFileContents() throws what main() catches if the file cannot be read.
FileContents == file.kind = "audio"

\* A local file is read before the call; an address is sent as it is.
StartUnary ==
  /\ main = "start" /\ ~opts.streaming
  /\ IF file.kind = "uri" \/ FileContents
       THEN /\ requests' = Append(requests, 0) /\ half_closed' = TRUE
            /\ main' = "finish" /\ UNCHANGED exit_code
       ELSE Exit("failure") /\ UNCHANGED <<requests, half_closed>>
  /\ UNCHANGED <<opts, file, reader, n_written, n_read>>
-------------------------------------------------------------------------------
\* The streaming call: main()

\* The thread is started first, then the file is opened.
StartStreaming ==
  /\ main = "start" /\ opts.streaming
  /\ reader' = "waiting"
  /\ main' = "open"
  /\ UNCHANGED <<opts, file, exit_code, channel_vars, n_read>>

OpenFile ==
  /\ main = "open"
  /\ IF file.kind \in {"missing", "uri"} THEN ReturnUnjoined
                                       ELSE main' = "config" /\ UNCHANGED exit_code
  /\ UNCHANGED <<opts, file, reader, channel_vars, n_read>>

\* Write(): blocks until the message is taken, which with wait_for_ready needs a server,
\* and for room.  It fails once the call is over, though not necessarily at once.
Write(m, reachable, over) ==
  \/ reachable /\ ~over /\ Len(requests) < WriteWindow /\ requests' = Append(requests, m)
  \/ over /\ UNCHANGED requests

WriteFails(over) == over

WriteConfig(reachable, over) ==
  /\ main = "config"
  /\ \/ /\ Write(0, reachable, over)
        /\ main' = "audio" /\ UNCHANGED exit_code
     \/ WriteFails(over) /\ ReturnUnjoined /\ UNCHANGED requests
  /\ UNCHANGED <<opts, file, reader, n_written, half_closed, n_read>>

\* Seeded fault: eof is looked at before the read, not after it.
MoreChunksBeforeRead == file.kind = "unreadable" \/ n_written <= file.chunks

MoreChunks == file.kind = "unreadable" \/ n_written < file.chunks

\* Seeded fault: a chunk that cannot be written is left out.
WriteChunkOrSkip(reachable, over) ==
  /\ main = "audio" /\ MoreChunks
  /\ \/ Write(n_written + 1, reachable, over)
     \/ Len(requests) = WriteWindow /\ UNCHANGED requests
  /\ n_written' = IF file.kind = "unreadable" THEN n_written ELSE n_written + 1
  /\ UNCHANGED <<opts, file, thread_vars, half_closed, n_read>>

\* The loop over chunks goes on until eof.  Of a file that fails without eof it never
\* ends; the chunks have what was in the buffer and are not numbered.
WriteChunk(reachable, over) ==
  /\ main = "audio" /\ MoreChunks
  /\ \/ /\ Write(IF file.kind = "unreadable" THEN 1 ELSE n_written + 1, reachable, over)
        /\ n_written' = IF file.kind = "unreadable" THEN n_written ELSE n_written + 1
        /\ UNCHANGED <<main, exit_code>>
     \/ WriteFails(over) /\ ReturnUnjoined /\ UNCHANGED <<requests, n_written>>
  /\ UNCHANGED <<opts, file, reader, half_closed, n_read>>

\* The read that fills no chunk sees eof: the rest of the file is not sent.
WritesDone ==
  /\ main = "audio" /\ ~MoreChunks
  /\ half_closed' = TRUE
  /\ main' = "join"
  /\ UNCHANGED <<opts, file, reader, exit_code, requests, n_written, n_read>>

Join ==
  /\ main = "join" /\ reader = "done"
  /\ main' = "finish"
  /\ UNCHANGED <<opts, file, reader, exit_code, channel_vars, n_read>>

\* The return of the unary call.
FinishUnary(status) ==
  /\ main = "finish" /\ ~opts.streaming /\ status # "none"
  /\ Exit(IF status = "OK" THEN "success" ELSE "failure")
  /\ UNCHANGED <<opts, file, reader, channel_vars, n_read>>

\* Finish() of the stream.
Finish(status) ==
  /\ main = "finish" /\ opts.streaming /\ status # "none"
  /\ Exit(IF status = "OK" THEN "success" ELSE "failure")
  /\ UNCHANGED <<opts, file, reader, channel_vars, n_read>>
-------------------------------------------------------------------------------
\* The streaming call: the thread

\* WaitForInitialMetadata() returns with the first response or the end of the call.
ReaderStarts(written, status) ==
  /\ ~Gone /\ reader = "waiting"
  /\ written # <<>> \/ status # "none"
  /\ reader' = "reading"
  /\ UNCHANGED <<opts, file, main, exit_code, channel_vars, n_read>>

\* Seeded fault: responses are read when the audio has been written.
ReadResponseLate(written) ==
  /\ main = "join" /\ reader = "reading" /\ n_read < Len(written)
  /\ n_read' = n_read + 1
  /\ UNCHANGED <<opts, file, thread_vars, channel_vars>>

\* With --json the first result is looked at even of a response that has none: what
\* happens then is undefined.
ReadResponse(written) ==
  /\ ~Gone /\ reader = "reading" /\ n_read < Len(written)
  /\ n_read' = n_read + 1
  /\ \/ UNCHANGED thread_vars
     \/ /\ opts.json /\ written[n_read + 1].kind \in {"empty", "event"}
        /\ ReturnUnjoined /\ UNCHANGED reader
  /\ UNCHANGED <<opts, file, channel_vars>>

ReaderEnds(written, status) ==
  /\ ~Gone /\ reader = "reading" /\ status # "none" /\ n_read = Len(written)
  /\ reader' = "done"
  /\ UNCHANGED <<opts, file, main, exit_code, channel_vars, n_read>>
-------------------------------------------------------------------------------
ClientType ==
  /\ opts \in ClientConfigs /\ file \in Files
  /\ main \in {"start", "open", "config", "audio", "join", "finish", "exited", "died"}
  /\ reader \in {"none", "waiting", "reading", "done"}
  /\ exit_code \in {"none", "success", "failure"}
  /\ requests \in Seq(0 .. MaxChunks + 1) /\ Len(requests) <= WriteWindow
  /\ n_written \in 0 .. MaxChunks /\ half_closed \in BOOLEAN /\ n_read \in Nat
===============================================================================
