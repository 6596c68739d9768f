--------------------------- MODULE StreamingProtocol ---------------------------
(***************************************************************************)
(* What StreamingRecognize promises a client about the sequence of its     *)
(* responses, without saying how they come about.  It is the contract in   *)
(* proto/tiro/speech/v1alpha/speech.proto, as far as the server keeps it:  *)
(*                                                                         *)
(*  - responses speak of segments of the audio, in order; a segment may    *)
(*    have interim results, only if these were asked for, and is settled   *)
(*    by at most one closing response, after which it is not mentioned;    *)
(*  - all the responses of a segment are timed from the same offset, and   *)
(*    a later segment has no earlier offset;                               *)
(*  - with single_utterance there is one closing response in the stream,   *)
(*    then the event END_OF_SINGLE_UTTERANCE, then nothing; without it     *)
(*    the event is never sent;                                             *)
(*  - nothing is written before a valid configuration has been read, nor   *)
(*    once a status has been returned, and the stream ends OK only between *)
(*    segments.                                                            *)
(***************************************************************************)
EXTENDS Integers, Sequences

CONSTANTS Configs, BadConfig

VARIABLES config, written, status

vars == <<config, written, status>>

Closing == {"final", "empty"}
Statuses == {"OK", "CANCELLED", "INVALID_ARGUMENT", "INTERNAL"}

LastOf(w) == w[Len(w)]
Running == status = "none" /\ config # BadConfig

\* The response r opens a new segment, or goes on with one that is not settled.
Follows(r) ==
  \/ written = <<>>
  \/ /\ written # <<>> /\ LastOf(written).kind \in Closing
     /\ ~config.single_utterance
     /\ r.seg > LastOf(written).seg /\ r.offset >= LastOf(written).offset
  \/ /\ written # <<>> /\ LastOf(written).kind = "interim"
     /\ r.seg = LastOf(written).seg /\ r.offset = LastOf(written).offset

Init == config = BadConfig /\ written = <<>> /\ status = "none"

Accept(c) ==
  /\ status = "none" /\ config = BadConfig
  /\ config' = c
  /\ UNCHANGED <<written, status>>

Interim(r) ==
  /\ Running /\ config.interim_results
  /\ r.kind = "interim" /\ Follows(r)
  /\ written' = Append(written, r)
  /\ UNCHANGED <<config, status>>

Settle(r) ==
  /\ Running
  /\ r.kind \in Closing /\ Follows(r)
  /\ written' = Append(written, r)
  /\ UNCHANGED <<config, status>>

EndOfSingleUtterance(r) ==
  /\ Running /\ config.single_utterance
  /\ written # <<>> /\ LastOf(written).kind \in Closing
  /\ r.kind = "event" /\ r.seg = LastOf(written).seg
  /\ written' = Append(written, r)
  /\ UNCHANGED <<config, status>>

\* OK is returned only when no segment is left with interim results alone, and with
\* single_utterance only after the event, if anything was settled.
ReturnStatus(s) ==
  /\ status = "none"
  /\ s = "INVALID_ARGUMENT" => config = BadConfig
  /\ s \in {"OK", "INTERNAL"} => config # BadConfig
  /\ s = "OK" /\ written # <<>> =>
       LastOf(written).kind \in (IF config.single_utterance THEN {"event"} ELSE Closing)
  /\ status' = s
  /\ UNCHANGED <<config, written>>

Next ==
  \/ \E c \in Configs : Accept(c)
  \/ \E s \in Statuses : ReturnStatus(s)
  \/ /\ Len(written') = Len(written) + 1
     /\ LET r == LastOf(written')
        IN Interim(r) \/ Settle(r) \/ EndOfSingleUtterance(r)

Spec == Init /\ [][Next]_vars
===============================================================================
