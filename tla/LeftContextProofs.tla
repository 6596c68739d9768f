--------------------------- MODULE LeftContextProofs ---------------------------
(***************************************************************************)
(* Proofs about the left context of StreamingRecognize: what it says of    *)
(* the responses already written, and which of them opens the transcript.  *)
(*                                                                         *)
(* Both properties are about the responses written, but the decision on    *)
(* each falls earlier, in GetResults(), from the context the recognizer    *)
(* was made with.  The invariant therefore follows the context through the *)
(* segment (Carried) and while the final response waits in Write           *)
(* (Pending), where the context is already that of the response that may   *)
(* still be lost.                                                          *)
(***************************************************************************)
EXTENDS StreamingRecognizeProofs

P == Punctuates(config.punctuation)

Utterance(r) == r.kind = "final" /\ r.words

\* The left context is the last utterance written.
Remembers ==
  \/ left_context = NoContext /\ (Spoken = {} \/ ~P)
  \/ \E i \in Spoken : P /\ left_context = written[i].seg /\ \A j \in Spoken : j <= i

Carried ==
  /\ pc = "start" => left_context = NoContext
  /\ InSegment => recognizer.left_context = left_context

Pending ==
  /\ pc = "write_final" =>
       /\ Utterance(res) => left_context = IF P THEN res.seg ELSE NoContext
       /\ ~Utterance(res) => Remembers
       /\ res.opens <=> P /\ Utterance(res) /\ Spoken = {}
  /\ pc \in {"write_interim", "write_event"} => ~res.opens

ContextInv == Carried /\ Pending /\ LeftContextIsLastUtterance /\ OnlyFirstUtteranceOpens
-------------------------------------------------------------------------------
\* What a step does to the responses written

LEMMA RemembersWhile ==
  ASSUME LeftContextIsLastUtterance, pc # "write_final", status # "CANCELLED"
  PROVE  Remembers
BY DEF LeftContextIsLastUtterance, Remembers, P

\* Steps that write nothing change neither what was said nor who opened.
LEMMA NothingWritten ==
  ASSUME OnlyFirstUtteranceOpens, UNCHANGED <<config, written>>
  PROVE  /\ Spoken' = Spoken /\ P' = P /\ OnlyFirstUtteranceOpens'
         /\ Remembers /\ UNCHANGED left_context => Remembers'
BY DEF Spoken, P, Punctuates, OnlyFirstUtteranceOpens, Remembers

LEMMA Appended ==
  ASSUME TypeOK, Control, Writing, written' = Append(written, res)
  PROVE  /\ Len(written) \in Nat /\ Len(written') = Len(written) + 1
         /\ \A i \in 1 .. Len(written) : written'[i] = written[i]
         /\ written'[Len(written) + 1] = res
         /\ Spoken' = Spoken \cup (IF Utterance(res) THEN {Len(written) + 1} ELSE {})
         /\ Spoken \subseteq 1 .. Len(written)
<1>1. written \in Seq(Responses) /\ res \in Responses
  BY DEF TypeOK, StreamType, Control
<1>2. /\ Len(written) \in Nat /\ Len(written') = Len(written) + 1
      /\ \A i \in 1 .. Len(written) : written'[i] = written[i]
      /\ written'[Len(written) + 1] = res
  BY <1>1
<1>3. Spoken' = Spoken \cup (IF Utterance(res) THEN {Len(written) + 1} ELSE {})
  <2>1. \A i : i \in 1 .. Len(written') <=> i \in 1 .. Len(written) \/ i = Len(written) + 1
    BY <1>2
  <2>2. Len(written) + 1 \notin 1 .. Len(written)
    BY <1>2
  <2>3. QED
    BY <1>2, <2>1, <2>2 DEF Spoken, Utterance
<1>4. Spoken \subseteq 1 .. Len(written)
  BY DEF Spoken
<1>5. QED
  BY <1>2, <1>3, <1>4

\* A response that is no utterance, and opens nothing, leaves both properties as they are.
LEMMA OtherAppended ==
  ASSUME TypeOK, Control, Writing, written' = Append(written, res), UNCHANGED config,
         ~Utterance(res), ~res.opens, OnlyFirstUtteranceOpens
  PROVE  /\ OnlyFirstUtteranceOpens'
         /\ Remembers /\ UNCHANGED left_context => Remembers'
<1>1. /\ Len(written) \in Nat /\ Len(written') = Len(written) + 1
      /\ \A i \in 1 .. Len(written) : written'[i] = written[i]
      /\ written'[Len(written) + 1] = res
      /\ Spoken' = Spoken /\ Spoken \subseteq 1 .. Len(written) /\ P' = P
  BY Appended DEF P, Punctuates
<1>2. OnlyFirstUtteranceOpens'
  <2> SUFFICES ASSUME NEW i \in 1 .. Len(written')
               PROVE  written'[i].opens <=> P /\ i \in Spoken /\ \A j \in Spoken : i <= j
    BY <1>1 DEF OnlyFirstUtteranceOpens, P
  <2>1. CASE i \in 1 .. Len(written)
    BY <1>1, <2>1 DEF OnlyFirstUtteranceOpens, P
  <2>2. CASE i = Len(written) + 1
    BY <1>1, <2>2
  <2>3. QED
    BY <1>1, <2>1, <2>2
<1>3. Remembers /\ UNCHANGED left_context => Remembers'
  BY <1>1 DEF Remembers
<1>4. QED
  BY <1>2, <1>3

\* The final response of a segment with words becomes the last utterance.
LEMMA UtteranceAppended ==
  ASSUME TypeOK, Control, Writing, written' = Append(written, res), UNCHANGED config,
         Utterance(res), OnlyFirstUtteranceOpens, UNCHANGED left_context,
         res.opens <=> P /\ Spoken = {},
         left_context = IF P THEN res.seg ELSE NoContext
  PROVE  OnlyFirstUtteranceOpens' /\ Remembers'
<1>1. /\ Len(written) \in Nat /\ Len(written') = Len(written) + 1
      /\ \A i \in 1 .. Len(written) : written'[i] = written[i]
      /\ written'[Len(written) + 1] = res
      /\ Spoken' = Spoken \cup {Len(written) + 1}
      /\ Spoken \subseteq 1 .. Len(written) /\ P' = P
  BY Appended DEF P, Punctuates
<1>2. OnlyFirstUtteranceOpens'
  <2> SUFFICES ASSUME NEW i \in 1 .. Len(written')
               PROVE  written'[i].opens <=> P /\ i \in Spoken' /\ \A j \in Spoken' : i <= j
    BY <1>1 DEF OnlyFirstUtteranceOpens, P
  <2>1. CASE i \in 1 .. Len(written)
    <3>1. i # Len(written) + 1 /\ i <= Len(written) + 1
      BY <1>1, <2>1
    <3>2. QED
      BY <1>1, <2>1, <3>1 DEF OnlyFirstUtteranceOpens, P
  <2>2. CASE i = Len(written) + 1
    <3>1. \A j \in Spoken : ~(i <= j)
      BY <1>1, <2>2
    <3>2. i <= i
      BY <1>1, <2>2
    <3>3. QED
      BY <1>1, <2>2, <3>1, <3>2
  <2>3. QED
    BY <1>1, <2>1, <2>2
<1>3. Remembers'
  <2>1. CASE P
    <3>1. \A j \in Spoken' : j <= Len(written) + 1
      BY <1>1
    <3>2. left_context' = written'[Len(written) + 1].seg
      BY <1>1, <2>1
    <3>3. QED
      BY <1>1, <2>1, <3>1, <3>2 DEF Remembers
  <2>2. CASE ~P
    BY <1>1, <2>2 DEF Remembers
  <2>3. QED
    BY <2>1, <2>2
<1>4. QED
  BY <1>2, <1>3
-------------------------------------------------------------------------------
\* What GetResults() answers, from the context the recognizer was made with

LEMMA FinalOutcome ==
  ASSUME TypeOK, config \in Configs, Remembers, recognizer.left_context = left_context,
         NEW o \in GetResults(recognizer, TRUE, config.punctuation), o.kind # "throw",
         NEW r, r = Response(IF o.kind = "result" THEN "final" ELSE "empty", o)
  PROVE  /\ Utterance(r) => o.left_context = IF P THEN r.seg ELSE NoContext
         /\ ~Utterance(r) => o.left_context = left_context
         /\ r.opens <=> P /\ Utterance(r) /\ Spoken = {}
<1>1. /\ r.kind = IF o.kind = "result" THEN "final" ELSE "empty"
      /\ r.seg = recognizer.id /\ r.words = o.words /\ r.opens = o.opens
  BY DEF Response
<1>2. recognizer \in RecognizerType /\ config.punctuation \in BOOLEAN
  BY ConfigAssumption DEF TypeOK, SegmentType
<1>3. ~P => left_context = NoContext
  BY DEF Remembers
<1>4. P => (left_context = NoContext <=> Spoken = {})
  <2>1. ASSUME NEW i \in Spoken PROVE written[i].seg # NoContext
    <3>1. written \in Seq(Responses) /\ i \in 1 .. Len(written)
      BY DEF Spoken, TypeOK, StreamType
    <3>2. written[i] \in Responses
      BY <3>1
    <3>3. written[i].seg \in Nat
      BY <3>2 DEF Responses
    <3>4. QED
      BY <3>3 DEF NoContext
  <2>2. QED
    BY <2>1 DEF Remembers
<1>5. CASE o = Failure(recognizer, "none")
  BY <1>1, <1>5 DEF Failure, Utterance
<1>6. CASE o = Transcript(recognizer, TRUE, config.punctuation, TRUE)
  <2>1. /\ o.kind = "result" /\ o.words = TRUE
        /\ o.opens <=> P /\ left_context = NoContext
        /\ o.left_context = IF P THEN recognizer.id ELSE left_context
    BY <1>6 DEF Transcript, Opens, P
  <2>2. QED
    BY <1>1, <1>3, <1>4, <2>1 DEF Utterance
<1>7. CASE /\ o = Transcript(recognizer, TRUE, config.punctuation, FALSE)
           /\ ~Opens(recognizer, TRUE, config.punctuation)
  <2>1. /\ ~o.words /\ ~o.opens /\ o.left_context = left_context
    BY <1>7 DEF Transcript
  <2>2. QED
    BY <1>1, <2>1 DEF Utterance
<1>8. QED
  <2>1. o # Failure(recognizer, "throw")
    BY DEF Failure
  <2>2. QED
    BY <1>5, <1>6, <1>7, <2>1 DEF GetResults

\* An interim result opens nothing.
LEMMA InterimOutcome ==
  ASSUME NEW r, NEW punctuate, NEW o \in GetResults(r, FALSE, punctuate)
  PROVE  ~o.opens
<1>1. CASE o = Failure(r, "throw") \/ o = Failure(r, "none")
  BY <1>1 DEF Failure
<1>2. ASSUME NEW words, o = Transcript(r, FALSE, punctuate, words)
      PROVE  ~o.opens
  <2>1. o.opens = Opens(r, FALSE, punctuate)
    BY <1>2 DEF Transcript
  <2>2. ~Opens(r, FALSE, punctuate)
    BY DEF Opens
  <2>3. QED
    BY <2>1, <2>2
<1>3. QED
  BY <1>1, <1>2 DEF GetResults
-------------------------------------------------------------------------------
\* The steps

\* Steps that write nothing, before and after which no response waits to be written.
LEMMA QuietContext ==
  ASSUME Control, ContextInv, UNCHANGED <<config, written, left_context>>,
         pc \notin {"write_final", "done"}, pc' # "write_final",
         Carried', pc' \in {"write_interim", "write_event"} => ~res'.opens
  PROVE  ContextInv'
<1>1. status = "none"
  BY DEF Control
<1>2. Remembers' /\ OnlyFirstUtteranceOpens'
  BY <1>1, RemembersWhile, NothingWritten DEF ContextInv
<1>3. LeftContextIsLastUtterance'
  BY <1>2 DEF LeftContextIsLastUtterance, Remembers, P
<1>4. QED
  BY <1>2, <1>3 DEF ContextInv, Pending

\* Write() fails: the call is cancelled, and the context may be that of a lost response.
LEMMA CancelledContext ==
  ASSUME ContextInv, UNCHANGED <<config, written>>, Return("CANCELLED")
  PROVE  ContextInv'
BY NothingWritten DEF ContextInv, Carried, Pending, LeftContextIsLastUtterance, Return, InSegment

\* Write() has written a response.
LEMMA WrittenContext ==
  ASSUME Control, ContextInv, Remembers', OnlyFirstUtteranceOpens', Carried',
         pc' # "write_final", pc' \in {"write_interim", "write_event"} => ~res'.opens
  PROVE  ContextInv'
BY DEF ContextInv, Pending, LeftContextIsLastUtterance, Remembers, P

LEMMA ContextStep == TypeOK /\ Control /\ ContextInv /\ [Next]_vars => ContextInv'
<1> SUFFICES ASSUME TypeOK, Control, ContextInv, [Next]_vars PROVE ContextInv'
  OBVIOUS
<1>0. Carried /\ Pending /\ OnlyFirstUtteranceOpens /\ LeftContextIsLastUtterance
  BY DEF ContextInv
<1>1. CASE ConfigMissing
  BY <1>1, CancelledContext DEF ConfigMissing, rpc_vars
<1>2. CASE ReadConfig
  <2>1. written = <<>> /\ written' = <<>> /\ left_context' = NoContext
    BY <1>0, <1>2 DEF ReadConfig, Control, Carried
  <2>2. Spoken' = {} /\ Remembers' /\ OnlyFirstUtteranceOpens'
    BY <2>1 DEF Spoken, Remembers, OnlyFirstUtteranceOpens
  <2>3. Carried' /\ pc' \in {"segment", "done"}
    BY <1>2, <2>1 DEF ReadConfig, Return, Carried, InSegment
  <2>4. QED
    BY <2>2, <2>3, WrittenContext
<1>3. CASE BeginSegment
  <2>1. Carried'
    BY <1>3 DEF BeginSegment, Carried, NewRecognizer
  <2>2. QED
    BY <1>3, <2>1, QuietContext DEF BeginSegment
<1>4. CASE ReturnOk
  BY <1>4, QuietContext DEF ReturnOk, Return, Carried, InSegment
<1>5. CASE ReadAudio
  <2>1. pc = "read" /\ pc' \in {"decode", "read"}
    BY <1>5 DEF ReadAudio
  <2>2. Carried'
    BY <1>0, <1>5, <2>1 DEF ReadAudio, Carried, InSegment, rpc_vars
  <2>3. QED
    BY <1>5, <2>1, <2>2, QuietContext DEF ReadAudio, rpc_vars
<1>6. CASE ReadNoMore
  <2>1. Carried'
    BY <1>0, <1>6 DEF ReadNoMore, Carried, InSegment, segment_vars
  <2>2. QED
    BY <1>6, <2>1, QuietContext DEF ReadNoMore
<1>7. CASE DecodeChunk
  <2>1. pc = "decode" /\ pc' \in {"finalize", "read", "interim"}
        /\ UNCHANGED <<config, written, left_context>>
    BY <1>7 DEF DecodeChunk, rpc_vars
  <2>2. recognizer'.left_context = recognizer.left_context
    BY <1>7 DEF DecodeChunk, Decode, TypeOK, SegmentType, RecognizerType
  <2>3. Carried'
    BY <1>0, <2>1, <2>2 DEF Carried, InSegment
  <2>4. QED
    BY <2>1, <2>3, QuietContext
<1>8. CASE InterimResult
  <2>1. pc = "interim" /\ pc' \in {"read", "done", "write_interim"}
        /\ UNCHANGED <<config, written, left_context, recognizer>>
    BY <1>8 DEF InterimResult, Return, rpc_vars
  <2>2. Carried'
    BY <1>0, <2>1 DEF Carried, InSegment
  <2>3. ASSUME pc' = "write_interim" PROVE ~res'.opens
    <3>1. PICK o \in GetResults(recognizer, FALSE, config.punctuation) :
            res' = Response("interim", o)
      BY <1>8, <2>3 DEF InterimResult, Return
    <3>2. ~o.opens /\ res'.opens = o.opens
      BY <3>1, InterimOutcome DEF Response
    <3>3. QED
      BY <3>2
  <2>4. QED
    BY <2>1, <2>2, <2>3, QuietContext
<1>9. CASE WriteInterim
  <2>1. CASE Return("CANCELLED") /\ UNCHANGED written
    BY <1>9, <2>1, CancelledContext DEF WriteInterim, rpc_vars
  <2>2. CASE written' = Append(written, res) /\ pc' = "read"
    <3>1. /\ pc = "write_interim" /\ Writing /\ ~Utterance(res) /\ ~res.opens
          /\ UNCHANGED <<config, left_context, recognizer>> /\ status = "none"
      BY <1>0, <1>9
      DEF WriteInterim, Writing, Control, Pending, Utterance, rpc_vars, segment_vars
    <3>2. Remembers' /\ OnlyFirstUtteranceOpens'
      BY <1>0, <2>2, <3>1, RemembersWhile, OtherAppended
    <3>3. Carried'
      BY <1>0, <2>2, <3>1 DEF Carried, InSegment
    <3>4. QED
      BY <2>2, <3>2, <3>3, WrittenContext
  <2>3. QED
    BY <1>9, <2>1, <2>2 DEF WriteInterim, Write
<1>10. CASE FinalResult
  <2>1. /\ pc = "finalize" /\ status = "none" /\ config \in Configs
        /\ recognizer.left_context = left_context /\ Remembers
        /\ UNCHANGED <<config, written>>
    BY <1>0, <1>10, RemembersWhile DEF FinalResult, Control, Carried, InSegment
  <2>2. CASE pc' # "write_final"
    <3>1. UNCHANGED <<recognizer, left_context>> /\ pc' \in {"advance", "done"}
      BY <1>10, <2>2 DEF FinalResult, Return
    <3>2. Carried'
      BY <1>0, <2>1, <3>1 DEF Carried, InSegment
    <3>3. QED
      BY <2>1, <3>1, <3>2, QuietContext
  <2>3. CASE pc' = "write_final"
    <3>1. PICK o \in GetResults(recognizer, TRUE, config.punctuation) :
            /\ o.kind # "throw"
            /\ recognizer' = [recognizer EXCEPT !.left_context = o.left_context]
            /\ left_context' = o.left_context
            /\ res' = Response(IF o.kind = "result" THEN "final" ELSE "empty", o)
      BY <1>10, <2>3 DEF FinalResult, Return
    <3>2. /\ Utterance(res') => left_context' = IF P THEN res'.seg ELSE NoContext
          /\ ~Utterance(res') => left_context' = left_context
          /\ res'.opens <=> P /\ Utterance(res') /\ Spoken = {}
      BY <2>1, <3>1, FinalOutcome
    <3>3. /\ Spoken' = Spoken /\ P' = P /\ OnlyFirstUtteranceOpens'
          /\ Remembers /\ UNCHANGED left_context => Remembers'
      BY <1>0, <2>1, NothingWritten
    <3>4. Pending'
      <4>1. Utterance(res') => left_context' = IF P' THEN res'.seg ELSE NoContext
        BY <3>2, <3>3
      <4>2. ~Utterance(res') => Remembers'
        BY <2>1, <3>2, <3>3
      <4>3. res'.opens <=> P' /\ Utterance(res') /\ Spoken' = {}
        BY <3>2, <3>3
      <4>4. QED
        BY <2>3, <4>1, <4>2, <4>3 DEF Pending, Utterance
    <3>5. Carried'
      BY <2>3, <3>1 DEF Carried, TypeOK, SegmentType, RecognizerType
    <3>6. QED
      BY <2>3, <3>3, <3>4, <3>5 DEF ContextInv, LeftContextIsLastUtterance
  <2>4. QED
    BY <2>2, <2>3
<1>11. CASE WriteFinal
  <2>1. CASE Return("CANCELLED") /\ UNCHANGED written
    BY <1>11, <2>1, CancelledContext DEF WriteFinal
  <2>2. CASE written' = Append(written, res) /\ pc' # "done"
    <3>1. /\ pc = "write_final" /\ Writing /\ pc' \in {"write_event", "advance"}
          /\ UNCHANGED <<config, left_context, recognizer>>
          /\ pc' = "write_event" => res' = Response("event", NoWords)
      BY <1>11, <2>2 DEF WriteFinal, Writing, segment_vars
    <3>2. Remembers' /\ OnlyFirstUtteranceOpens'
      <4>1. CASE Utterance(res)
        <5>1. /\ left_context = IF P THEN res.seg ELSE NoContext
              /\ res.opens <=> P /\ Spoken = {}
          BY <1>0, <3>1, <4>1 DEF Pending
        <5>2. QED
          BY <1>0, <2>2, <3>1, <4>1, <5>1, UtteranceAppended
      <4>2. CASE ~Utterance(res)
        <5>1. Remembers /\ ~res.opens
          BY <1>0, <3>1, <4>2, RemembersWhile DEF Pending, Control, Writing, TypeOK, Responses
        <5>2. QED
          BY <1>0, <2>2, <3>1, <4>2, <5>1, OtherAppended
      <4>3. QED
        BY <4>1, <4>2
    <3>3. Carried' /\ (pc' = "write_event" => ~res'.opens)
      BY <1>0, <3>1 DEF Carried, InSegment, Response, NoWords
    <3>4. QED
      BY <3>1, <3>2, <3>3, WrittenContext
  <2>3. QED
    BY <1>11, <2>1, <2>2 DEF WriteFinal, Write
<1>12. CASE WriteEvent
  <2>1. CASE Return("CANCELLED") /\ UNCHANGED written
    BY <1>12, <2>1, CancelledContext DEF WriteEvent, rpc_vars
  <2>2. CASE written' = Append(written, res) /\ pc' = "advance"
    <3>1. /\ pc = "write_event" /\ Writing /\ ~Utterance(res) /\ ~res.opens
          /\ UNCHANGED <<config, left_context, recognizer>> /\ status = "none"
      BY <1>0, <1>12
      DEF WriteEvent, Writing, Control, Pending, Utterance, rpc_vars, segment_vars
    <3>2. Remembers' /\ OnlyFirstUtteranceOpens'
      BY <1>0, <2>2, <3>1, RemembersWhile, OtherAppended
    <3>3. Carried'
      BY <1>0, <2>2, <3>1 DEF Carried, InSegment
    <3>4. QED
      BY <2>2, <3>2, <3>3, WrittenContext
  <2>3. QED
    BY <1>12, <2>1, <2>2 DEF WriteEvent, Write
<1>13. CASE AdvanceTime
  <2>1. Carried'
    BY <1>0, <1>13 DEF AdvanceTime, Carried, InSegment, segment_vars
  <2>2. QED
    BY <1>13, <2>1, QuietContext DEF AdvanceTime
<1>14. CASE UNCHANGED server_vars
  BY <1>0, <1>14
  DEF server_vars, rpc_vars, segment_vars, history, ContextInv, Carried, Pending, InSegment,
      LeftContextIsLastUtterance, OnlyFirstUtteranceOpens, Spoken, Remembers, P, Utterance
<1>15. QED
  BY <1>1, <1>2, <1>3, <1>4, <1>5, <1>6, <1>7, <1>8, <1>9, <1>10, <1>11, <1>12, <1>13,
     <1>14, ClientFrame DEF Server
-------------------------------------------------------------------------------
\* The theorems

\* The context is followed through every segment, from GetResults() to the next
\* Recognizer.
THEOREM ContextInvariance == Spec => []ContextInv
<1>1. Init => ContextInv
  BY DEF Init, ContextInv, Carried, Pending, InSegment, LeftContextIsLastUtterance,
         OnlyFirstUtteranceOpens, Spoken
<1>2. IInv /\ ContextInv /\ [Next]_vars => ContextInv'
  BY ContextStep DEF IInv
<1>3. QED
  BY <1>1, <1>2, Invariance, PTL DEF Spec

\* The next segment is punctuated after the last utterance the client was sent: empty
\* and wordless segments, interim results and any number of endpoints in between do not
\* lose it, and only a call that is being cancelled may hold one that was not sent.
THEOREM LeftContextCorrect == Spec => []LeftContextIsLastUtterance
<1>1. ContextInv => LeftContextIsLastUtterance
  BY DEF ContextInv
<1>2. QED
  BY <1>1, ContextInvariance, PTL

\* The capital that opens a punctuated transcript is on the first utterance with words,
\* exactly once, however many segments come before or after it.
THEOREM OpeningCorrect == Spec => []OnlyFirstUtteranceOpens
<1>1. ContextInv => OnlyFirstUtteranceOpens
  BY DEF ContextInv
<1>2. QED
  BY <1>1, ContextInvariance, PTL
===============================================================================
