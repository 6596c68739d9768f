-------------------------- MODULE ContentDecoderProofs --------------------------
(***************************************************************************)
(* Proofs about ContentDecoder, for every buffer size, refill threshold,   *)
(* length of the content and size of libav's reads.                        *)
(*                                                                         *)
(* The invariant says what the window of the InputBuffer holds (Window),   *)
(* how its counters add up (Counters), and that only the end of the        *)
(* content can leave it without a byte (Filled), which is what the         *)
(* refill threshold is for.                                                *)
(***************************************************************************)
EXTENDS ContentDecoder, TLAPS

Window == \A i \in 0 .. cur_data_size - 1 : buf[cur_offset + i] = total_used_bytes + i + 1

Counters ==
  /\ total_used_bytes + cur_data_size = total_bytes_read
  /\ eof => total_bytes_read = length

Filled == at # "new" /\ ~eof => cur_data_size >= kRefillThreshold

\* The buffer is as it was made until the first read.
Fresh == at = "new" => cur_data_size = 0 /\ cur_offset = 0 /\ ~ended

Ended == ended => total_used_bytes = length

BufferInv == Window /\ Counters /\ Filled /\ Fresh
IInv == TypeOK /\ BufferInv /\ Ended
-------------------------------------------------------------------------------
\* The operations of InputBuffer

LEMMA SmallerNat ==
  ASSUME NEW a \in Nat, NEW b \in Nat
  PROVE  /\ Smaller(a, b) \in Nat /\ Smaller(a, b) <= a /\ Smaller(a, b) <= b
         /\ Smaller(a, b) \in {a, b}
BY DEF Smaller

\* What a read adds behind size bytes: it fills the buffer, or gives what is left of the
\* content (NRead).
LEMMA NReadBounds ==
  ASSUME TypeOK, NEW size \in 0 .. kBufferSize
  PROVE  /\ NRead(size) \in 0 .. kBufferSize - size
         /\ NRead(size) <= length - total_bytes_read
         /\ NRead(size) < kBufferSize - size => NRead(size) = length - total_bytes_read
<1>1. kBufferSize - size \in Nat /\ length - total_bytes_read \in Nat
  BY BufferAssumption DEF TypeOK
<1>2. QED
  BY <1>1, SmallerNat DEF NRead

\* Forward() moves the window on by the bytes used, whether it refills the buffer or not.
LEMMA ForwardStep ==
  ASSUME TypeOK, Window, Counters, NEW n \in 1 .. cur_data_size, Forward(n),
         length' = length
  PROVE  /\ eof' \in BOOLEAN /\ buf' \in [Positions -> Nat]
         /\ cur_offset' \in 0 .. kBufferSize /\ cur_data_size' \in 0 .. kBufferSize - cur_offset'
         /\ total_bytes_read' \in 0 .. length /\ total_used_bytes' \in 0 .. total_bytes_read'
         /\ total_used_bytes' = total_used_bytes + n
         /\ Window' /\ Counters'
         /\ ~eof' => cur_data_size' >= kRefillThreshold
<1> DEFINE size == cur_data_size - n
           from == cur_offset + n
<1>1. /\ size \in 0 .. kBufferSize /\ from \in Nat /\ from + size <= kBufferSize
      /\ kBufferSize \in Nat /\ kRefillThreshold \in 1 .. kBufferSize
      /\ length \in Nat /\ total_bytes_read \in 0 .. length
      /\ total_used_bytes \in Nat /\ cur_data_size \in Nat /\ cur_offset \in Nat
      /\ total_used_bytes + cur_data_size = total_bytes_read
      /\ (eof => total_bytes_read = length) /\ eof \in BOOLEAN
  BY BufferAssumption DEF TypeOK, Counters
<1>2. total_used_bytes' = total_used_bytes + n
  BY DEF Forward
<1>3. \A i \in 0 .. size - 1 : buf[from + i] = total_used_bytes' + i + 1
  <2> SUFFICES ASSUME NEW i \in 0 .. size - 1
               PROVE  buf[from + i] = total_used_bytes' + i + 1
    OBVIOUS
  <2>1. n + i \in 0 .. cur_data_size - 1 /\ cur_offset + (n + i) = from + i
    BY <1>1
  <2>2. buf[cur_offset + (n + i)] = total_used_bytes + (n + i) + 1
    BY <2>1 DEF Window
  <2>3. QED
    BY <1>1, <1>2, <2>1, <2>2
<1>4. CASE size < kRefillThreshold
  <2> DEFINE got == NRead(size)
             copied == CopiedDown(from, size)
  <2>1. /\ ReadMore(copied, size) /\ cur_offset' = 0
    BY <1>4 DEF Forward
  <2>2. /\ got \in 0 .. kBufferSize - size /\ got <= length - total_bytes_read
        /\ got < kBufferSize - size => got = length - total_bytes_read
    BY <1>1, NReadBounds
  <2>3. /\ total_bytes_read' = total_bytes_read + got /\ cur_data_size' = size + got
        /\ eof' = (eof \/ got < kBufferSize - size)
    BY <2>1 DEF ReadMore
  <2>4. buf' = [i \in Positions |->
                  IF i \in size .. size + got - 1 THEN total_bytes_read + (i - size) + 1
                                                  ELSE copied[i]]
    BY <2>1 DEF ReadMore
  <2>5. \A i \in Positions : copied[i] \in Nat /\ (i < size => copied[i] = buf[from + i])
    <3> SUFFICES ASSUME NEW i \in Positions
                 PROVE  copied[i] \in Nat /\ (i < size => copied[i] = buf[from + i])
      OBVIOUS
    <3>1. copied[i] = IF i < size THEN buf[from + i] ELSE buf[i]
      BY DEF CopiedDown
    <3>2. i < size => from + i \in Positions
      BY <1>1 DEF Positions
    <3>3. QED
      BY <3>1, <3>2 DEF TypeOK
  <2>6. buf' \in [Positions -> Nat]
    <3>1. ASSUME NEW i \in Positions, i \in size .. size + got - 1
          PROVE  total_bytes_read + (i - size) + 1 \in Nat
      BY <1>1, <2>2, <3>1 DEF Positions
    <3>2. QED
      BY <2>4, <2>5, <3>1
  <2>7. Window'
    <3> SUFFICES ASSUME NEW i \in 0 .. cur_data_size' - 1
                 PROVE  buf'[cur_offset' + i] = total_used_bytes' + i + 1
      BY DEF Window
    <3>1. i \in Positions /\ cur_offset' + i = i /\ i \in Nat /\ i < size + got
      BY <1>1, <2>1, <2>2, <2>3 DEF Positions
    <3>2. CASE i < size
      <4>1. buf'[i] = copied[i]
        BY <1>1, <2>4, <3>1, <3>2
      <4>2. i \in 0 .. size - 1
        BY <1>1, <3>1, <3>2
      <4>3. QED
        BY <1>3, <2>5, <3>1, <3>2, <4>1, <4>2
    <3>3. CASE ~(i < size)
      <4>1. buf'[i] = total_bytes_read + (i - size) + 1
        BY <1>1, <2>2, <2>4, <3>1, <3>3
      <4>2. QED
        BY <1>1, <1>2, <3>1, <4>1
    <3>4. QED
      BY <3>2, <3>3
  <2>8. got \in Nat /\ total_bytes_read' \in 0 .. length /\ size + got <= kBufferSize
    BY <1>1, <2>2, <2>3
  <2>9. Counters'
    <3>1. total_used_bytes' + cur_data_size' = total_bytes_read'
      BY <1>1, <1>2, <2>3, <2>8
    <3>2. ASSUME eof' PROVE total_bytes_read' = length
      <4>1. CASE eof
        BY <1>1, <2>2, <2>3, <2>8, <4>1
      <4>2. CASE got < kBufferSize - size
        BY <1>1, <2>2, <2>3, <2>8, <4>2
      <4>3. QED
        BY <2>3, <3>2, <4>1, <4>2
    <3>3. QED
      BY <3>1, <3>2 DEF Counters
  <2>10. /\ cur_offset' \in 0 .. kBufferSize /\ cur_data_size' \in 0 .. kBufferSize - cur_offset'
         /\ total_used_bytes' \in 0 .. total_bytes_read'
    BY <1>1, <1>2, <2>1, <2>3, <2>8
  <2>11. eof' \in BOOLEAN
    BY <1>1, <2>3
  <2>12. ASSUME ~eof' PROVE cur_data_size' >= kRefillThreshold
    <3>1. ~(got < kBufferSize - size)
      BY <2>3, <2>12
    <3>2. QED
      BY <1>1, <2>3, <2>8, <3>1
  <2>13. QED
    BY <1>2, <2>6, <2>7, <2>8, <2>9, <2>10, <2>11, <2>12
<1>5. CASE ~(size < kRefillThreshold)
  <2>1. /\ cur_offset' = from /\ cur_data_size' = size
        /\ eof' = eof /\ buf' = buf /\ total_bytes_read' = total_bytes_read
    BY <1>5 DEF Forward
  <2>2. Window'
    BY <1>3, <2>1 DEF Window
  <2>3. Counters'
    BY <1>1, <1>2, <2>1 DEF Counters
  <2>4. QED
    BY <1>1, <1>2, <1>5, <2>1, <2>2, <2>3 DEF TypeOK
<1>6. QED
  BY <1>4, <1>5

\* The constructor reads as much of the content as the buffer holds.
LEMMA FirstRead ==
  ASSUME TypeOK, Counters, cur_data_size = 0, cur_offset = 0, ReadMore(buf, 0),
         UNCHANGED <<length, cur_offset, total_used_bytes>>
  PROVE  /\ eof' \in BOOLEAN /\ buf' \in [Positions -> Nat]
         /\ cur_data_size' \in 0 .. kBufferSize - cur_offset'
         /\ total_bytes_read' \in 0 .. length /\ total_used_bytes' \in 0 .. total_bytes_read'
         /\ Window' /\ Counters' /\ (~eof' => cur_data_size' >= kRefillThreshold)
<1> DEFINE got == NRead(0)
<1>1. /\ kBufferSize \in Nat /\ kRefillThreshold \in 1 .. kBufferSize /\ length \in Nat
      /\ total_bytes_read \in 0 .. length /\ total_used_bytes = total_bytes_read
      /\ (eof => total_bytes_read = length) /\ eof \in BOOLEAN
  BY BufferAssumption DEF TypeOK, Counters
<1>2. /\ got \in 0 .. kBufferSize /\ got <= length - total_bytes_read
      /\ got < kBufferSize => got = length - total_bytes_read
  BY <1>1, NReadBounds
<1>3. /\ total_bytes_read' = total_bytes_read + got /\ cur_data_size' = got
      /\ eof' = (eof \/ got < kBufferSize)
  BY <1>1, <1>2 DEF ReadMore
<1>4. buf' = [i \in Positions |->
                IF i \in 0 .. got - 1 THEN total_bytes_read + i + 1 ELSE buf[i]]
  BY <1>1, <1>2 DEF ReadMore, Positions
<1>5. buf' \in [Positions -> Nat]
  BY <1>1, <1>2, <1>4 DEF TypeOK, Positions
<1>6. Window'
  <2> SUFFICES ASSUME NEW i \in 0 .. got - 1
               PROVE  buf'[i] = total_used_bytes + i + 1
    BY <1>2, <1>3 DEF Window
  <2>1. i \in Positions
    BY <1>1, <1>2 DEF Positions
  <2>2. QED
    BY <1>1, <1>4, <2>1
<1>7. got \in Nat /\ total_bytes_read' \in 0 .. length
  BY <1>1, <1>2, <1>3
<1>8. Counters'
  <2>1. total_used_bytes + cur_data_size' = total_bytes_read'
    BY <1>1, <1>3, <1>7
  <2>2. ASSUME eof' PROVE total_bytes_read' = length
    <3>1. CASE eof
      BY <1>1, <1>2, <1>3, <1>7, <3>1
    <3>2. CASE got < kBufferSize
      BY <1>1, <1>2, <1>3, <1>7, <3>2
    <3>3. QED
      BY <1>3, <2>2, <3>1, <3>2
  <2>3. QED
    BY <2>1, <2>2 DEF Counters
<1>9. /\ cur_data_size' \in 0 .. kBufferSize - cur_offset'
      /\ total_used_bytes' \in 0 .. total_bytes_read'
  BY <1>1, <1>2, <1>3, <1>7
<1>10. eof' \in BOOLEAN
  BY <1>1, <1>3
<1>11. ASSUME ~eof' PROVE cur_data_size' >= kRefillThreshold
  <2>1. ~(got < kBufferSize)
    BY <1>3, <1>11
  <2>2. QED
    BY <1>1, <1>2, <1>3, <2>1
<1>12. QED
  BY <1>5, <1>6, <1>7, <1>8, <1>9, <1>10, <1>11
-------------------------------------------------------------------------------
\* The inductive invariant

LEMMA InitInv == Init => IInv
<1> SUFFICES ASSUME Init PROVE IInv
  OBVIOUS
<1>0. /\ length \in 0 .. MaxLength /\ MaxLength \in Nat /\ kBufferSize \in Nat
      /\ eof = FALSE /\ buf = [i \in Positions |-> 0] /\ cur_offset = 0 /\ cur_data_size = 0
      /\ total_bytes_read = 0 /\ total_used_bytes = 0 /\ given = <<>> /\ ended = FALSE
      /\ demuxed = 0 /\ converter = "none" /\ at = "new"
  BY BufferAssumption DEF Init
<1>1. TypeOK
  <2>1. buf \in [Positions -> Nat]
    BY <1>0
  <2>2. /\ cur_offset \in 0 .. kBufferSize /\ cur_data_size \in 0 .. kBufferSize - cur_offset
        /\ total_bytes_read \in 0 .. length /\ total_used_bytes \in 0 .. total_bytes_read
        /\ demuxed \in 0 .. total_used_bytes
    BY <1>0
  <2>3. given \in Seq(Nat)
    BY <1>0
  <2>4. QED
    BY <1>0, <2>1, <2>2, <2>3 DEF TypeOK
<1>2. BufferInv /\ Ended
  BY <1>1 DEF Init, BufferInv, Window, Counters, Filled, Fresh, Ended
<1>3. QED
  BY <1>1, <1>2 DEF IInv

\* While the callback has not been told that the end was reached there are bytes to give.
LEMMA BytesToGive ==
  ASSUME IInv, at # "new"
  PROVE  /\ ~Empty => cur_data_size \in Nat \ {0} /\ ~ended
         /\ Empty => total_used_bytes = length
<1>1. /\ cur_data_size \in Nat /\ total_used_bytes \in Nat /\ total_bytes_read \in 0 .. length
      /\ length \in Nat /\ kRefillThreshold \in Nat \ {0} /\ eof \in BOOLEAN /\ ended \in BOOLEAN
  BY BufferAssumption DEF IInv, TypeOK
<1>2. /\ total_used_bytes + cur_data_size = total_bytes_read
      /\ eof => total_bytes_read = length
      /\ ~eof => cur_data_size >= kRefillThreshold
      /\ ended => total_used_bytes = length
  BY DEF IInv, BufferInv, Counters, Filled, Ended
<1>3. QED
  BY <1>1, <1>2 DEF Empty

\* A callback that does not answer with the end gives the next bytes of the content.
LEMMA CallbackGives ==
  ASSUME IInv, NEW n \in ReadSizes, ReadCallback(n), ~Empty
  PROVE  \E k \in 1 .. cur_data_size :
           /\ Forward(k) /\ UNCHANGED <<length, ended, demuxed, converter, at>>
           /\ given' = [i \in 1 .. k |-> total_used_bytes + i]
<1> DEFINE k == Smaller(cur_data_size, n)
<1>1. cur_data_size \in Nat \ {0} /\ n \in Nat \ {0}
  BY BytesToGive, BufferAssumption DEF ReadCallback
<1>2. k \in 1 .. cur_data_size
  <2>1. k \in Nat /\ k <= cur_data_size /\ k \in {cur_data_size, n}
    BY <1>1, SmallerNat
  <2>2. QED
    BY <1>1, <2>1
<1>3. /\ given' = [i \in 1 .. k |-> buf[cur_offset + i - 1]]
      /\ Forward(k) /\ UNCHANGED <<length, ended, demuxed, converter, at>>
  BY DEF ReadCallback
<1>4. \A i \in 1 .. k : buf[cur_offset + i - 1] = total_used_bytes + i
  <2> SUFFICES ASSUME NEW i \in 1 .. k
               PROVE  buf[cur_offset + i - 1] = total_used_bytes + i
    OBVIOUS
  <2>1. /\ i - 1 \in 0 .. cur_data_size - 1 /\ cur_offset + (i - 1) = cur_offset + i - 1
        /\ total_used_bytes + (i - 1) + 1 = total_used_bytes + i
    BY <1>1, <1>2 DEF IInv, TypeOK
  <2>2. QED
    BY <2>1 DEF IInv, BufferInv, Window
<1>5. QED
  BY <1>2, <1>3, <1>4

LEMMA ConstructStep == ASSUME IInv, Construct PROVE IInv'
<1>1. /\ cur_data_size = 0 /\ cur_offset = 0 /\ ~ended
      /\ at' \in {"thrown", "opening"}
      /\ UNCHANGED <<length, cur_offset, total_used_bytes, given, ended, demuxed, converter>>
      /\ ReadMore(buf, 0)
  BY DEF IInv, BufferInv, Fresh, Construct
<1>2. /\ TypeOK /\ Counters
  BY DEF IInv, BufferInv
<1>3. /\ eof' \in BOOLEAN /\ buf' \in [Positions -> Nat]
      /\ cur_data_size' \in 0 .. kBufferSize - cur_offset'
      /\ total_bytes_read' \in 0 .. length /\ total_used_bytes' \in 0 .. total_bytes_read'
      /\ Window' /\ Counters' /\ (~eof' => cur_data_size' >= kRefillThreshold)
  BY <1>1, <1>2, FirstRead
<1>4. TypeOK'
  BY <1>1, <1>2, <1>3 DEF TypeOK
<1>5. BufferInv' /\ Ended'
  BY <1>1, <1>3 DEF BufferInv, Filled, Fresh, Ended
<1>6. QED
  BY <1>4, <1>5 DEF IInv

LEMMA ReadCallbackStep ==
  ASSUME IInv, NEW n \in ReadSizes, ReadCallback(n)
  PROVE  IInv'
<1>1. at \in {"opening", "decoding"} /\ at' = at
  BY DEF ReadCallback
<1>2. CASE Empty
  <2>1. /\ ended' = TRUE /\ UNCHANGED <<length, input_vars, given, demuxed, converter, at>>
    BY <1>2 DEF ReadCallback
  <2>2. total_used_bytes = length
    BY <1>1, <1>2, BytesToGive
  <2>3. TypeOK'
    BY <2>1 DEF IInv, TypeOK, input_vars
  <2>4. BufferInv' /\ Ended'
    BY <1>1, <2>1, <2>2
    DEF IInv, BufferInv, Window, Counters, Filled, Fresh, Ended, input_vars
  <2>5. QED
    BY <2>3, <2>4 DEF IInv
<1>3. CASE ~Empty
  <2>1. PICK k \in 1 .. cur_data_size :
          /\ Forward(k) /\ UNCHANGED <<length, ended, demuxed, converter, at>>
          /\ given' = [i \in 1 .. k |-> total_used_bytes + i]
    BY <1>3, CallbackGives
  <2>2. ~ended
    BY <1>1, <1>3, BytesToGive
  <2>3. /\ TypeOK /\ Window /\ Counters
    BY DEF IInv, BufferInv
  <2>4. /\ eof' \in BOOLEAN /\ buf' \in [Positions -> Nat]
        /\ cur_offset' \in 0 .. kBufferSize /\ cur_data_size' \in 0 .. kBufferSize - cur_offset'
        /\ total_bytes_read' \in 0 .. length /\ total_used_bytes' \in 0 .. total_bytes_read'
        /\ total_used_bytes' = total_used_bytes + k
        /\ Window' /\ Counters' /\ (~eof' => cur_data_size' >= kRefillThreshold)
    BY <2>1, <2>3, ForwardStep
  <2>5. given' \in Seq(Nat)
    <3>1. \A i \in 1 .. k : total_used_bytes + i \in Nat
      BY <2>3 DEF TypeOK
    <3>2. k \in Nat
      BY <2>1, <2>3 DEF TypeOK
    <3>3. QED
      BY <2>1, <3>1, <3>2
  <2>6. TypeOK'
    BY <1>1, <2>1, <2>3, <2>4, <2>5 DEF TypeOK
  <2>7. BufferInv' /\ Ended'
    BY <1>1, <2>1, <2>2, <2>4 DEF BufferInv, Filled, Fresh, Ended
  <2>8. QED
    BY <2>6, <2>7 DEF IInv
<1>4. QED
  BY <1>2, <1>3

\* The steps of libav that take nothing from the buffer.
LEMMA QuietStep ==
  ASSUME IInv, UNCHANGED <<length, input_vars, given, ended>>,
         demuxed' \in 0 .. total_used_bytes, converter' \in {"none", "ready"},
         at' \in {"opening", "decoding", "packet", "flush", "done", "thrown", "crashed"},
         at # "new"
  PROVE  IInv'
<1>1. TypeOK'
  BY DEF IInv, TypeOK, input_vars
<1>2. BufferInv' /\ Ended'
  BY DEF IInv, BufferInv, Window, Counters, Filled, Fresh, Ended, input_vars
<1>3. QED
  BY <1>1, <1>2 DEF IInv

LEMMA InvStep == IInv /\ [Next]_vars => IInv'
<1> SUFFICES ASSUME IInv, [Next]_vars PROVE IInv'
  OBVIOUS
<1>0. /\ demuxed \in 0 .. total_used_bytes /\ converter \in {"none", "ready"}
      /\ total_used_bytes \in Nat
  BY DEF IInv, TypeOK
<1>1. CASE Construct
  BY <1>1, ConstructStep
<1>2. ASSUME NEW n \in ReadSizes, ReadCallback(n) PROVE IInv'
  BY <1>2, ReadCallbackStep
<1>3. CASE FindStream
  BY <1>0, <1>3, QuietStep DEF FindStream
<1>4. CASE ReadFrame
  <2>1. demuxed' \in 0 .. total_used_bytes
    BY <1>0, <1>4 DEF ReadFrame
  <2>2. QED
    BY <1>0, <1>4, <2>1, QuietStep DEF ReadFrame
<1>5. CASE DecodePacket
  BY <1>0, <1>5, QuietStep DEF DecodePacket
<1>6. CASE ReadFrameEof
  BY <1>0, <1>6, QuietStep DEF ReadFrameEof
<1>7. CASE Flush
  BY <1>0, <1>7, QuietStep DEF Flush
<1>8. CASE UNCHANGED vars
  <2>1. TypeOK'
    BY <1>8 DEF IInv, TypeOK, vars, input_vars
  <2>2. BufferInv' /\ Ended'
    BY <1>8 DEF IInv, BufferInv, Window, Counters, Filled, Fresh, Ended, vars, input_vars
  <2>3. QED
    BY <2>1, <2>2 DEF IInv
<1>9. QED
  BY <1>1, <1>2, <1>3, <1>4, <1>5, <1>6, <1>7, <1>8 DEF Next, Step, Finished

\* The inductive invariant holds in every reachable state.
THEOREM BufferInvariance == Spec => []IInv
BY InitInv, InvStep, PTL DEF Spec

\* The counters of InputBuffer and the state of the decoder keep their types; offset and
\* size never reach beyond the buffer.
THEOREM ContentTypeCorrect == Spec => []TypeOK
<1>1. IInv => TypeOK
  BY DEF IInv
<1>2. QED
  BY <1>1, BufferInvariance, PTL

\* A decoder that is flushed because the buffer has nothing more has been given all of the
\* content, for every length, every size of the buffer and every size of the reads.
THEOREM ContentFlushedAtTheEnd == Spec => []FlushedAtTheEnd
<1>1. IInv => FlushedAtTheEnd
  BY DEF IInv, Ended, FlushedAtTheEnd
<1>2. QED
  BY <1>1, BufferInvariance, PTL
-------------------------------------------------------------------------------
\* The refinement

\* Each answer of the callback is an answer of the byte stream.
LEMMA CallbackImplements ==
  ASSUME IInv, NEW n \in ReadSizes, ReadCallback(n)
  PROVE  Source!Next
<1>1. at # "new"
  BY DEF ReadCallback
<1>2. CASE Empty
  <2>1. /\ ended' = TRUE /\ UNCHANGED <<length, total_used_bytes, given>>
    BY <1>2 DEF ReadCallback, input_vars
  <2>2. total_used_bytes = length
    BY <1>1, <1>2, BytesToGive
  <2>3. Source!End
    BY <2>1, <2>2 DEF Source!End
  <2>4. QED
    BY <2>3 DEF Source!Next
<1>3. CASE ~Empty
  <2>1. PICK k \in 1 .. cur_data_size :
          /\ Forward(k) /\ UNCHANGED <<length, ended>>
          /\ given' = [i \in 1 .. k |-> total_used_bytes + i]
    BY <1>3, CallbackGives
  <2>2. ~ended
    BY <1>1, <1>3, BytesToGive
  <2>3. k \in 1 .. length - total_used_bytes
    BY <2>1 DEF IInv, BufferInv, Counters, TypeOK
  <2>4. total_used_bytes' = total_used_bytes + k
    BY <2>1 DEF Forward
  <2>5. Source!Give(k)
    BY <2>1, <2>2, <2>4 DEF Source!Give
  <2>6. QED
    BY <2>3, <2>5 DEF Source!Next
<1>4. QED
  BY <1>2, <1>3

LEMMA SourceStep == IInv /\ [Next]_vars => [Source!Next]_(Source!vars)
<1> SUFFICES ASSUME IInv, [Next]_vars PROVE [Source!Next]_(Source!vars)
  OBVIOUS
<1>1. CASE \E n \in ReadSizes : ReadCallback(n)
  BY <1>1, CallbackImplements
<1>2. CASE ~\E n \in ReadSizes : ReadCallback(n)
  <2>1. UNCHANGED <<length, total_used_bytes, given, ended>>
    BY <1>2 DEF Next, Step, Finished, Construct, FindStream, ReadFrame, DecodePacket,
                ReadFrameEof, Flush, vars, input_vars
  <2>2. QED
    BY <2>1 DEF Source!vars
<1>3. QED
  BY <1>1, <1>2

\* InputBuffer and the callback of IoContext implement ByteStream: libav is given the
\* bytes of the content in order, each once, and the end after the last.
THEOREM BufferImplementsByteStream == Spec => ReadsInOrder
<1>1. Init => Source!Init
  BY DEF Init, Source!Init
<1>2. QED
  BY <1>1, SourceStep, BufferInvariance, PTL DEF Spec, ReadsInOrder, Source!Spec
===============================================================================
