----------------------------- MODULE ContentDecoder -----------------------------
(***************************************************************************)
(* Compressed content of a unary request is decoded at once                *)
(* (CodedBytesToWaveVector): av::Decoder drives libav, which asks for      *)
(* bytes through a callback of IoContext, which takes them from the        *)
(* InputBuffer, a window that is moved over the content: when less than    *)
(* kRefillThreshold bytes are left, they are copied to its front and the   *)
(* rest of it is filled (src/audio/ffmpeg-wrapper.h).                      *)
(*                                                                         *)
(* A byte is its position in the content.  What libav makes of the bytes,  *)
(* and how many it asks for, is left open.                                 *)
(***************************************************************************)
EXTENDS Integers, Sequences

CONSTANTS
  kBufferSize,
  kRefillThreshold,
  ReadSizes,        \* how many bytes libav asks for
  MaxLength         \* bound: bytes of content

ASSUME BufferAssumption ==
  /\ kBufferSize \in Nat /\ kRefillThreshold \in 1 .. kBufferSize
  /\ ReadSizes \subseteq Nat \ {0} /\ MaxLength \in Nat

VARIABLES
  length,           \* bytes in the content
  eof,              \* of input_stream_
  buf, cur_offset, cur_data_size, total_bytes_read, total_used_bytes,
  given, ended,     \* what the callback answered last, and whether with AVERROR_EOF
  demuxed,          \* bytes that went into packets
  converter,        \* "none", or "ready" once SampleConverter::Init() has run
  at                \* "new", "opening", "decoding", "packet", "flush", "done", "thrown"
                    \* or "crashed"

input_vars == <<eof, buf, cur_offset, cur_data_size, total_bytes_read, total_used_bytes>>
vars == <<length, input_vars, given, ended, demuxed, converter, at>>

Positions == 0 .. kBufferSize - 1

Init ==
  /\ length \in 0 .. MaxLength
  /\ eof = FALSE /\ buf = [i \in Positions |-> 0]
  /\ cur_offset = 0 /\ cur_data_size = 0 /\ total_bytes_read = 0 /\ total_used_bytes = 0
  /\ given = <<>> /\ ended = FALSE /\ demuxed = 0 /\ converter = "none" /\ at = "new"
-------------------------------------------------------------------------------
\* InputBuffer

Smaller(a, b) == IF a < b THEN a ELSE b

\* istream::read() behind size bytes of data gives what there is, and eof when that is
\* less than it was asked for.
NRead(size) == Smaller(kBufferSize - size, length - total_bytes_read)

ReadMore(b, size) ==
  /\ buf' = [i \in Positions |->
               IF i \in size .. size + NRead(size) - 1 THEN total_bytes_read + (i - size) + 1
                                                       ELSE b[i]]
  /\ total_bytes_read' = total_bytes_read + NRead(size)
  /\ cur_data_size' = size + NRead(size)
  /\ eof' = (eof \/ NRead(size) < kBufferSize - size)

\* Seeded fault: the stream is at its end when a read gave less than it was asked for.
EmptyAtEof == eof

Empty == eof /\ cur_data_size = 0

\* Seeded fault: what has just been used is copied, too.
CopiedDownUsed(from, size) ==
  [i \in Positions |-> IF i < size THEN buf[cur_offset + i] ELSE buf[i]]

CopiedDown(from, size) ==
  [i \in Positions |-> IF i < size THEN buf[from + i] ELSE buf[i]]

\* Seeded fault: the offset is kept when the data has been copied to the front.
ForwardKeepsOffset(n_used) ==
  /\ total_used_bytes' = total_used_bytes + n_used
  /\ cur_offset' = cur_offset + n_used
  /\ IF cur_data_size - n_used < kRefillThreshold
       THEN ReadMore(CopiedDown(cur_offset + n_used, cur_data_size - n_used),
                     cur_data_size - n_used)
       ELSE /\ cur_data_size' = cur_data_size - n_used
            /\ UNCHANGED <<eof, buf, total_bytes_read>>

Forward(n_used) ==
  /\ total_used_bytes' = total_used_bytes + n_used
  /\ IF cur_data_size - n_used < kRefillThreshold
       THEN /\ ReadMore(CopiedDown(cur_offset + n_used, cur_data_size - n_used),
                        cur_data_size - n_used)
            /\ cur_offset' = 0
       ELSE /\ cur_offset' = cur_offset + n_used
            /\ cur_data_size' = cur_data_size - n_used
            /\ UNCHANGED <<eof, buf, total_bytes_read>>
-------------------------------------------------------------------------------
\* The constructors: an InputBuffer of no bytes throws.

Construct ==
  /\ at = "new"
  /\ ReadMore(buf, 0)
  /\ at' = IF NRead(0) = 0 THEN "thrown" ELSE "opening"
  /\ UNCHANGED <<length, cur_offset, total_used_bytes, given, ended, demuxed, converter>>

\* The callback of IoContext
ReadCallback(buf_size) ==
  /\ at \in {"opening", "decoding"}
  /\ IF Empty
       THEN ended' = TRUE /\ UNCHANGED <<input_vars, given>>
       ELSE LET n_read == Smaller(cur_data_size, buf_size) IN
            /\ given' = [i \in 1 .. n_read |-> buf[cur_offset + i - 1]]
            /\ Forward(n_read)
            /\ UNCHANGED ended
  /\ UNCHANGED <<length, demuxed, converter, at>>

\* The format is recognised, its audio stream found, or not.
FindStream ==
  /\ at = "opening"
  /\ at' \in {"decoding", "thrown"}
  /\ UNCHANGED <<length, input_vars, given, ended, demuxed, converter>>

\* PartialDecode(): av_read_frame() makes a packet of some of the bytes it has, of this
\* stream or of another, or throws.
ReadFrame ==
  /\ at = "decoding"
  /\ \/ /\ \E n \in 1 .. total_used_bytes - demuxed : demuxed' = demuxed + n
        /\ at' \in {"decoding", "packet"}
     \/ at' = "thrown" /\ UNCHANGED demuxed
  /\ UNCHANGED <<length, input_vars, given, ended, converter>>

\* PartialDecodeImpl(): the codec makes frames of a packet, or none yet.
DecodePacket ==
  /\ at = "packet"
  /\ \/ converter' \in {converter, "ready"} /\ at' = "decoding"
     \/ at' = "thrown" /\ UNCHANGED converter
  /\ UNCHANGED <<length, input_vars, given, ended, demuxed>>

\* Seeded fault: the end of the file is a packet like another.
ReadFrameEofGoesOn ==
  /\ at = "decoding"
  /\ at' = "packet"
  /\ UNCHANGED <<length, input_vars, given, ended, demuxed, converter>>

\* av_read_frame() answers AVERROR_EOF, as it does when the callback has and before that if
\* the container says where its audio ends; PartialDecode() is FALSE.
ReadFrameEof ==
  /\ at = "decoding"
  /\ at' = "flush"
  /\ UNCHANGED <<length, input_vars, given, ended, demuxed, converter>>

\* Flush(): the codec gives the frames it held back, then the converter is flushed, which
\* a frame must have initialised.
Flush ==
  /\ at = "flush"
  /\ \/ converter' \in {converter, "ready"}
        /\ at' = IF converter' = "ready" THEN "done" ELSE "crashed"
     \/ at' = "thrown" /\ UNCHANGED converter
  /\ UNCHANGED <<length, input_vars, given, ended, demuxed>>

Step == \/ Construct \/ (\E n \in ReadSizes : ReadCallback(n))
        \/ FindStream \/ ReadFrame \/ DecodePacket \/ ReadFrameEof \/ Flush

Finished == at \in {"done", "thrown", "crashed"} /\ UNCHANGED vars

Next == Step \/ Finished

Spec == Init /\ [][Next]_vars

\* The thread of the call runs.
FairSpec == Spec /\ WF_vars(Step)
-------------------------------------------------------------------------------
\* Properties

TypeOK ==
  /\ length \in 0 .. MaxLength
  /\ eof \in BOOLEAN /\ buf \in [Positions -> Nat]
  /\ cur_offset \in 0 .. kBufferSize /\ cur_data_size \in 0 .. kBufferSize - cur_offset
  /\ total_bytes_read \in 0 .. length /\ total_used_bytes \in 0 .. total_bytes_read
  /\ given \in Seq(Nat) /\ ended \in BOOLEAN
  /\ demuxed \in 0 .. total_used_bytes /\ converter \in {"none", "ready"}
  /\ at \in {"new", "opening", "decoding", "packet", "flush", "done", "thrown", "crashed"}

\* The buffer hands libav the bytes of the content, in order and each once, never none
\* but at the end, however its reads fall to the refills (Forward, ReadMore, Empty and
\* the callback of IoContext).
Source == INSTANCE ByteStream WITH
  length <- length, taken <- total_used_bytes, given <- given, ended <- ended
ReadsInOrder == Source!Spec

\* If libav has been told of an end when the decoder is flushed, it has been given the whole
\* content: an end that the buffer reports early would cut the audio without an error
\* (Empty, PartialDecode).  Libav may find the end of the audio by itself before that.
FlushedAtTheEnd == at \in {"flush", "done", "crashed"} /\ ended => total_used_bytes = length

\* The loop over PartialDecode() ends: a buffer that is neither empty nor has a byte to
\* give would be asked again for ever.
DecodingEnds == <>(at \in {"done", "thrown", "crashed"})
===============================================================================
