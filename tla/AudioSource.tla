------------------------------ MODULE AudioSource ------------------------------
(***************************************************************************)
(* The audio sources of the unary Recognize (src/audio/audio-source.{h,cc})*)
(* and the libav wrapper that decodes for them (src/audio/ffmpeg-wrapper)  *)
(*                                                                         *)
(* StreamingUriAudioSource decodes packets into a stringstream, ss_, and   *)
(* hands it out in chunks.  ContentAudioSource has all its samples at once.*)
(* Audio is counted: ss_ is its three positions in bytes, how much has been*)
(* written, how much of that the get area has noticed, and how much is     *)
(* taken.  The get area is brought up to date when it runs out, by tellg(),*)
(* and by a write that has to grow the buffer, at any byte.                *)
(*                                                                         *)
(* "at" is where NextChunk() of the URI source is; one step is one call of *)
(* libav or one decision.  What libav makes of the packets is left open.   *)
(***************************************************************************)
EXTENDS Integers

CONSTANTS
  MaxPackets,   \* bound: packets in the resource
  FrameSamples, \* samples in a decoded frame
  MaxDelay,     \* frames the codec, and samples the converter, may hold back
  MaxBuffer,    \* max_buffer_size_: bytes in a chunk of the URI source
  ContentChunk, \* chunk_size_in_elem: samples in a chunk of the content source
  ContentDims   \* how many samples some content can decode to

ASSUME AudioAssumption ==
  /\ MaxPackets \in Nat /\ FrameSamples \in Nat \ {0} /\ MaxDelay \in Nat
  /\ MaxBuffer \in Nat /\ MaxBuffer % 2 = 0 /\ MaxBuffer > 0
  /\ ContentChunk \in Nat \ {0} /\ ContentDims \subseteq Nat

VARIABLES
  packets,           \* packets av_read_frame() has not returned yet
  ready, delayed,    \* frames in the codec: ready to be received, held back
  converter,         \* "none", or "ready" once SampleConverter::Init() has run
  residual,          \* samples the converter holds back
  refused,           \* history: packets avcodec_send_packet() did not accept
  written, visible, taken,
  no_more_to_decode, no_more_chunks,
  at,                \* "closed", "idle", a place in NextChunk(), "thrown" or "crashed"
  chunk,             \* samples in the chunk that was returned last
  dim, n_seen        \* of the content source: data_.Dim(), n_seen_elements_

codec_vars == <<packets, ready, delayed, refused>>
converter_vars == <<converter, residual>>
stream_vars == <<written, visible, taken>>
flags == <<no_more_to_decode, no_more_chunks>>
content_vars == <<dim, n_seen>>
uri_vars == <<codec_vars, converter_vars, stream_vars, flags>>
source_vars == <<uri_vars, at, chunk, content_vars>>

SourceInit ==
  /\ packets \in 0 .. MaxPackets /\ ready = 0 /\ delayed = 0 /\ refused = 0
  /\ converter = "none" /\ residual = 0
  /\ written = 0 /\ visible = 0 /\ taken = 0
  /\ no_more_to_decode = FALSE /\ no_more_chunks = FALSE
  /\ at = "closed" /\ chunk = 0 /\ dim = 0 /\ n_seen = 0
-------------------------------------------------------------------------------
\* IoContextDecoder: packets to frames to samples

\* avio_open2() does not reach the resource: an AvError.
UrlIoContextThrows == at' = "thrown"

\* The constructor of the decoder recognises the format, finds the audio stream and opens
\* the codec for it, or throws.
OpenDecoder == at' \in {"idle", "thrown"}

\* Before either the encoding is refused if it is neither MP3 nor FLAC.
OpenUri ==
  /\ at = "closed"
  /\ UrlIoContextThrows \/ OpenDecoder
  /\ UNCHANGED <<uri_vars, chunk, content_vars>>

\* av_read_frame() and avcodec_send_packet().  A packet of another stream is dropped.
\* The codec may refuse a packet while frames of earlier ones have not been received,
\* which CallRet() throws; otherwise it turns it into frames, and may hold some back.
ReadPacket ==
  /\ at = "read" /\ packets > 0
  /\ packets' = packets - 1
  /\ \/ at' = "check" /\ UNCHANGED <<ready, delayed, refused>>
     \/ ready > 0 /\ refused' = refused + 1 /\ at' = "thrown" /\ UNCHANGED <<ready, delayed>>
     \/ /\ \E frames \in 0 .. 1 : \E kept \in 0 .. MaxDelay :
             /\ kept <= ready + delayed + frames
             /\ delayed' = kept /\ ready' = ready + delayed + frames - kept
        /\ at' = "receive" /\ UNCHANGED refused
  /\ UNCHANGED <<converter_vars, stream_vars, flags, chunk, content_vars>>

\* av_read_frame() says EAGAIN: PartialDecode() is called again.
ReadAgain ==
  /\ at = "read"
  /\ at' = "check"
  /\ UNCHANGED <<uri_vars, chunk, content_vars>>

\* av_read_frame() says EOF, at the end or because the connection is lost, which is
\* only logged; Flush() asks the codec for all it holds.
ReadEof ==
  /\ at = "read"
  /\ ready' = ready + delayed /\ delayed' = 0
  /\ at' = "drain"
  /\ UNCHANGED <<packets, refused, converter_vars, stream_vars, flags, chunk, content_vars>>

\* WriteFrame(): n samples are written to ss_.
WriteSamples(n) ==
  /\ written' = written + 2 * n
  /\ visible' \in {visible} \cup (written + 1 .. written + 2 * n)

\* SampleConverter: the first frame initialises it, and resampling may keep some samples
\* of a frame for later.
ConvertFrame ==
  /\ converter' = "ready"
  /\ residual' \in 0 .. MaxDelay /\ residual' <= residual + FrameSamples
  /\ WriteSamples(residual + FrameSamples - residual')

\* Seeded fault: one frame is received for each packet sent.
ReceiveOneFrame ==
  /\ at \in {"receive", "drain"} /\ ready > 0
  /\ ready' = ready - 1
  /\ ConvertFrame
  /\ at' = IF at = "drain" THEN at ELSE "check"
  /\ UNCHANGED <<packets, delayed, refused, taken, flags, chunk, content_vars>>

\* A frame is received and converted.
ReceiveFrame ==
  /\ at \in {"receive", "drain"} /\ ready > 0
  /\ ready' = ready - 1
  /\ ConvertFrame
  /\ UNCHANGED <<packets, delayed, refused, taken, flags, at, chunk, content_vars>>

ReceiveNoMore ==
  /\ at \in {"receive", "drain"} /\ ready = 0
  /\ at' = IF at = "drain" THEN "flush_converter" ELSE "check"
  /\ UNCHANGED <<uri_vars, chunk, content_vars>>

\* Seeded fault: the converter is not flushed.
FlushConverterSkipped ==
  /\ at = "flush_converter" /\ converter = "ready"
  /\ no_more_to_decode' = TRUE /\ at' = "take"
  /\ UNCHANGED <<codec_vars, converter_vars, stream_vars, no_more_chunks, chunk, content_vars>>

\* The converter is flushed until it gives nothing more.
FlushConverter ==
  /\ at = "flush_converter" /\ converter = "ready"
  /\ IF residual > 0
       THEN /\ \E n \in 1 .. residual : residual' = residual - n /\ WriteSamples(n)
            /\ UNCHANGED <<no_more_to_decode, at>>
       ELSE /\ no_more_to_decode' = TRUE /\ at' = "take"
            /\ UNCHANGED <<residual, written, visible>>
  /\ UNCHANGED <<codec_vars, converter, taken, no_more_chunks, chunk, content_vars>>

\* Flush() of a converter that no frame has initialised: swr_convert_frame() is given a
\* null context.
FlushUninitialised ==
  /\ at = "flush_converter" /\ converter = "none"
  /\ at' = "crashed"
  /\ UNCHANGED <<uri_vars, chunk, content_vars>>

\* Any of the libav calls may report an error, which is thrown.
LibavError ==
  /\ at \in {"read", "receive", "drain"} \/ (at = "flush_converter" /\ converter = "ready")
  /\ at' = "thrown"
  /\ UNCHANGED <<uri_vars, chunk, content_vars>>
-------------------------------------------------------------------------------
\* StreamingUriAudioSource

HasMoreChunks == ~no_more_chunks

StartNextChunk ==
  /\ at = "idle"
  /\ at' = IF no_more_to_decode THEN "take" ELSE "read"
  /\ UNCHANGED <<uri_vars, chunk, content_vars>>

\* ss_.rdbuf()->in_avail(): what is left of the get area; if nothing is, it is updated.
GetArea == IF taken < visible THEN visible ELSE written
InAvail == GetArea - taken

CheckBuffer ==
  /\ at = "check"
  /\ visible' = GetArea
  /\ at' = IF InAvail >= MaxBuffer THEN "take" ELSE "read"
  /\ UNCHANGED <<codec_vars, converter_vars, written, taken, flags, chunk, content_vars>>

Smaller(a, b) == IF a < b THEN a ELSE b

\* Seeded fault: half a sample is read as a whole one.
BytesToReadPadded == Smaller(2 * ((InAvail + 1) \div 2), MaxBuffer)

\* Seeded fault: half a sample may be read.
BytesToReadOdd == Smaller(InAvail, MaxBuffer)

\* readsome() of whole samples only.
BytesToRead == Smaller(2 * (InAvail \div 2), MaxBuffer)

TakeChunk ==
  /\ at = "take" /\ BytesToRead > 0
  /\ taken' = taken + BytesToRead /\ visible' = GetArea
  /\ chunk' = BytesToRead \div 2
  /\ at' = "idle"
  /\ UNCHANGED <<codec_vars, converter_vars, written, flags, content_vars>>

\* Seeded fault: a half sample is taken for the end.
TakeNothingEnds ==
  /\ at = "take" /\ BytesToRead = 0
  /\ no_more_chunks' = no_more_to_decode
  /\ chunk' = 0 /\ at' = "idle"
  /\ UNCHANGED <<codec_vars, converter_vars, stream_vars, no_more_to_decode, content_vars>>

\* Seeded fault: the get area is not updated for half a sample.
TakeNothingStays ==
  /\ at = "take" /\ BytesToRead = 0
  /\ visible' = GetArea /\ no_more_chunks' = (InAvail = 0 /\ no_more_to_decode)
  /\ chunk' = 0 /\ at' = "idle"
  /\ UNCHANGED <<codec_vars, converter_vars, written, taken, no_more_to_decode, content_vars>>

\* Nothing to take: half a sample in sight, and tellg() shows the rest; or the end.
TakeNothing ==
  /\ at = "take" /\ BytesToRead = 0
  /\ IF InAvail = 1
       THEN visible' = written /\ UNCHANGED no_more_chunks
       ELSE visible' = GetArea /\ no_more_chunks' = no_more_to_decode
  /\ chunk' = 0 /\ at' = "idle"
  /\ UNCHANGED <<codec_vars, converter_vars, written, taken, no_more_to_decode, content_vars>>

\* The steps of NextChunk() until it returns.  EAGAIN is kept apart: only the network
\* can end a row of them.
Decoding == \/ ReadPacket \/ ReadEof \/ ReceiveFrame \/ ReceiveNoMore \/ FlushConverter
            \/ FlushUninitialised \/ LibavError \/ CheckBuffer \/ TakeChunk \/ TakeNothing
-------------------------------------------------------------------------------
\* ContentAudioSource

ContentHasMoreChunks == n_seen < dim

\* The constructor decodes the content.
LoadContent(n) ==
  /\ dim' = n
  /\ UNCHANGED <<uri_vars, at, chunk, n_seen>>

\* No frame of it can be decoded: as in FlushUninitialised.
LoadNoFrame ==
  /\ at' = "crashed"
  /\ UNCHANGED <<uri_vars, chunk, content_vars>>

ContentNextChunk ==
  /\ chunk' = Smaller(ContentChunk, dim - n_seen)
  /\ n_seen' = n_seen + ContentChunk
  /\ UNCHANGED <<uri_vars, at, dim>>
-------------------------------------------------------------------------------
\* Properties

SourceType ==
  /\ packets \in 0 .. MaxPackets /\ ready \in Nat /\ delayed \in 0 .. MaxDelay
  /\ refused \in Nat /\ converter \in {"none", "ready"} /\ residual \in 0 .. MaxDelay
  /\ written \in Nat /\ visible \in 0 .. written /\ taken \in 0 .. visible
  /\ no_more_to_decode \in BOOLEAN /\ no_more_chunks \in BOOLEAN
  /\ at \in {"closed", "idle", "read", "receive", "drain", "flush_converter", "check", "take",
             "thrown", "crashed"}
  /\ chunk \in Nat /\ dim \in Nat /\ n_seen \in Nat

\* A chunk of the URI source starts on a sample, wherever the get area of ss_ ends when
\* it is cut: an odd byte is left for later (NextChunk).
ChunksAreAligned == taken % 2 = 0

\* The codec accepts every packet, because its frames are all received before the next
\* one is sent (PartialDecodeImpl).
NoPacketRefused == refused = 0

\* When the URI source says it has no more chunks, all that was decoded is handed out:
\* nothing is left in the codec, in the converter or in ss_ (NextChunk, Flush).
AllAudioHandedOut ==
  no_more_chunks => taken = written /\ ready = 0 /\ delayed = 0 /\ residual = 0

\* ffmpeg-wrapper.h: SampleConverter::Init() must have been called.  Flush() of audio
\* without a decodable frame calls the converter without.
ConverterIsInitialised == at # "crashed"
===============================================================================
