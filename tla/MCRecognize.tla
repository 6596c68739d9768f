------------------------------ MODULE MCRecognize ------------------------------
(***************************************************************************)
(* Recognize with frames of two samples, chunks of two, and content that   *)
(* fills no chunk, one exactly, or one and a half.                         *)
(***************************************************************************)
EXTENDS Recognize

MCContentDims == {0, 2, 3}
MCRequests ==
  {[valid |-> v, audio |-> a, diarize |-> d, punctuation |-> p, word_time_offsets |-> p]
     : v \in BOOLEAN, a \in {"linear16", "coded", "uri"}, d \in BOOLEAN, p \in BOOLEAN}
===============================================================================
