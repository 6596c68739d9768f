------------------------------- MODULE ByteStream -------------------------------
(***************************************************************************)
(* What a read callback owes libav (avio_alloc_context): the bytes of the  *)
(* resource in order, each once, at least one with every answer, and the   *)
(* end only after the last.  A byte is its position in the resource.       *)
(***************************************************************************)
EXTENDS Integers, Sequences

VARIABLES length, \* bytes in the resource
          taken,  \* bytes handed out
          given,  \* the last answer
          ended   \* the end has been reported

vars == <<length, taken, given, ended>>

Init == length \in Nat /\ taken = 0 /\ given = <<>> /\ ended = FALSE

Give(n) ==
  /\ ~ended
  /\ given' = [i \in 1 .. n |-> taken + i]
  /\ taken' = taken + n
  /\ UNCHANGED <<length, ended>>

End ==
  /\ taken = length
  /\ ended' = TRUE
  /\ UNCHANGED <<length, taken, given>>

Next == (\E n \in 1 .. length - taken : Give(n)) \/ End

Spec == Init /\ [][Next]_vars
===============================================================================
