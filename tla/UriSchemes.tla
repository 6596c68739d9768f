------------------------------- MODULE UriSchemes -------------------------------
(***************************************************************************)
(* IsUriSupported() (src/audio/audio-source.cc), which Validate() calls    *)
(* for a request with a URI.  The schemes are a function's static vector,  *)
(* filled by the first call that finds it empty.  The calls are in the     *)
(* threads of the server and there is no lock: one may find the vector     *)
(* while another fills it.                                                 *)
(*                                                                         *)
(* An emplace_back() is one step here.  Of what a reader may see of a      *)
(* vector that is written meanwhile this keeps the mildest: the elements   *)
(* it has.                                                                 *)
(***************************************************************************)
EXTENDS Sequences, Naturals

CONSTANTS
  Calls,    \* calls of IsUriSupported(), each in a thread of its own
  Enabled,  \* a sequence of the schemes the build enables, none ""
  Schemes   \* those of the URIs; "" of a string without one

VARIABLES
  supported_uri_schemes,
  scheme,  \* of each call's URI
  pc,      \* of each call: "called", "filling", "searching" or "returned"
  n_added, \* elements a call has added
  answer   \* what it has returned

vars == <<supported_uri_schemes, scheme, pc, n_added, answer>>

Init ==
  /\ supported_uri_schemes = <<>>
  /\ scheme \in [Calls -> Schemes]
  /\ pc = [c \in Calls |-> "called"]
  /\ n_added = [c \in Calls |-> 0]
  /\ answer = [c \in Calls |-> "none"]

CheckEmpty(c) ==
  /\ pc[c] = "called"
  /\ pc' = [pc EXCEPT ![c] = IF supported_uri_schemes = <<>> THEN "filling" ELSE "searching"]
  /\ UNCHANGED <<supported_uri_schemes, scheme, n_added, answer>>

EmplaceBack(c) ==
  /\ pc[c] = "filling" /\ n_added[c] < Len(Enabled)
  /\ supported_uri_schemes' = Append(supported_uri_schemes, Enabled[n_added[c] + 1])
  /\ n_added' = [n_added EXCEPT ![c] = @ + 1]
  /\ UNCHANGED <<scheme, pc, answer>>

Filled(c) ==
  /\ pc[c] = "filling" /\ n_added[c] = Len(Enabled)
  /\ pc' = [pc EXCEPT ![c] = "searching"]
  /\ UNCHANGED <<supported_uri_schemes, scheme, n_added, answer>>

Search(c) ==
  /\ pc[c] = "searching"
  /\ answer' = [answer EXCEPT ![c] =
       IF \E i \in DOMAIN supported_uri_schemes : supported_uri_schemes[i] = scheme[c]
         THEN "supported" ELSE "unsupported"]
  /\ pc' = [pc EXCEPT ![c] = "returned"]
  /\ UNCHANGED <<supported_uri_schemes, scheme, n_added>>

IsUriSupported(c) == CheckEmpty(c) \/ EmplaceBack(c) \/ Filled(c) \/ Search(c)

Returned == (\A c \in Calls : pc[c] = "returned") /\ UNCHANGED vars

Next == (\E c \in Calls : IsUriSupported(c)) \/ Returned

Spec == Init /\ [][Next]_vars
-------------------------------------------------------------------------------
\* Properties

Supported(s) == \E i \in DOMAIN Enabled : Enabled[i] = s

\* audio-source.h: "Check whether URI (i.e. the scheme part) is supported by
\* CreateAudioSourceFromUri".  The answer is right whichever calls run at the same time.
AnswersAreRight ==
  \A c \in Calls :
    answer[c] # "none" => (answer[c] = "supported") = Supported(scheme[c])
===============================================================================
