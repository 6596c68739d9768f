------------------------------- MODULE MCSession -------------------------------
(***************************************************************************)
(* Session with three languages, of which the options name one twice and   *)
(* one never, and streams that hold one message in each direction.         *)
(***************************************************************************)
EXTENDS Session

\* A directory has a copy of another one's model below it, by the same name.
MCModel(language, version) == [conf |-> TRUE, language |-> language, version |-> version]
MCFileSystem ==
  (<<>> :> [MCModel("is", 9) EXCEPT !.conf = FALSE]) @@ (<<"old">> :> MCModel("is", 1))
    @@ (<<"new">> :> MCModel("is", 2)) @@ (<<"fr">> :> MCModel("fr", 4))
    @@ (<<"old", "fr">> :> MCModel("fr", 5))
MCKaldiModels == <<<<"old">>, <<"fr">>, <<"new">>>>
MCConfig == [streaming |-> TRUE, interim_results |-> TRUE, json |-> FALSE, use_ssl |-> FALSE,
             single_utterance |-> FALSE, language |-> "is"]
MCClientConfigs ==
  {MCConfig, [MCConfig EXCEPT !.json = TRUE], [MCConfig EXCEPT !.language = "fr", !.streaming = FALSE],
   [MCConfig EXCEPT !.language = "en", !.interim_results = FALSE],
   [MCConfig EXCEPT !.use_ssl = TRUE, !.interim_results = FALSE]}
MCResponses == {[kind |-> k, seg |-> 0, offset |-> 0] : k \in {"interim", "final", "empty"}}
                 \cup {[kind |-> "final", seg |-> 1, offset |-> 0]}
===============================================================================
