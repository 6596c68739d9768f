----------------------------- MODULE MCUriSchemes -----------------------------
(***************************************************************************)
(* UriSchemes with the schemes of the HTTP build.                          *)
(***************************************************************************)
EXTENDS UriSchemes

MCEnabled == <<"http", "https">>
===============================================================================
