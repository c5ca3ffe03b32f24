------------------------------- MODULE MCApp -------------------------------
(***************************************************************************)
(* One account and the browser of its owner, for App; the requests and     *)
(* turns made may be of any mix.  A transcript of three messages is short  *)
(* enough for two turns to be trimmed.                                     *)
(***************************************************************************)
EXTENDS App
=============================================================================
