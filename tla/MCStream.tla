------------------------------- MODULE MCStream -------------------------------
(***************************************************************************)
(* Instances of RewriteStream.                                             *)
(***************************************************************************)
EXTENDS StreamProps
=============================================================================
