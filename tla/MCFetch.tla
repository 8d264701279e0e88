------------------------------- MODULE MCFetch -------------------------------
(***************************************************************************)
(* Small instances of Fetch for TLC.                                       *)
(***************************************************************************)
EXTENDS Fetch

MCArchLists == { << "arm64", "amd64" >> }
=============================================================================
