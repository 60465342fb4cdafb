---------------------------- MODULE MCResolveCall ----------------------------
(***************************************************************************)
(* Instances of ResolveCall for TLC.                                       *)
(***************************************************************************)
EXTENDS ResolveCall
=============================================================================
